------------------------------ MODULE EioGroup ------------------------------
(***************************************************************************)
(* Request groups of ext/libeio/eio.c (lines 546-559, 664-739, 2013-2058): *)
(* groups with members, nested groups, feeders, cancellation, and how      *)
(* eio_poll and eio_finish bring a group to its end.                       *)
(*                                                                         *)
(* All of this runs on the client's thread: the workers see of a member no *)
(* more than the pool does (EioService, which EtpPool implements).  The    *)
(* client's call stack is a variable, for eio_finish, feeders and finish   *)
(* callbacks call each other; stack[1] is the innermost call.              *)
(***************************************************************************)
EXTENDS Integers, Sequences, FiniteSets

CONSTANTS
  Reqs,        \* memory for ordinary requests
  Grps,        \* memory for groups
  None,        \* the null pointer
  Limits,      \* arguments given to eio_grp_limit and eio_grp_feed
  CbResults,   \* what a finish callback may return
  MaxDepth     \* callbacks and feeders call no further beyond this depth

ASSUME GroupAssumption ==
  /\ None \notin Reqs \union Grps
  /\ Reqs \intersect Grps = {}
  /\ IsFiniteSet(Reqs) /\ IsFiniteSet(Grps)
  /\ Limits \subseteq Int
  /\ 0 \in CbResults /\ CbResults \subseteq Int
  /\ MaxDepth \in Nat

Nodes == Reqs \union Grps

VARIABLES
  stage,      \* how far a request has come, see Stages
  res_queue,  \* the requests in res_queue
  cancelled,  \* the requests whose EIO_FLAG_CANCELLED is set
  grp, grp_prev, grp_next,   \* the fields of those names, of every request
  grp_first,                 \* the head of a group's list
  size,       \* grp->size: the number of members
  int1,       \* grp->int1: eio_poll has met the group, which had members
  int2,       \* grp->int2: the limit up to which the feeder is called
  feed,       \* grp->feed is set
  groupadd,   \* the groups whose EIO_FLAG_GROUPADD is set
  stack,      \* the calls of the library the client is in
  res         \* the result eio_finish is about to return, 0 outside

links  == <<grp, grp_prev, grp_next, grp_first, size>>
fields == <<int1, int2, feed, groupadd>>
vars == <<stage, res_queue, cancelled, links, fields, stack, res>>

(* "taken" is a request eio_poll has taken off res_queue, "delayed" a group *)
(* eio_poll took off it while it had members.                               *)
Stages == {"free", "queued", "running", "done", "taken", "delayed", "finishing"}

(* The places in the library where the client may be: in eio_poll, in      *)
(* eio_finish (before, in and after the callback, before eio_destroy), in  *)
(* grp_try_feed, and in eio_grp_cancel.                                    *)
Places == {"poll", "polled", "finish", "callback", "dec", "decd", "destroy",
           "feed", "feeder", "cancel"}

(* In these the client's own code runs. *)
UserPlaces == {"callback", "feeder"}

Init ==
  /\ stage = [x \in Nodes |-> "free"] /\ res_queue = {} /\ cancelled = {}
  /\ grp = [x \in Nodes |-> None]
  /\ grp_prev = [x \in Nodes |-> None] /\ grp_next = [x \in Nodes |-> None]
  /\ grp_first = [g \in Grps |-> None] /\ size = [g \in Grps |-> 0]
  /\ int1 = [g \in Grps |-> FALSE] /\ int2 = [g \in Grps |-> 0]
  /\ feed = [g \in Grps |-> FALSE] /\ groupadd = {}
  /\ stack = << >> /\ res = 0

-----------------------------------------------------------------------------
(* The call stack. *)
Frame(place, x) == [at |-> place, req |-> x]
In(place) == stack # << >> /\ Head(stack).at = place
It == Head(stack).req
Goto(place) == stack' = <<Frame(place, It)>> \o Tail(stack)
Return == stack' = Tail(stack)
Call(place, x) == stack' = <<Frame(place, x)>> \o stack
CallThen(place, x, then) == stack' = <<Frame(place, x), Frame(then, It)>> \o Tail(stack)

UserCode == stack # << >> => Head(stack).at \in UserPlaces
MayCall  == UserCode /\ Len(stack) < MaxDepth

Live(x) == stage[x] # "free"
First(x) == IF x \in Grps THEN grp_first[x] ELSE None

(* A group whose callback was called, or would have been, is finished: the *)
(* client may still refer to it, but may no longer add to it.              *)
Open(g) == stage[g] \in {"done", "delayed"}

(* x and the groups it is in, directly or not. *)
Above(x) ==
  LET up[n \in 0..Cardinality(Grps)] ==
        IF n = 0 THEN {x} ELSE up[n-1] \union {grp[y] : y \in up[n-1] \ {None}}
  IN  up[Cardinality(Grps)]

-----------------------------------------------------------------------------
(* The workers, as EioService has them. *)
Work(r) ==
  /\ \/ /\ stage[r] = "queued" /\ r \notin cancelled
        /\ stage' = [stage EXCEPT ![r] = "running"]
        /\ UNCHANGED res_queue
     \/ /\ stage[r] = "running" \/ (stage[r] = "queued" /\ r \in cancelled)
        /\ stage' = [stage EXCEPT ![r] = "done"]
        /\ res_queue' = res_queue \union {r}
  /\ UNCHANGED <<cancelled, links, fields, stack, res>>

-----------------------------------------------------------------------------
(* What the client does, in its main program, callbacks and feeders.       *)

(* A group goes to res_queue at once (etp_submit), other requests to a     *)
(* worker.                                                                 *)
Submit(x) ==
  /\ UserCode
  /\ stage[x] = "free"
  /\ stage' = [stage EXCEPT ![x] = IF x \in Grps THEN "done" ELSE "queued"]
  /\ res_queue' = IF x \in Grps THEN res_queue \union {x} ELSE res_queue
  /\ UNCHANGED <<cancelled, links, fields, stack, res>>

(* eio_grp_add.  A request belongs to one group only and is not added once *)
(* it is being finished.                                                   *)
Add_uncounted(g) == UNCHANGED size                  \* mutant of Count
Count(g) == size' = [size EXCEPT ![g] = @ + 1]

Add(g, x) ==
  /\ UserCode
  /\ Open(g)
  /\ x \notin Above(g)
  /\ stage[x] \in {"queued", "running", "done", "delayed"} /\ grp[x] = None
  /\ groupadd' = groupadd \union {g}
  /\ Count(g)
  /\ grp' = [grp EXCEPT ![x] = g]
  /\ grp_next' = [grp_next EXCEPT ![x] = grp_first[g]]
  /\ grp_prev' = [n \in Nodes |-> IF n = x THEN None
                                  ELSE IF n = grp_first[g] THEN x ELSE grp_prev[n]]
  /\ grp_first' = [grp_first EXCEPT ![g] = x]
  /\ UNCHANGED <<stage, res_queue, cancelled, int1, int2, feed, stack, res>>

(* eio_grp_limit, and eio_grp_feed, which sets a feeder too. *)
Limit(g, n) ==
  /\ MayCall
  /\ Open(g)
  /\ int2' = [int2 EXCEPT ![g] = n]
  /\ \/ UNCHANGED feed
     \/ feed' = [feed EXCEPT ![g] = TRUE]
  /\ Call("feed", g)
  /\ UNCHANGED <<stage, res_queue, cancelled, links, int1, groupadd, res>>

(* eio_cancel: the flag, then eio_grp_cancel. *)
Cancel(x) ==
  /\ MayCall
  /\ Live(x)
  /\ cancelled' = cancelled \union {x}
  /\ IF First(x) = None THEN UNCHANGED stack ELSE Call("cancel", First(x))
  /\ UNCHANGED <<stage, res_queue, links, fields, res>>

(* eio_poll, from the main program *)
Poll ==
  /\ stack = << >>
  /\ Call("poll", None)
  /\ UNCHANGED <<stage, res_queue, cancelled, links, fields, res>>

-----------------------------------------------------------------------------
(* eio_poll: one round of its loop.  Which of the finished requests comes  *)
(* first is the queue's affair, as is when a limit ends the loop (EtpPool).*)

HasMembers_never(x) == FALSE                        \* mutant of HasMembers
HasMembers(x) == x \in Grps /\ size[x] > 0

Delay_unmarked(x) == UNCHANGED int1                 \* mutant of Delay
Delay(x) == int1' = [int1 EXCEPT ![x] = TRUE]

PollTake(x) ==
  /\ In("poll")
  /\ x \in res_queue
  /\ res_queue' = res_queue \ {x}
  /\ \/ /\ HasMembers(x)
        /\ stage' = [stage EXCEPT ![x] = "delayed"]
        /\ Delay(x)
        /\ UNCHANGED stack
     \/ /\ ~HasMembers(x)
        /\ stage' = [stage EXCEPT ![x] = "taken"]
        /\ CallThen("finish", x, "polled")
        /\ UNCHANGED int1
  /\ UNCHANGED <<cancelled, links, int2, feed, groupadd, res>>

PollEmpty ==
  /\ In("poll")
  /\ res_queue = {}
  /\ Return
  /\ UNCHANGED <<stage, res_queue, cancelled, links, fields, res>>

(* A result of eio_finish, or a limit, ends the loop. *)
Polled ==
  /\ In("polled")
  /\ \/ Return
     \/ res = 0 /\ Goto("poll")
  /\ res' = 0
  /\ UNCHANGED <<stage, res_queue, cancelled, links, fields>>

-----------------------------------------------------------------------------
(* eio_finish *)

EIO_CANCELLED_never(x) == FALSE                     \* mutant of EIO_CANCELLED
EIO_CANCELLED(x) == x \in cancelled

Finish ==
  /\ In("finish")
  /\ IF EIO_CANCELLED(It)
       THEN Goto("dec") /\ stage' = [stage EXCEPT ![It] = "taken"]
       ELSE Goto("callback") /\ stage' = [stage EXCEPT ![It] = "finishing"]
  /\ UNCHANGED <<res_queue, cancelled, links, fields, res>>

(* Of the results of nested callbacks, the first that is not 0 counts.     *)
CallbackReturn(r) ==
  /\ In("callback")
  /\ res' = IF res = 0 THEN r ELSE res
  /\ Goto("dec")
  /\ UNCHANGED <<stage, res_queue, cancelled, links, fields>>

(* grp->grp_first, when its first member leaves *)
Behead_not(g, x) == UNCHANGED grp_first             \* mutant of Behead
Behead(g, x) ==
  grp_first' = [grp_first EXCEPT ![g] = IF @ = x THEN grp_next[x] ELSE @]

(* The feeder is called first thing after a member has left. *)
Refill_not(g) == Goto("decd")                       \* mutant of Refill
Refill(g) == CallThen("feed", g, "decd")

(* The request leaves its group: unlinked, --size, grp_try_feed.           *)
Unlink ==
  /\ In("dec")
  /\ LET x == It
         g == grp[x]
     IN  \/ /\ g = None
            /\ Goto("destroy")
            /\ UNCHANGED links
         \/ /\ g # None
            /\ grp_prev' = [n \in Nodes |-> IF n = grp_next[x] THEN grp_prev[x] ELSE grp_prev[n]]
            /\ grp_next' = [n \in Nodes |-> IF n = grp_prev[x] THEN grp_next[x] ELSE grp_next[n]]
            /\ Behead(g, x)
            /\ size' = [size EXCEPT ![g] = @ - 1]
            /\ Refill(g)
            /\ UNCHANGED grp
  /\ UNCHANGED <<stage, res_queue, cancelled, fields, res>>

(* grp_dec ends: the group is finished if it was its last member and       *)
(* eio_poll has already met the group.                                     *)
WasLast_undelayed(g) == size[g] = 0                 \* mutant of WasLast
WasLast(g) == size[g] = 0 /\ int1[g]

FinishGroup ==
  /\ In("decd")
  /\ IF WasLast(grp[It]) THEN CallThen("finish", grp[It], "destroy") ELSE Goto("destroy")
  /\ UNCHANGED <<stage, res_queue, cancelled, links, fields, res>>

(* eio_destroy of the requests in R; freed memory comes back as zeroes     *)
(* (calloc).                                                               *)
DestroyAll(R) ==
  LET Cleared(f, v) == [n \in DOMAIN f |-> IF n \in R THEN v ELSE f[n]]
  IN  /\ stage' = Cleared(stage, "free")
      /\ cancelled' = cancelled \ R
      /\ grp' = Cleared(grp, None)
      /\ grp_prev' = Cleared(grp_prev, None) /\ grp_next' = Cleared(grp_next, None)
      /\ grp_first' = Cleared(grp_first, None) /\ size' = Cleared(size, 0)
      /\ int1' = Cleared(int1, FALSE) /\ int2' = Cleared(int2, 0)
      /\ feed' = Cleared(feed, FALSE) /\ groupadd' = groupadd \ R

Destroy ==
  /\ In("destroy")
  /\ DestroyAll({It})
  /\ Return
  /\ UNCHANGED <<res_queue, res>>

-----------------------------------------------------------------------------
(* grp_try_feed *)

(* grp->size < grp->int2 compares a size_t with a long: as unsigned.       *)
Room(g) == int2[g] < 0 \/ size[g] < int2[g]

TryFeed ==
  /\ In("feed")
  /\ LET g == It
     IN  IF Room(g) /\ ~EIO_CANCELLED(g)
           THEN /\ groupadd' = groupadd \ {g}
                /\ IF feed[g] THEN Goto("feeder") ELSE Return
           ELSE Return /\ UNCHANGED groupadd
  /\ UNCHANGED <<stage, res_queue, cancelled, links, int1, int2, feed, res>>

Progress_always(g) == TRUE                          \* mutant of Progress
Progress(g) == g \in groupadd

(* The feeder returns; one that has added nothing is not called again.     *)
FeederReturn ==
  /\ In("feeder")
  /\ IF Progress(It)
       THEN Goto("feed") /\ UNCHANGED feed
       ELSE Return /\ feed' = [feed EXCEPT ![It] = FALSE]
  /\ UNCHANGED <<stage, res_queue, cancelled, links, int1, int2, groupadd, res>>

(* eio_grp_cancel at one member: eio_cancel, and that member's members     *)
(* before the next.                                                        *)
CancelMember ==
  /\ In("cancel")
  /\ LET x == It
         calls(n) == IF n = None THEN << >> ELSE <<Frame("cancel", n)>>
     IN  /\ cancelled' = cancelled \union {x}
         /\ stack' = calls(First(x)) \o calls(grp_next[x]) \o Tail(stack)
  /\ UNCHANGED <<stage, res_queue, links, fields, res>>

-----------------------------------------------------------------------------
User == \/ \E x \in Nodes : Submit(x) \/ Cancel(x)
        \/ \E g \in Grps, x \in Nodes : Add(g, x)
        \/ \E g \in Grps, n \in Limits : Limit(g, n)

Library == \/ \E x \in Nodes : PollTake(x)
           \/ PollEmpty \/ Polled \/ Finish \/ Unlink \/ FinishGroup \/ Destroy
           \/ TryFeed \/ CancelMember

UserReturns == FeederReturn \/ \E r \in CbResults : CallbackReturn(r)

(* The child of a fork, from the main program, a callback or a feeder:     *)
(* etp_atfork_child destroys what is in the queues and with the workers.   *)
ForkChild ==
  /\ UserCode
  /\ DestroyAll({x \in Nodes : stage[x] \in {"queued", "running", "done"}})
  /\ res_queue' = {}
  /\ UNCHANGED <<stack, res>>

Next == User \/ Poll \/ Library \/ UserReturns \/ \E r \in Reqs : Work(r)

Spec == Init /\ [][Next]_vars

(* A client that forks. *)
ForkSpec == Init /\ [][Next \/ ForkChild]_vars

(* The workers work, the library returns, and so does each of the nested   *)
(* callbacks and feeders, whatever it has called in the meantime; and      *)
(* the event loop polls when there is something to poll.  res_queue is     *)
(* first in, first out among equal priorities, and a group has the highest *)
(* (eio_grp): it is not passed over for ever, nor are the others unless    *)
(* the client floods the pool with requests of higher priority.            *)
FairSpec ==
  /\ Spec
  /\ WF_vars(Library) /\ WF_vars(UserReturns)
  /\ \A d \in 1..MaxDepth-1 : SF_vars(Len(stack) = d /\ UserReturns)
  /\ SF_vars(res_queue # {} /\ Poll)
  /\ \A x \in Nodes : SF_vars(PollTake(x))
  /\ \A r \in Reqs : WF_vars(Work(r))

-----------------------------------------------------------------------------
TypeOK ==
  /\ stage \in [Nodes -> Stages] /\ {res_queue, cancelled} \subseteq SUBSET Nodes
  /\ grp \in [Nodes -> Grps \union {None}]
  /\ {grp_prev, grp_next} \subseteq [Nodes -> Nodes \union {None}]
  /\ grp_first \in [Grps -> Nodes \union {None}] /\ size \in [Grps -> Nat]
  /\ int1 \in [Grps -> BOOLEAN] /\ feed \in [Grps -> BOOLEAN]
  /\ int2 \in [Grps -> Int] /\ groupadd \subseteq Grps
  /\ stack \in Seq([at : Places, req : Nodes \union {None}])
  /\ res \in Int

Frames == {stack[i] : i \in 1..Len(stack)}

(* The members of g that have not left it. *)
Members(g) == {x \in Nodes : /\ grp[x] = g
                             /\ Frame("decd", x) \notin Frames
                             /\ Frame("destroy", x) \notin Frames}

(* list is what one meets on the way from grp_first along grp_next: the    *)
(* members, once each, and grp_prev leads back.                            *)
ListOf(g, list) ==
  /\ \A m \in Members(g) : \E n \in 1..size[g] : list[n] = m
  /\ \A m, n \in 1..size[g] : list[m] = list[n] => m = n
  /\ grp_first[g] = IF size[g] = 0 THEN None ELSE list[1]
  /\ \A n \in 1..size[g] :
       /\ grp_prev[list[n]] = IF n = 1 THEN None ELSE list[n-1]
       /\ grp_next[list[n]] = IF n = size[g] THEN None ELSE list[n+1]

(* Whatever callbacks and feeders add, cancel and finish in the middle of  *)
(* a walk or an eio_finish: the list of a group holds its members, once    *)
(* each, is linked both ways, ends, and size is their number.  Freed       *)
(* memory is in no list.                                                   *)
Linked ==
  \A g \in Grps : Live(g) => \E list \in [1..size[g] -> Members(g)] : ListOf(g, list)

(* A group's callback runs after the last of its members has left it.      *)
FinishedLast ==
  \A g \in Grps : stage[g] \in {"taken", "finishing"} => Members(g) = {}

(* No request, a group least of all, is finished while it is still in      *)
(* res_queue, to be finished again by eio_poll.                            *)
FinishedOnce == \A x \in Nodes : x \in res_queue <=> stage[x] = "done"

(* A group that eio_poll has put off is not forgotten: it has a member     *)
(* that will finish it, or the code that finishes it is at work.           *)
NotForgotten ==
  \A g \in Grps : stage[g] = "delayed" =>
     \/ Members(g) # {}
     \/ \E x \in Nodes : grp[x] = g /\ Frame("decd", x) \in Frames
     \/ Frame("finish", g) \in Frames

(* A feeder that still has something to add is never left uncalled while   *)
(* its group has room.                                                     *)
FeederServed ==
  \A g \in Grps : Live(g) /\ feed[g] /\ Room(g) /\ g \notin cancelled =>
     Frame("feed", g) \in Frames \/ Frame("feeder", g) \in Frames

(* To the client a member is a request like any other: executed at most    *)
(* once, called back at most once and not when cancelled, then destroyed.  *)
Service == INSTANCE EioService
  WITH stage <- [r \in Reqs |-> IF stage[r] = "taken" THEN "done" ELSE stage[r]],
       cancelled <- cancelled \intersect Reqs

MembersImplement == Service!Spec

(* Every group is finished and destroyed, unless the client adds to groups *)
(* for ever.                                                               *)
EveryGroupEnds ==
  \/ []<><<\E g \in Grps, x \in Nodes : Add(g, x)>>_vars
  \/ \A g \in Grps : stage[g] # "free" ~> stage[g] = "free"

-----------------------------------------------------------------------------
(* What the documentation says and the code does not do.  eio.pod: in the  *)
(* child of fork "all ready and pending requests" are destroyed, which     *)
(* "gives you a fully empty libeio queue".  A group is a request too.      *)
ForkEmpties ==
  [][ForkChild => \A x \in Nodes : stage'[x] \in {"free", "taken", "finishing"}]_vars

=============================================================================
