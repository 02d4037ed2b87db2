---------------------------- MODULE EioWait_proofs ----------------------------
(***************************************************************************)
(* Proofs about EIO.wait, for any number of requests and threads: it       *)
(* returns only when nothing is left; and, in a pool whose threads never   *)
(* idle past their timeout and whose thread starts succeed, it never       *)
(* sleeps on a request that no thread will look at.                        *)
(***************************************************************************)
EXTENDS EioWait, EtpPool_refines

(* What the Ruby extension adds to the pool, but for exceptions out of     *)
(* callbacks: no step of it moves a request or a thread.                   *)
Waits == WaitCall \/ WaitStep \/ WaitInterrupt

-----------------------------------------------------------------------------
(* The pool's invariant is one of the pool under EIO.wait.                 *)
LEMMA WaitsFrame ==
  ASSUME IInv, Waits
  PROVE  /\ UNCHANGED <<queues, counters, pool, settings, pipe, threads, cur, seen, requests>>
         /\ pc \in WaitPc \union {"idle"}
         /\ pc' \in WaitPc \union {"idle", "ms_wanted"}
         /\ pc' = "ms_wanted" => ret' \in {"poll_shift", "w_select"}
<1> USE DEF WaitPc
<1>1. CASE WaitCall
  BY <1>1 DEF WaitCall
<1>2. CASE Wait
  BY <1>2 DEF Wait
<1>3. CASE WaitSize
  BY <1>3 DEF WaitSize
<1>4. CASE WaitSelect \/ WaitInterrupt
  BY <1>4 DEF WaitSelect, WaitInterrupt
<1> QED BY <1>1, <1>2, <1>3, <1>4 DEF Waits, WaitStep

LEMMA WaitsInv ==
  ASSUME IInv, Waits
  PROVE  IInv'
<1> USE DEF queues, counters, pool, settings, threads, requests
<1>1. TypeOK'
  <2>1. /\ pc' \in ClientPc /\ ret' \in Client \union {"poll_shift", "w_select"}
        /\ caller' \in {"idle", "wait"} /\ maxreqs' \in UInt /\ pollres' \in Int
    BY PoolAssumption DEF Waits, WaitStep, WaitCall, Wait, WaitSize, WaitSelect,
       WaitInterrupt, IInv, TypeOK, ClientPc, Client, WaitPc, MsPc, UInt
  <2> QED BY <2>1, WaitsFrame DEF IInv, TypeOK
<1>2. Control'
  <2>1. cur = None
    BY WaitsFrame, Points DEF IInv, Control, WaitPc
  <2> QED BY <2>1, WaitsFrame, Points DEF IInv, Control, WaitPc
<1>3. Placed' /\ Ordered'
  BY WaitsFrame, PlacedFrame DEF IInv, PlaceVars
<1>4. Tally'
  BY WaitsFrame, TallyFrame DEF IInv, WaitPc
<1> QED BY <1>1, <1>2, <1>3, <1>4 DEF IInv

(* An exception leaves the finish callback, eio_poll and EIO.wait. *)
LEMMA CallbackRaiseInv ==
  ASSUME IInv, CallbackRaise
  PROVE  IInv'
<1> USE DEF CallbackRaise, queues, counters, pool, settings, threads
<1>1. cur \in Reqs
  BY DEF IInv, TypeOK, Control
<1>2. /\ live' \subseteq Reqs /\ cancelled' \subseteq Reqs
      /\ pri' \in [Reqs -> Pri]
      /\ live' = live \ {cur} /\ cur \in live
      /\ Placed' /\ Ordered'
  BY <1>1, DestroyCur
<1>3. TypeOK'
  BY <1>2, PoolAssumption DEF IInv, TypeOK, UInt, ClientPc, Client
<1>4. Control'
  BY Points DEF IInv, Control
<1>5. Tally'
  <2>1. Counted' = Counted
    BY <1>2, NoneFacts DEF Counted
  <2> QED BY <2>1 DEF IInv, Tally
<1> QED BY <1>2, <1>3, <1>4, <1>5 DEF IInv

LEMMA RubyNextInv ==
  ASSUME IInv, [RubyNext]_vars
  PROVE  IInv'
BY NextInv, StutterInv, WaitsInv, CallbackRaiseInv DEF RubyNext, Waits

(* Everything proved of the pool's state holds under EIO.wait, too. *)
THEOREM RubyInvariance == RubySpec => []IInv
<1>1. Init => IInv
  BY InitInv
<1>2. IInv /\ [RubyNext]_vars => IInv'
  BY RubyNextInv
<1> QED BY <1>1, <1>2, PTL DEF RubySpec

-----------------------------------------------------------------------------
(* EIO.wait leaves its loop only when nothing that was submitted is left,  *)
(* whatever callbacks submitted, cancelled or raised before.               *)
THEOREM WaitDrainsAlways == RubySpec => WaitDrains
<1>1. ASSUME IInv, [RubyNext]_vars
      PROVE  [pc = "wait" /\ pc' = "idle" => live = {}]_vars
  <2> SUFFICES ASSUME pc = "wait", pc' = "idle", RubyNext
               PROVE  live = {}
    BY <1>1 DEF vars, client
  <2>1. ~Next
    <3>1. ~Quiet
      BY Points DEF Quiet, Cancel, Set, SetMaxParallel, Shrink, MaybeStartWanted,
         MaybeStartCount, MaybeStartDecide, PollShift, PollCount, Returns,
         CallbackReturn, PollBegin, client
    <3>2. ~(\E r \in Reqs, p \in PriIn : Submit(r, p)) /\ ~ForkChild
      BY Points DEF Submit, ForkChild
    <3>3. ~(EndThreadPush \/ EndThreadCount \/ StartThread)
      BY DEF EndThreadPush, EndThreadCount, StartThread
    <3>4. ASSUME NEW w \in Workers
          PROVE  ~(\/ Take(w) \/ Expire(w) \/ Spurious(w) \/ HandleTimeout(w)
                   \/ Leave(w) \/ Begin(w) \/ Execute(w) \/ Post(w) \/ Quit(w))
      BY DEF Take, Expire, Spurious, HandleTimeout, Leave, Begin, Execute, Post, Quit, client
    <3> QED BY <3>1, <3>2, <3>3, <3>4, NextCases
  <2>2. Wait
    BY <2>1 DEF RubyNext, WaitStep, WaitCall, WaitSize, WaitSelect, WaitInterrupt, CallbackRaise
  <2>3. nreqs = 0
    BY <2>2 DEF Wait, eio_nreqs
  <2>4. cur = None /\ live \subseteq Reqs
    BY <1>1, Points DEF IInv, Control, TypeOK
  <2>5. Counted = live
    BY <2>4, NoneFacts DEF Counted
  <2>6. Cardinality(live) = 0
    BY <1>1, <2>3, <2>5 DEF IInv, Tally
  <2> QED BY <2>4, <2>6, ReqsBound, FS_EmptySet
<1> QED BY <1>1, RubyInvariance, PTL DEF RubySpec, WaitDrains

-----------------------------------------------------------------------------
(* The size of the pool, if no thread idles past its timeout.  started is  *)
(* then what is due, not only modulo its width, and the client alone       *)
(* changes it.                                                             *)
Prompt == \A w \in Workers : wpc[w] \notin {"expired", "untimed", "leaving"}

Sized ==
  /\ pc \notin ShrinkPc => started <= wanted
  /\ pc \in {"ms_count", "ms_decide", "ms_start"} => started < wanted
  /\ pc \in {"end_push", "end_dec"} => started > wanted
  /\ pc = "ms_decide" => seen = started

Exact == started = Due

PoolInv == IInv /\ Prompt /\ Sized /\ Exact

(* Steps that change nothing but the client's own state. *)
Aside == Quiet \/ Waits \/ CallbackRaise

LEMMA AsideStep ==
  ASSUME IInv, Aside
  PROVE  /\ UNCHANGED <<req_queue, wpc, wreq, idle, started>>
         /\ pc # "end_dec" /\ pc' # "end_dec"
<1>1. CASE Quiet
  BY <1>1, QuietStep
<1>2. CASE Waits
  BY <1>2, WaitsFrame DEF queues, pool, threads, WaitPc
<1>3. CASE CallbackRaise
  BY <1>3 DEF CallbackRaise, queues, pool, threads
<1> QED BY <1>1, <1>2, <1>3 DEF Aside

LEMMA RubyCases ==
  ASSUME RubyNext
  PROVE  \/ Aside \/ \E r \in Reqs, p \in PriIn : Submit(r, p)
         \/ EndThreadPush \/ EndThreadCount \/ StartThread \/ ForkChild
         \/ \E w \in Workers : \/ Take(w) \/ Expire(w) \/ Spurious(w) \/ HandleTimeout(w)
                               \/ Leave(w) \/ Begin(w) \/ Execute(w) \/ Post(w) \/ Quit(w)
BY NextCases DEF RubyNext, Aside, Waits

LEMMA PromptInv ==
  ASSUME IInv, Prompt, Timeouts = FALSE, [RubyNext]_vars
  PROVE  Prompt'
<1>0. wpc \in [Workers -> WorkerPc]
  BY DEF IInv, TypeOK
<1>1. CASE wpc' = wpc
  BY <1>1 DEF Prompt
<1>2. ASSUME NEW w \in Workers,
             NEW to \in WorkerPc \ {"expired", "untimed", "leaving"},
             wpc' = [wpc EXCEPT ![w] = to]
      PROVE  Prompt'
  BY <1>0, <1>2 DEF Prompt
<1>3. CASE Aside
  BY <1>1, <1>3, AsideStep
<1>4. CASE Signal
  <2>1. CASE Waiting = {}
    BY <1>1, <1>4, <2>1 DEF Signal
  <2>2. CASE Waiting # {}
    <3>1. PICK w \in Waiting : wpc' = [wpc EXCEPT ![w] = "woken"]
      BY <1>4, <2>2 DEF Signal
    <3>2. w \in Workers /\ "woken" \in WorkerPc \ {"expired", "untimed", "leaving"}
      BY DEF Waiting, WorkerPc
    <3> QED BY <1>2, <3>1, <3>2
  <2> QED BY <2>1, <2>2
<1>5. CASE EndThreadCount \/ UNCHANGED vars
  BY <1>1, <1>5 DEF EndThreadCount, vars, threads
<1>6. CASE StartThread
  <2>1. "top" \in WorkerPc \ {"expired", "untimed", "leaving"}
    BY DEF WorkerPc
  <2> QED BY <1>1, <1>2, <1>6, <2>1 DEF StartThread
<1>7. CASE ForkChild
  BY <1>7 DEF ForkChild, Prompt
<1>8. ASSUME NEW w \in Workers,
             \/ Take(w) \/ Expire(w) \/ Spurious(w) \/ HandleTimeout(w)
             \/ Leave(w) \/ Begin(w) \/ Execute(w) \/ Post(w) \/ Quit(w)
      PROVE  Prompt'
  <2>1. ~(Expire(w) \/ HandleTimeout(w) \/ Leave(w))
    BY DEF Expire, HandleTimeout, Leave, WorkerStep, Prompt
  <2>2. \E to \in {"picked", "timed", "woken", "quit", "post", "exec", "top", "none"} :
           wpc' = [wpc EXCEPT ![w] = to]
    BY <1>8, <2>1 DEF Take, Spurious, Begin, Execute, Post, Quit, WorkerStep
  <2> QED BY <1>2, <2>2 DEF WorkerPc
<1> QED BY <1>3, <1>4, <1>5, <1>6, <1>7, <1>8, RubyCases DEF Submit, EndThreadPush

LEMMA SizedInv ==
  ASSUME PoolInv, [RubyNext]_vars
  PROVE  Sized'
<1> USE DEF queues, counters, pool, settings, threads, client, requests
<1>0. /\ started \in UInt /\ wanted \in UInt /\ UInt = 0..Word-1 /\ Word \in Nat
      /\ ret \in Client \union {"poll_shift", "w_select"} /\ caller \in {"idle", "wait"}
      /\ pc \in ShrinkPc => ret \in Client
  BY PoolAssumption DEF PoolInv, IInv, TypeOK, Control, UInt
<1>1. CASE UNCHANGED <<started, wanted, pc, seen>>
  BY <1>1 DEF PoolInv, Sized
<1>2. CASE Aside
  <2>0. started' = started
    BY <1>2, AsideStep DEF PoolInv
  <2>1. ASSUME wanted' = wanted, pc \notin ShrinkPc,
               pc' \notin ShrinkPc \union {"ms_count", "ms_decide", "ms_start"}
        PROVE  Sized'
    BY <2>0, <2>1 DEF PoolInv, Sized, ShrinkPc
  <2>2. CASE \E r \in Reqs : Cancel(r)
    BY <1>1, <2>2 DEF Cancel
  <2>3. CASE Set
    <3>1. pc \in Client /\ pc' = pc /\ wanted' >= wanted /\ wanted' \in UInt
      BY <1>0, <2>3, PoolAssumption DEF Set
    <3> QED BY <1>0, <2>0, <3>1, Points DEF PoolInv, Sized
  <2>4. CASE SetMaxParallel
    BY <1>0, <2>0, <2>4, Points DEF SetMaxParallel, PoolInv, Sized
  <2>5. CASE Shrink
    BY <1>0, <2>0, <2>5, Points DEF Shrink, PoolInv, Sized
  <2>6. CASE MaybeStartWanted \/ MaybeStartCount \/ MaybeStartDecide
    BY <1>0, <2>0, <2>6, Points
       DEF MaybeStartWanted, MaybeStartCount, MaybeStartDecide, AtLimit, PoolInv, Sized
  <2>7. CASE PollShift \/ PollCount \/ Returns \/ PollBegin("idle")
    BY <1>0, <2>1, <2>7, Points DEF PollShift, PollCount, Returns, CallbackReturn,
       PollNext, Return, PollBegin
  <2>8. CASE Waits
    BY <2>1, <2>8, WaitsFrame, Points DEF PoolInv, WaitPc
  <2>9. CASE CallbackRaise
    BY <2>1, <2>9, Points DEF CallbackRaise
  <2> QED BY <1>2, <2>2, <2>3, <2>4, <2>5, <2>6, <2>7, <2>8, <2>9 DEF Aside, Quiet
<1>3. ASSUME NEW r \in Reqs, NEW p \in PriIn, Submit(r, p)
      PROVE  Sized'
  BY <1>0, <1>3, Points DEF Submit, PoolInv, Sized
<1>4. CASE EndThreadPush
  BY <1>0, <1>4, Points DEF EndThreadPush, PoolInv, Sized
<1>5. CASE EndThreadCount
  BY <1>5, Points DEF EndThreadCount, Sized
<1>6. CASE StartThread
  <2>1. started < wanted /\ pc = "ms_start" /\ pc' = ret /\ wanted' = wanted
    BY <1>6 DEF StartThread, PoolInv, Sized
  <2>2. started' = started \/ started' = started + 1
    <3>1. started + 1 < Word
      BY <1>0, <2>1
    <3> QED BY <1>0, <1>6, <3>1, IncDec DEF StartThread
  <2> QED BY <1>0, <2>1, <2>2, Points DEF Sized
<1>7. CASE ForkChild
  BY <1>0, <1>7, Points DEF ForkChild, Sized
<1>8. ASSUME NEW w \in Workers,
             \/ Take(w) \/ Expire(w) \/ Spurious(w) \/ HandleTimeout(w)
             \/ Leave(w) \/ Begin(w) \/ Execute(w) \/ Post(w) \/ Quit(w)
      PROVE  Sized'
  <2>1. ~Leave(w)
    BY DEF Leave, WorkerStep, PoolInv, Prompt
  <2> QED BY <1>1, <1>8, <2>1 DEF Take, Expire, Spurious, HandleTimeout, Begin, Execute,
             Post, Quit
<1>9. CASE UNCHANGED vars
  BY <1>1, <1>9 DEF vars
<1> QED BY <1>2, <1>3, <1>4, <1>5, <1>6, <1>7, <1>8, <1>9, RubyCases

LEMMA ExactInv ==
  ASSUME PoolInv, [RubyNext]_vars
  PROVE  Exact'
<1>0. /\ started \in UInt /\ wanted \in UInt /\ UInt = 0..Word-1 /\ Word \in Nat
      /\ IInv /\ Due \in Int /\ started = Due
  BY PoolAssumption, DueType DEF PoolInv, IInv, TypeOK, UInt, Exact
<1>1. ASSUME started' = started, Due' = Due
      PROVE  Exact'
  BY <1>0, <1>1 DEF Exact
<1>2. ASSUME started' = started, UNCHANGED <<req_queue, wpc, wreq>>,
             pc = "end_dec" <=> pc' = "end_dec"
      PROVE  Exact'
  <2>1. Running' = Running /\ Ending' = Ending
    BY <1>2 DEF Running, Ending, Queued
  <2> QED BY <1>1, <1>2, <2>1, DueFrame
<1>3. CASE Aside
  BY <1>0, <1>2, <1>3, AsideStep
<1>4. ASSUME NEW r \in Reqs, NEW p \in PriIn, Submit(r, p)
      PROVE  Exact'
  BY <1>0, <1>1, <1>4, SubmitDue DEF Submit, pool
<1>5. CASE EndThreadPush
  BY <1>0, <1>1, <1>5, EndThreadPushDue DEF EndThreadPush, pool
<1>6. CASE EndThreadCount
  <2>1. started # 0
    BY <1>0, <1>6 DEF EndThreadCount, PoolInv, Sized
  <2>2. started' = started - 1 /\ Due' = Due - 1
    BY <1>0, <1>6, <2>1, EndThreadCountDue, IncDec
  <2> QED BY <1>0, <2>2 DEF Exact
<1>7. CASE StartThread
  <2>1. started + 1 < Word
    BY <1>0, <1>7 DEF StartThread, PoolInv, Sized
  <2>2. CASE started' = Inc(started) /\ Due' = Due + 1
    <3>1. started' = started + 1
      BY <1>0, <2>1, <2>2, IncDec
    <3> QED BY <1>0, <2>2, <3>1 DEF Exact
  <2> QED BY <1>0, <1>1, <1>7, <2>2, StartThreadDue
<1>8. CASE ForkChild
  <2>1. Running' = {} /\ Picked' = {} /\ Queued' = {}
    BY <1>8, EmptyQueueOK DEF ForkChild, Running, Picked, Queued
  <2>2. Ending' = Quits \intersect (Queued' \union {wreq'[w] : w \in Picked'})
    BY DEF Ending, Picked
  <2>3. Ending' = {} /\ started' = 0 /\ pc' # "end_dec"
    BY <1>8, <2>1, <2>2 DEF ForkChild, client, Client
  <2>4. Due' = Cardinality({}) - Cardinality({}) + 0
    BY <2>1, <2>3 DEF Due
  <2> QED BY <2>3, <2>4, FS_EmptySet DEF Exact
<1>9. ASSUME NEW w \in Workers,
             \/ Take(w) \/ Expire(w) \/ Spurious(w) \/ HandleTimeout(w)
             \/ Leave(w) \/ Begin(w) \/ Execute(w) \/ Post(w) \/ Quit(w)
      PROVE  Exact'
  <2>1. ~Leave(w)
    BY DEF Leave, WorkerStep, PoolInv, Prompt
  <2> QED BY <1>0, <1>1, <1>9, <2>1, TakeDue, MovesDue, BeginDue
<1>10. CASE UNCHANGED vars
  BY <1>2, <1>10 DEF vars, queues, pool, threads, client
<1> QED BY <1>3, <1>4, <1>5, <1>6, <1>7, <1>8, <1>9, <1>10, RubyCases

LEMMA PoolStep ==
  ASSUME PoolInv, Timeouts = FALSE, [RubyNext]_vars
  PROVE  PoolInv'
<1>1. IInv'
  BY RubyNextInv DEF PoolInv
<1> QED BY <1>1, PromptInv, SizedInv, ExactInv DEF PoolInv

LEMMA PoolStart == Init => PoolInv
<1> SUFFICES ASSUME Init PROVE PoolInv
  OBVIOUS
<1>1. IInv
  BY InitInv
<1>2. Prompt
  BY DEF Init, Prompt
<1>3. Sized
  BY PoolAssumption, Points DEF Init, Sized
<1>4. Exact
  <2>1. Running = {} /\ Picked = {} /\ Queued = {}
    BY EmptyQueueOK DEF Init, Running, Picked, Queued
  <2>2. Ending = {}
    BY <2>1, EndingDef
  <2>3. Due = Cardinality({}) - Cardinality({}) + 0
    BY <2>1, <2>2 DEF Init, Due
  <2> QED BY <2>3, FS_EmptySet DEF Init, Exact
<1> QED BY <1>1, <1>2, <1>3, <1>4 DEF PoolInv

(* While no thread idles past its timeout, none but the surplus that is to *)
(* end runs beyond wanted: the reads of started without a lock cannot make *)
(* etp_maybe_start_thread or eio_set_max_parallel go too far.              *)
THEOREM PoolBoundedAlways == RubySpec /\ Timeouts = FALSE => []PoolBounded
<1> SUFFICES ASSUME Timeouts = FALSE
             PROVE  RubySpec => []PoolBounded
  OBVIOUS
<1>1. Init => PoolInv
  BY PoolStart
<1>2. PoolInv /\ [RubyNext]_vars => PoolInv'
  BY PoolStep
<1>3. PoolInv => PoolBounded
  <2> SUFFICES ASSUME PoolInv, pc \notin ShrinkPc
               PROVE  Cardinality(Running) <= wanted + Cardinality(Ending)
    BY DEF PoolBounded
  <2>1. started = Cardinality(Running) - Cardinality(Ending) + 0
    BY DEF PoolInv, Exact, Due, ShrinkPc
  <2>2. started <= wanted /\ started \in Int /\ wanted \in Int
    BY PoolAssumption DEF PoolInv, Sized, IInv, TypeOK, UInt
  <2> QED BY <2>1, <2>2, DueType
<1> QED BY <1>1, <1>2, <1>3, PTL DEF RubySpec

-----------------------------------------------------------------------------
(* No lost wake-up.  The program never sets a limit of 0, thread_create    *)
(* succeeds, no thread idles past its timeout, and a signed int counts the *)
(* requests memory holds.                                                  *)
Assured ==
  /\ Timeouts = FALSE /\ CreateFails = FALSE
  /\ Wanted0 > 0 /\ 0 \notin Parallel
  /\ 2 * Cardinality(Reqs) < Word

(* The threads that will look at req_queue before they do anything else:   *)
(* as long as one waits, there are enough of them for what is queued.      *)
Coming == {w \in Workers : wpc[w] \in {"top", "woken"}}
Signalled == Waiting # {} => req_queue.size <= Cardinality(Coming)

(* A pool without threads has nothing to do, but for the request whose     *)
(* etp_submit is about to start the first one.                             *)
Unmanned ==
  started = 0 => /\ Running = {} /\ Finished = {}
                 /\ pc \notin MsPc => req_queue.size = 0

(* What rb_eio_s_wait0 is called for lasts until eio_poll takes it.        *)
Busy == \/ pc \in {"w_size", "w_select"}
        \/ pc \in MsPc /\ ret = "w_select"
        => nreqs # 0

AwakeInv == PoolInv /\ wanted > 0 /\ Signalled /\ Unmanned /\ Busy

LEMMA WantedInv ==
  ASSUME PoolInv, Assured, wanted > 0, [RubyNext]_vars
  PROVE  wanted' > 0
<1> USE DEF settings
<1>0. Parallel \subseteq Nat \ {0}
  BY PoolAssumption DEF Assured
<1>1. CASE Aside
  <2>1. CASE Set
    BY <1>0, <2>1 DEF Set
  <2>2. CASE SetMaxParallel
    BY <1>0, <2>2 DEF SetMaxParallel
  <2>3. CASE Waits
    BY <2>3, WaitsFrame DEF PoolInv
  <2> QED BY <1>1, <2>1, <2>2, <2>3 DEF Aside, Quiet, Cancel, Shrink, MaybeStartWanted,
             MaybeStartCount, MaybeStartDecide, PollShift, PollCount, Returns,
             CallbackReturn, PollBegin, CallbackRaise
<1>2. CASE ~Aside /\ RubyNext
  BY <1>2, RubyCases DEF Submit, EndThreadPush, EndThreadCount, StartThread, ForkChild,
     Take, Expire, Spurious, HandleTimeout, Leave, Begin, Execute, Post, Quit
<1>3. CASE UNCHANGED vars
  BY <1>3 DEF vars
<1> QED BY <1>1, <1>2, <1>3

-----------------------------------------------------------------------------
(* How a thread that moves changes who waits and who is coming. *)
LEMMA ComingMoves ==
  ASSUME TypeOK, NEW w \in Workers, NEW to, wpc' = [wpc EXCEPT ![w] = to]
  PROVE  /\ Coming' = IF to \in {"top", "woken"} THEN Coming \union {w} ELSE Coming \ {w}
         /\ to \notin {"timed", "untimed"} => Waiting' \subseteq Waiting
<1>1. wpc'[w] = to /\ \A v \in Workers : v # w => wpc'[v] = wpc[v]
  BY DEF TypeOK
<1> QED BY <1>1 DEF Coming, Waiting

LEMMA ComingType == IsFiniteSet(Coming) /\ Cardinality(Coming) \in Nat
BY WorkersBound DEF Coming

(* More threads are coming and nothing more is queued. *)
LEMMA MoreComing ==
  ASSUME Signalled, req_queue' = req_queue, Waiting' \subseteq Waiting,
         Coming \subseteq Coming', IsFiniteSet(Coming'),
         req_queue.size \in Nat
  PROVE  Signalled'
<1> SUFFICES ASSUME Waiting' # {}
             PROVE  req_queue'.size <= Cardinality(Coming')
  BY DEF Signalled
<1>1. Cardinality(Coming) <= Cardinality(Coming') /\ Cardinality(Coming') \in Nat
  BY FS_Subset, FS_CardinalityType
<1>2. req_queue.size <= Cardinality(Coming)
  BY DEF Signalled
<1> QED BY <1>1, <1>2, ComingType

(* A request is queued, and whoever waits is signalled. *)
LEMMA PushSignal ==
  ASSUME TypeOK, Signalled, Signal, req_queue'.size = req_queue.size + 1
  PROVE  Signalled'
<1>1. CASE Waiting = {}
  BY <1>1 DEF Signal, Signalled, Waiting
<1>2. CASE Waiting # {}
  <2>1. PICK w \in Waiting : wpc' = [wpc EXCEPT ![w] = "woken"]
    BY <1>2 DEF Signal
  <2>2. w \in Workers /\ w \notin Coming
    BY DEF Waiting, Coming
  <2>3. Coming' = Coming \union {w}
    <3>1. \E to \in {"woken"} : wpc' = [wpc EXCEPT ![w] = to]
      BY <2>1
    <3> QED BY <2>2, <3>1, ComingMoves
  <2>4. Cardinality(Coming') = Cardinality(Coming) + 1
    BY <2>2, <2>3, ComingType, FS_AddElement
  <2>5. req_queue.size <= Cardinality(Coming) /\ req_queue.size \in Nat
    BY <1>2 DEF Signalled, TypeOK, Queues
  <2> QED BY <2>4, <2>5, ComingType DEF Signalled
<1> QED BY <1>1, <1>2

(* A thread takes what it came for, or finds nothing. *)
LEMMA TakeSignalled ==
  ASSUME TypeOK, Signalled, NEW w \in Workers, Take(w)
  PROVE  Signalled'
<1>0. req_queue.size \in Nat /\ w \in Coming /\ wpc[w] \notin {"timed", "untimed"}
  BY DEF TypeOK, Queues, Take, Coming
<1>1. CASE req_queue.size # 0
  <2>1. /\ wpc' = [wpc EXCEPT ![w] = "picked"]
        /\ req_queue'.size = req_queue.size - 1
    BY <1>1 DEF Take, Shift
  <2>2. Coming' = Coming \ {w} /\ Waiting' \subseteq Waiting
    <3>1. \E to \in {"picked"} : wpc' = [wpc EXCEPT ![w] = to]
      BY <2>1
    <3> QED BY <3>1, ComingMoves
  <2>3. Cardinality(Coming') = Cardinality(Coming) - 1
    BY <1>0, <2>2, ComingType, FS_RemoveElement
  <2>4. Waiting' # {} => req_queue.size <= Cardinality(Coming)
    BY <2>2 DEF Signalled
  <2> QED BY <1>0, <2>1, <2>3, <2>4, ComingType DEF Signalled
<1>2. CASE req_queue.size = 0
  <2>1. req_queue'.size = 0
    BY <1>2 DEF Take
  <2>2. Cardinality(Coming') \in Nat
    <3>1. IsFiniteSet(Coming')
      <4>1. Coming' \subseteq Workers
        BY DEF Coming
      <4> QED BY <4>1, WorkersBound
    <3> QED BY <3>1, FS_CardinalityType
  <2> QED BY <2>1, <2>2 DEF Signalled
<1> QED BY <1>1, <1>2

LEMMA SignalledInv ==
  ASSUME IInv, Prompt, Signalled, Timeouts = FALSE, [RubyNext]_vars
  PROVE  Signalled'
<1> USE DEF queues, threads
<1>0. TypeOK /\ req_queue.size \in Nat
  BY DEF IInv, TypeOK, Queues
<1>1. CASE UNCHANGED <<req_queue, wpc>>
  BY <1>1 DEF Signalled, Coming, Waiting
<1>2. ASSUME NEW w \in Workers, NEW to, wpc' = [wpc EXCEPT ![w] = to],
             req_queue' = req_queue, to \notin {"timed", "untimed"},
             w \in Coming => to \in {"top", "woken"}
      PROVE  Signalled'
  <2>1. Coming \subseteq Coming' /\ Waiting' \subseteq Waiting
    BY <1>0, <1>2, ComingMoves
  <2>2. IsFiniteSet(Coming')
    <3>1. Coming' \subseteq Workers
      BY DEF Coming
    <3> QED BY <3>1, WorkersBound
  <2> QED BY <1>0, <1>2, <2>1, <2>2, MoreComing
<1>3. CASE Aside
  BY <1>1, <1>3, AsideStep
<1>4. CASE (\E r \in Reqs, p \in PriIn : Submit(r, p)) \/ EndThreadPush
  BY <1>0, <1>4, PushSignal DEF Submit, EndThreadPush, Push
<1>5. CASE EndThreadCount
  BY <1>1, <1>5 DEF EndThreadCount
<1>6. CASE StartThread
  BY <1>1, <1>2, <1>6 DEF StartThread
<1>7. CASE ForkChild
  BY <1>7 DEF ForkChild, Signalled, Waiting
<1>8. ASSUME NEW w \in Workers,
             \/ Take(w) \/ Expire(w) \/ Spurious(w) \/ HandleTimeout(w)
             \/ Leave(w) \/ Begin(w) \/ Execute(w) \/ Post(w) \/ Quit(w)
      PROVE  Signalled'
  <2>1. ~(Expire(w) \/ HandleTimeout(w) \/ Leave(w))
    BY DEF Expire, HandleTimeout, Leave, WorkerStep, Prompt
  <2>2. CASE Spurious(w)
    BY <1>2, <2>2 DEF Spurious
  <2>3. CASE Begin(w) \/ Execute(w) \/ Post(w) \/ Quit(w)
    <3>1. /\ \E to \in {"top", "quit", "post", "exec", "none"} : wpc' = [wpc EXCEPT ![w] = to]
          /\ req_queue' = req_queue /\ w \notin Coming
      BY <2>3 DEF Begin, Execute, Post, Quit, WorkerStep, Coming
    <3> QED BY <1>2, <3>1
  <2> QED BY <1>0, <1>8, <2>1, <2>2, <2>3, TakeSignalled
<1>9. CASE UNCHANGED vars
  BY <1>1, <1>9 DEF vars
<1> QED BY <1>3, <1>4, <1>5, <1>6, <1>7, <1>8, <1>9, RubyCases

-----------------------------------------------------------------------------
(* etp_maybe_start_thread finds enough threads in a pool that has none     *)
(* only if nothing is queued.                                              *)
LEMMA NoneEnough ==
  ASSUME PoolInv, Assured, Unmanned, started = 0, seen = 0, EnoughThreads
  PROVE  req_queue.size = 0
<1>0. IInv /\ TypeOK /\ Placed /\ Tally /\ Ordered
  BY DEF PoolInv, IInv
<1>1. Running = {} /\ Finished = {}
  BY DEF Unmanned
<1>2. Ending = {}
  <2>1. Due >= 0 /\ Cardinality(Running) = 0
    BY <1>1, FS_EmptySet, PoolAssumption DEF PoolInv, Exact
  <2>2. pc # "end_dec"
    BY <1>0, PoolAssumption DEF PoolInv, Sized, TypeOK, UInt
  <2>3. Due = Cardinality(Running) - Cardinality(Ending) + 0
    BY <2>2 DEF Due
  <2>4. Cardinality(Ending) = 0
    BY <2>1, <2>3, DueType
  <2> QED BY <2>4, DueType, FS_EmptySet
<1>3. npending = 0
  BY <1>0, <1>1, SizeZero DEF Tally, Ordered, Finished
<1>4. /\ Counted \subseteq Reqs /\ IsFiniteSet(Counted) /\ nreqs = Cardinality(Counted)
      /\ nreqs \in Nat /\ 2 * nreqs < Word
  <2>1. Counted \in SUBSET Reqs
    BY <1>0 DEF Counted, TypeOK
  <2>2. Cardinality(Counted) <= Cardinality(Reqs) /\ Cardinality(Reqs) \in Nat
    BY <2>1, ReqsAssumption, FS_Subset, FS_CardinalityType
  <2>3. nreqs = Cardinality(Counted)
    BY <1>0 DEF Tally
  <2> QED BY <2>1, <2>2, <2>3, ReqsBound, PoolAssumption DEF Assured
<1>5. nreqs = 0
  <2>1. SInt(nreqs) = nreqs /\ SInt(npending) = 0 /\ SInt(seen) = 0
    BY <1>3, <1>4, PoolAssumption DEF SInt
  <2> QED BY <1>4, <2>1 DEF EnoughThreads
<1>6. Counted = {}
  BY <1>4, <1>5, FS_EmptySet
<1>7. Queued = {}
  <2>1. Queued \subseteq Reqs \union Quits
    BY <1>0, ElemsType DEF Queued, TypeOK
  <2>2. Queued \intersect Quits = {}
    BY <1>2 DEF Ending
  <2>3. Queued \intersect Reqs \subseteq live \ {cur}
    BY <1>0 DEF Placed
  <2> QED BY <1>6, <2>1, <2>2, <2>3 DEF Counted
<1> QED BY <1>0, <1>7, SizeZero DEF Ordered, Queued

LEMMA UnmannedInv ==
  ASSUME PoolInv, Assured, Unmanned, wanted > 0, [RubyNext]_vars
  PROVE  Unmanned'
<1> USE DEF queues, counters, pool, settings, threads, client, requests
<1>0. /\ IInv /\ TypeOK /\ started \in Nat /\ wanted \in Nat
      /\ started \in UInt /\ Word \in Nat /\ UInt = 0..Word-1
  BY PoolAssumption DEF PoolInv, IInv, TypeOK, UInt
<1>1. ASSUME UNCHANGED <<started, wpc, res_queue, req_queue>>,
             pc' \in MsPc \/ pc \notin MsPc
      PROVE  Unmanned'
  BY <1>1 DEF Unmanned, Running, Finished
<1>2. CASE Aside
  <2>0. UNCHANGED <<started, wpc, req_queue>>
    BY <1>0, <1>2, AsideStep
  <2>1. CASE MaybeStartWanted
    <3>1. pc' \in MsPc \/ started # 0
      BY <1>0, <2>1, Points DEF MaybeStartWanted, AtLimit
    <3>2. started' # 0 => Unmanned'
      BY DEF Unmanned
    <3> QED BY <1>1, <2>0, <2>1, <3>1, <3>2 DEF MaybeStartWanted
  <2>2. CASE MaybeStartCount
    BY <1>1, <2>0, <2>2, Points DEF MaybeStartCount
  <2>3. CASE MaybeStartDecide
    <3>1. pc' \in MsPc \/ EnoughThreads
      BY <2>3, Points DEF MaybeStartDecide
    <3>2. CASE pc' \in MsPc
      BY <1>1, <2>0, <2>3, <3>2 DEF MaybeStartDecide
    <3>3. CASE EnoughThreads
      <4>1. seen = started
        BY <2>3 DEF MaybeStartDecide, PoolInv, Sized
      <4>2. started = 0 => req_queue.size = 0
        BY <3>3, <4>1, NoneEnough
      <4> QED BY <2>0, <2>3, <4>2 DEF MaybeStartDecide, Unmanned, Running, Finished
    <3> QED BY <3>1, <3>2, <3>3
  <2>4. CASE PollShift
    <3>1. res_queue.size # 0 => Finished # {}
      BY <1>0, SizeZero DEF IInv, Ordered, Finished
    <3>2. started # 0 \/ res_queue' = res_queue
      BY <2>4, <3>1 DEF PollShift, Unmanned
    <3>3. started' # 0 => Unmanned'
      BY DEF Unmanned
    <3>4. pc \notin MsPc
      BY <2>4, Points DEF PollShift
    <3> QED BY <1>1, <2>0, <3>2, <3>3, <3>4
  <2>5. CASE Waits
    <3>1. UNCHANGED res_queue /\ pc \notin MsPc
      BY <1>0, <2>5, WaitsFrame, Points DEF WaitPc
    <3> QED BY <1>1, <2>0, <3>1
  <2>6. CASE \/ \E r \in Reqs : Cancel(r)
             \/ Set \/ SetMaxParallel \/ Shrink \/ PollCount \/ Returns
             \/ PollBegin("idle") \/ CallbackRaise
    <3>1. UNCHANGED res_queue /\ pc \notin MsPc
      BY <2>6, Points DEF Cancel, Set, SetMaxParallel, Shrink, PollCount, Returns,
         CallbackReturn, PollBegin, CallbackRaise
    <3> QED BY <1>1, <2>0, <3>1
  <2> QED BY <1>2, <2>1, <2>2, <2>3, <2>4, <2>5, <2>6 DEF Aside, Quiet
<1>3. ASSUME NEW r \in Reqs, NEW p \in PriIn, Submit(r, p)
      PROVE  Unmanned'
  <2>1. Running' = Running /\ Finished' = Finished /\ started' = started /\ pc' \in MsPc
    BY <1>0, <1>3, SignalSets, Points DEF Submit, Finished
  <2> QED BY <2>1 DEF Unmanned
<1>4. CASE EndThreadPush \/ EndThreadCount
  <2>1. started > wanted
    <3>1. pc \in {"end_push", "end_dec"}
      BY <1>4 DEF EndThreadPush, EndThreadCount
    <3> QED BY <3>1 DEF PoolInv, Sized
  <2>2. started' # 0
    <3>1. started' = started \/ started' = Dec(started)
      BY <1>4 DEF EndThreadPush, EndThreadCount
    <3>2. started > 1
      BY <1>0, <2>1
    <3>3. Dec(started) = started - 1
      BY <1>0, <3>2, IncDec
    <3> QED BY <1>0, <3>1, <3>2, <3>3
  <2> QED BY <2>2 DEF Unmanned
<1>5. CASE StartThread
  <2>1. started' = Inc(started) /\ pc = "ms_start"
    BY <1>5 DEF StartThread, Assured
  <2>2. started' # 0
    <3>1. started < wanted /\ wanted \in UInt
      BY <1>0, <2>1 DEF PoolInv, Sized, TypeOK
    <3>2. started + 1 < Word
      BY <1>0, <3>1
    <3>3. Inc(started) = started + 1
      BY <1>0, <3>2, IncDec
    <3> QED BY <1>0, <2>1, <3>3
  <2> QED BY <2>2 DEF Unmanned
<1>6. CASE ForkChild
  BY <1>6, EmptyQueueOK DEF ForkChild, Unmanned, Running, Finished, EmptyQueue
<1>7. ASSUME NEW w \in Workers,
             \/ Take(w) \/ Expire(w) \/ Spurious(w) \/ HandleTimeout(w)
             \/ Leave(w) \/ Begin(w) \/ Execute(w) \/ Post(w) \/ Quit(w)
      PROVE  Unmanned'
  <2>1. CASE Quit(w)
    <3>1. UNCHANGED <<started, res_queue, req_queue, pc>>
      BY <2>1 DEF Quit
    <3>2. Running' \subseteq Running
      BY <1>0, <2>1 DEF Quit, WorkerStep, Running, TypeOK
    <3> QED BY <3>1, <3>2 DEF Unmanned, Finished
  <2>2. CASE ~Quit(w)
    <3>1. w \in Running
      BY <1>7, <2>2 DEF Take, Expire, Spurious, HandleTimeout, Leave, Begin, Execute, Post,
         WorkerStep, Waiting, Running
    <3>2. ~Leave(w)
      BY DEF Leave, WorkerStep, PoolInv, Prompt
    <3>3. started' = started
      BY <1>7, <2>2, <3>2
         DEF Take, Expire, Spurious, HandleTimeout, Begin, Execute, Post
    <3> QED BY <3>1, <3>3 DEF Unmanned
  <2> QED BY <2>1, <2>2
<1>8. CASE UNCHANGED vars
  <2>1. UNCHANGED <<started, wpc, res_queue, req_queue, pc>>
    BY <1>8 DEF vars
  <2> QED BY <1>1, <2>1
<1> QED BY <1>2, <1>3, <1>4, <1>5, <1>6, <1>7, <1>8, RubyCases

LEMMA BusyInv ==
  ASSUME IInv, Busy, [RubyNext]_vars
  PROVE  Busy'
<1> USE DEF queues, counters, pool, settings, threads, client, requests
<1>0. /\ ret \in Client \union {"poll_shift", "w_select"} /\ caller \in {"idle", "wait"}
      /\ pc \in ShrinkPc => ret \in Client
  BY DEF IInv, TypeOK, Control
<1>1. CASE UNCHANGED <<pc, ret, nreqs>>
  BY <1>1 DEF Busy
<1>2. ASSUME pc' \notin MsPc \union {"w_size", "w_select"}
             \/ (pc' \in MsPc /\ ret' \in Client \union {"poll_shift"})
      PROVE  Busy'
  BY <1>2, Points DEF Busy
<1>3. CASE MaybeStartWanted \/ MaybeStartCount \/ MaybeStartDecide \/ StartThread
  BY <1>0, <1>3, Points
     DEF MaybeStartWanted, MaybeStartCount, MaybeStartDecide, StartThread, Busy
<1>4. CASE Waits
  BY <1>4, Points DEF Waits, WaitStep, WaitCall, Wait, WaitSize, WaitSelect, WaitInterrupt,
     eio_nreqs, Busy
<1>5. CASE CallbackRaise
  BY <1>2, <1>5, Points DEF CallbackRaise
<1>6. CASE (\E r \in Reqs : Cancel(r)) \/ Set
  BY <1>1, <1>6 DEF Cancel, Set
<1>7. CASE SetMaxParallel \/ Shrink \/ EndThreadPush \/ EndThreadCount
  BY <1>0, <1>2, <1>7, Points DEF SetMaxParallel, Shrink, EndThreadPush, EndThreadCount
<1>8. CASE PollShift \/ PollCount \/ Returns \/ PollBegin("idle")
  BY <1>0, <1>2, <1>8, Points DEF PollShift, PollCount, Returns, CallbackReturn,
     PollNext, Return, PollBegin
<1>9. CASE \E r \in Reqs, p \in PriIn : Submit(r, p)
  BY <1>2, <1>9, Points DEF Submit
<1>10. CASE ForkChild
  BY <1>2, <1>10, Points DEF ForkChild
<1>11. ASSUME NEW w \in Workers,
             \/ Take(w) \/ Expire(w) \/ Spurious(w) \/ HandleTimeout(w)
             \/ Leave(w) \/ Begin(w) \/ Execute(w) \/ Post(w) \/ Quit(w)
      PROVE  Busy'
  BY <1>1, <1>11 DEF Take, Expire, Spurious, HandleTimeout, Leave, Begin, Execute, Post, Quit
<1>12. CASE UNCHANGED vars
  BY <1>1, <1>12 DEF vars
<1> QED BY <1>3, <1>4, <1>5, <1>6, <1>7, <1>8, <1>9, <1>10, <1>11, <1>12,
           RubyCases DEF Aside, Quiet

-----------------------------------------------------------------------------
LEMMA AwakeStart == Assured /\ Init => AwakeInv
<1> SUFFICES ASSUME Assured, Init PROVE AwakeInv
  OBVIOUS
<1>1. Waiting = {} /\ Running = {} /\ Finished = {} /\ req_queue.size = 0
  BY EmptyQueueOK DEF Init, Waiting, Running, Finished, EmptyQueue
<1> QED BY <1>1, PoolStart, Points DEF Init, Assured, AwakeInv, Signalled, Unmanned, Busy

LEMMA AwakeStep ==
  ASSUME AwakeInv, Assured, [RubyNext]_vars
  PROVE  AwakeInv'
<1>1. PoolInv /\ IInv /\ Prompt /\ Timeouts = FALSE
  BY DEF AwakeInv, PoolInv, Assured
<1>2. PoolInv'
  BY <1>1, PoolStep
<1>3. wanted' > 0 /\ Unmanned'
  BY <1>1, WantedInv, UnmannedInv DEF AwakeInv
<1>4. Signalled' /\ Busy'
  BY <1>1, SignalledInv, BusyInv DEF AwakeInv
<1> QED BY <1>2, <1>3, <1>4 DEF AwakeInv

(* If no thread is alert, the ones that run have taken what ends them; as  *)
(* many are due to end, so started is 0 and nothing is queued.             *)
LEMMA SomeAlert == AwakeInv => NoneStranded
<1> SUFFICES ASSUME AwakeInv, pc \in Client \union {"w_select"}, req_queue.size > 0,
                    Alert = {}
             PROVE  FALSE
  BY DEF NoneStranded
<1>0. /\ PoolInv /\ IInv /\ TypeOK /\ Control /\ Placed
      /\ req_queue.size \in Nat /\ started \in Nat
  <2>1. PoolInv /\ IInv /\ TypeOK /\ Control /\ Placed
    BY DEF AwakeInv, PoolInv, IInv
  <2>2. req_queue.size \in Nat /\ started \in UInt
    BY <2>1 DEF TypeOK, Queues
  <2>3. UInt \subseteq Nat
    BY PoolAssumption DEF UInt
  <2> QED BY <2>1, <2>2, <2>3
<1>1. Waiting = {}
  <2>1. Coming = {}
    BY DEF Coming, Alert
  <2> QED BY <1>0, <2>1, FS_EmptySet DEF AwakeInv, Signalled
<1>2. \A w \in Running : wpc[w] = "picked" /\ wreq[w] \in Quits
  <2> SUFFICES ASSUME NEW w \in Running
               PROVE  wpc[w] = "picked" /\ wreq[w] \in Quits
    OBVIOUS
  <2>1. w \in Workers /\ wpc[w] \in WorkerPc \ {"none", "quit"}
    BY <1>0 DEF Running, TypeOK
  <2>2. wpc[w] \notin {"timed", "untimed"}
    BY <1>1, <2>1 DEF Waiting
  <2>3. wpc[w] \notin {"top", "woken", "exec", "post"} /\ ~(wpc[w] = "picked" /\ wreq[w] \in Reqs)
    BY <2>1 DEF Alert
  <2>4. wpc[w] \notin {"expired", "leaving"}
    BY <1>0, <2>1 DEF PoolInv, Prompt
  <2>5. wpc[w] = "picked"
    BY <2>1, <2>2, <2>3, <2>4 DEF WorkerPc
  <2> QED BY <1>0, <2>1, <2>3, <2>5 DEF Control
<1>3. Cardinality(Running) <= Cardinality(Ending)
  <2> DEFINE taken == [w \in Running |-> wreq[w]]
  <2>1. taken \in [Running -> Ending]
    BY <1>2 DEF Running, Ending
  <2>2. \A v, w \in Running : taken[v] = taken[w] => v = w
    BY <1>0, <1>2, NoneFacts DEF Placed, Running
  <2>3. IsFiniteSet(Running) /\ IsFiniteSet(Ending)
    BY DueType
  <2>4. ~(Cardinality(Ending) < Cardinality(Running))
    <3> HIDE DEF taken
    <3> QED BY <2>1, <2>2, <2>3, FS_PigeonHole
  <2> QED BY <2>4, DueType
<1>4. started = 0
  <2>1. started = Cardinality(Running) - Cardinality(Ending) + 0
    BY <1>0, Points DEF PoolInv, Exact, Due
  <2> QED BY <1>0, <1>3, <2>1, DueType
<1> QED BY <1>0, <1>4, Points DEF AwakeInv, Unmanned

(* While EIO.wait sleeps, what nreqs counts is queued or with a thread.    *)
LEMMA SleepAlert == AwakeInv => SleepsOnWork
<1> SUFFICES ASSUME AwakeInv, pc = "w_select", pipe = 0
             PROVE  Alert # {}
  BY DEF SleepsOnWork
<1>0. /\ PoolInv /\ IInv /\ TypeOK /\ Control /\ Placed /\ Tally /\ Ordered
      /\ req_queue.size \in Nat /\ res_queue.size \in Nat
  BY DEF AwakeInv, PoolInv, IInv, TypeOK, Queues
<1>1. Finished = {}
  <2>1. res_queue.size = 0
    BY <1>0 DEF Tally
  <2> QED BY <1>0, <2>1, SizeZero DEF Ordered, Finished
<1>2. live # {} /\ cur = None
  <2>1. cur = None
    BY <1>0, Points DEF Control
  <2>2. nreqs # 0
    BY DEF AwakeInv, Busy
  <2>3. Counted = {} => nreqs = 0
    BY <1>0, FS_EmptySet DEF Tally
  <2> QED BY <2>1, <2>2, <2>3 DEF Counted
<1>3. PICK r \in Reqs : r \in Queued \union Held
  BY <1>0, <1>1, <1>2, NoneFacts DEF Placed
<1>4. CASE r \in Queued
  <2>1. req_queue.size # 0
    BY <1>0, <1>4, SizeZero DEF Ordered, Queued
  <2> QED BY <1>0, <2>1, SomeAlert DEF NoneStranded
<1>5. CASE r \in Held
  <2>1. PICK w \in Workers : wreq[w] = r
    BY <1>5 DEF Held
  <2>2. wpc[w] \in {"picked", "exec", "post"}
    BY <1>0, <2>1, NoneFacts DEF Control
  <2> QED BY <2>1, <2>2 DEF Alert
<1> QED BY <1>3, <1>4, <1>5

LEMMA AwakeInvariance == ASSUME Assured PROVE RubySpec => []AwakeInv
<1>1. Init => AwakeInv
  BY AwakeStart
<1>2. AwakeInv /\ [RubyNext]_vars => AwakeInv'
  BY AwakeStep
<1> QED BY <1>1, <1>2, PTL DEF RubySpec

(* When the client leaves the library with requests queued some thread     *)
(* will look at the queue again: no signal that reaches nobody, no         *)
(* spurious wake-up, no decision against a new thread and no type -1       *)
(* request strands one, as long as no thread idles past its timeout.       *)
THEOREM NoneStrandedAlways == Assured /\ RubySpec => []NoneStranded
<1> SUFFICES ASSUME Assured PROVE RubySpec => []NoneStranded
  OBVIOUS
<1>1. RubySpec => []AwakeInv
  BY AwakeInvariance
<1> QED BY <1>1, SomeAlert, PTL

(* EIO.wait never sleeps in select on requests that no thread has or will  *)
(* look for.                                                               *)
THEOREM SleepsOnWorkAlways == Assured /\ RubySpec => []SleepsOnWork
<1> SUFFICES ASSUME Assured PROVE RubySpec => []SleepsOnWork
  OBVIOUS
<1>1. RubySpec => []AwakeInv
  BY AwakeInvariance
<1> QED BY <1>1, SleepAlert, PTL

-----------------------------------------------------------------------------
(* The service under EIO.wait. *)
LEMMA WaitsStill ==
  ASSUME IInv, IInv', Waits
  PROVE  Still
<1>1. /\ UNCHANGED <<res_queue, live, cur, cancelled, req_queue, wreq, wpc>>
      /\ pc # "poll_count" /\ pc' # "poll_count"
  BY WaitsFrame DEF WaitPc, queues, threads, requests
<1> QED BY <1>1, QuietStill DEF Queued

LEMMA CallbackRaiseSim ==
  ASSUME IInv, IInv', CallbackRaise
  PROVE  Simulated
<1>1. /\ cur \in Reqs /\ pc = "callback" /\ Destroy({cur}) /\ cur' = None
      /\ UNCHANGED <<req_queue, res_queue, wreq, wpc>>
  BY NoneFacts DEF CallbackRaise, IInv, Control, TypeOK, queues, threads
<1>2. Service!Destroy(cur)
  BY <1>1, DestroySim
<1> QED BY <1>1, <1>2 DEF Simulated, Service!Next

(* With EIO.wait and exceptions out of callbacks the pool still keeps its  *)
(* promise to every request: a callback that raises is the last of its     *)
(* request, and none that waits for a later EIO.wait is executed or called *)
(* back twice for it.                                                      *)
THEOREM RubyRefinement == RubySpec => Implements
<1>1. Init => Service!Init /\ CancelledLive
  BY InitSim DEF Init, CancelledLive
<1>2. IInv /\ CancelledLive /\ [RubyNext]_vars => CancelledLive'
  <2> SUFFICES ASSUME IInv, CancelledLive, [RubyNext]_vars
               PROVE  CancelledLive'
    OBVIOUS
  <2>1. CASE [Next]_vars
    BY <2>1, CancelledLiveInv
  <2>2. CASE Waits
    BY <2>2, WaitsFrame DEF CancelledLive, requests
  <2>3. CASE CallbackRaise
    BY <2>3 DEF CallbackRaise, Destroy, CancelledLive
  <2> QED BY <2>1, <2>2, <2>3 DEF RubyNext, Waits
<1>3. IInv /\ IInv' /\ CancelledLive /\ [RubyNext]_vars => [Service!Next]_Service!vars
  <2> SUFFICES ASSUME IInv, IInv', CancelledLive, [RubyNext]_vars
               PROVE  [Service!Next]_Service!vars
    OBVIOUS
  <2>1. CASE [Next]_vars
    BY <2>1, StepSim, StillIsStutter DEF Simulated
  <2>2. CASE Waits
    BY <2>2, WaitsStill, StillIsStutter
  <2>3. CASE CallbackRaise
    BY <2>3, CallbackRaiseSim, StillIsStutter DEF Simulated
  <2> QED BY <2>1, <2>2, <2>3 DEF RubyNext, Waits
<1> QED BY <1>1, <1>2, <1>3, RubyInvariance, PTL DEF RubySpec, Implements, Service!Spec

=============================================================================
