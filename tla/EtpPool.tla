------------------------------ MODULE EtpPool ------------------------------
(***************************************************************************)
(* The thread pool of ext/libeio/eio.c ("etp"): one client thread that     *)
(* submits, cancels, polls, forks and resizes the pool, and the worker     *)
(* threads of etp_proc, between which a request travels                    *)
(*                                                                         *)
(*    client -> req_queue -> a worker -> res_queue -> eio_poll -> client   *)
(*                                                                         *)
(* An action is one critical section of the code (no two of wrklock,       *)
(* reqlock, reslock are held together but around fork), or one access to   *)
(* shared state made without a lock.  EIO_GROUP requests, which eio_submit *)
(* puts on res_queue at once, are not part of this module.                 *)
(***************************************************************************)
EXTENDS ReqQueue, FiniteSets

CONSTANTS
  Reqs,        \* memory for requests; what was freed may be allocated again
  Quits,       \* memory for the type -1 requests of etp_end_thread
  Workers,     \* the threads that may exist at once, ending ones included
  None,        \* the null pointer
  PriIn,       \* values of req->pri a client submits with
  Word,        \* one more than UINT_MAX
  Wanted0,     \* initial value of wanted, 4 in the code
  MaxIdle0,    \* initial value of max_idle, 4 in the code
  Parallel,    \* arguments given to eio_set_min_parallel and _max_parallel
  IdleArgs,    \* arguments given to eio_set_max_idle
  PollArgs,    \* arguments given to eio_set_max_poll_reqs
  CbResults,   \* what a finish callback may return
  TimedPoll,   \* max_poll_time is set: eio_poll may run out of time
  CreateFails, \* thread_create may fail
  Timeouts,    \* a worker may idle for longer than idle_timeout
  Forking      \* the client may fork

ASSUME PoolAssumption ==
  /\ Word \in Nat /\ Word > 1
  /\ Wanted0 \in 0..Word-1 /\ MaxIdle0 \in 0..Word-1
  /\ Parallel \subseteq 0..Word-1
  /\ IdleArgs \subseteq 0..Word-1
  /\ PollArgs \subseteq 0..Word-1
  /\ CbResults \subseteq Int /\ 0 \in CbResults
  /\ PriIn \subseteq -128..127
  /\ None \notin Reqs \union Quits
  /\ Reqs \intersect Quits = {}
  /\ {TimedPoll, CreateFails, Timeouts, Forking} \subseteq BOOLEAN

(* The memory of a program does not hold UINT_MAX requests. *)
ASSUME ReqsAssumption == IsFiniteSet(Reqs) /\ Cardinality(Reqs) < Word

(* Nor does a process have as many threads. *)
ASSUME ThreadsAssumption ==
  /\ IsFiniteSet(Workers) /\ Cardinality(Workers) < Word
  /\ IsFiniteSet(Quits)

VARIABLES
  req_queue, res_queue,
  nreqs, nready, npending,             \* the counters of reqlock and reslock
  started, idle,                       \* the pool's size, and who waits in it
  wanted, max_idle, max_poll_reqs,     \* the settings
  pipe,        \* calls of want_poll_cb not yet matched by done_poll_cb
  wpc, wreq,   \* each worker's place in etp_proc, and self->req
  pc,          \* the client's place in the library
  ret,         \* where it goes after etp_maybe_start_thread, or after shrinking
  caller,      \* where it goes after eio_poll
  maxreqs,     \* eio_poll's local of that name
  cur,         \* the request eio_poll is at
  seen,        \* etp_maybe_start_thread: the value of started it read
  pollres,     \* what the last eio_poll returned
  live,        \* the requests submitted and not yet destroyed
  pri,         \* req->pri, as etp_submit left it
  cancelled    \* the requests whose EIO_FLAG_CANCELLED is set

queues   == <<req_queue, res_queue>>
counters == <<nreqs, nready, npending>>
pool     == <<started, idle>>
settings == <<wanted, max_idle, max_poll_reqs>>
threads  == <<wpc, wreq>>
client   == <<pc, ret, caller, maxreqs, cur, seen, pollres>>
requests == <<live, pri, cancelled>>
vars == <<queues, counters, pool, settings, pipe, threads, client, requests>>

-----------------------------------------------------------------------------
(* unsigned int, and its conversion to int *)
UInt == 0..Word-1
Inc(x) == IF x = Word - 1 THEN 0 ELSE x + 1
Dec_signed(x) == x - 1                              \* mutant of Dec
Dec(x) == IF x = 0 THEN Word - 1 ELSE x - 1
SInt(x) == IF 2 * x >= Word THEN x - Word ELSE x

WorkerPc == {"none",      \* no such thread
             "top",       \* before X_LOCK (reqlock)
             "timed",     \* in X_COND_TIMEDWAIT
             "expired",   \* timed out, before it has reqlock again
             "untimed",   \* in X_COND_WAIT
             "woken",     \* signalled, before it has reqlock again
             "leaving",   \* gave up idling, before --started
             "picked",    \* has a request, has released reqlock
             "exec",      \* in eio_execute
             "post",      \* before X_LOCK (reslock)
             "quit"}      \* at the label quit

(* The points at which the client runs code of its own. *)
Client == {"idle", "callback"}

MsPc     == {"ms_wanted", "ms_count", "ms_decide", "ms_start"}
ShrinkPc == {"shrink", "end_push", "end_dec"}
WaitPc   == {"wait", "w_size", "w_select"}
ClientPc == Client \union MsPc \union ShrinkPc \union {"poll_shift", "poll_count"}
                   \union WaitPc

Waiting  == {w \in Workers : wpc[w] \in {"timed", "untimed"}}
Held     == {wreq[w] : w \in Workers} \ {None}
Queued   == Elems(req_queue)
Finished == Elems(res_queue)

Init ==
  /\ req_queue = EmptyQueue /\ res_queue = EmptyQueue
  /\ nreqs = 0 /\ nready = 0 /\ npending = 0
  /\ started = 0 /\ idle = 0
  /\ wanted = Wanted0 /\ max_idle = MaxIdle0 /\ max_poll_reqs = 0
  /\ pipe = 0
  /\ wpc = [w \in Workers |-> "none"] /\ wreq = [w \in Workers |-> None]
  /\ pc = "idle" /\ ret = "idle" /\ caller = "idle"
  /\ maxreqs = 0 /\ cur = None /\ seen = 0 /\ pollres = 0
  /\ live = {} /\ pri = [r \in Reqs |-> 0] /\ cancelled = {}

(* The tests and small steps the actions below share.  An operator marked  *)
(* as a mutant is what the next one would be with a mistake in it: no      *)
(* action uses it, the runs must reject it.                                *)

EIO_CANCELLED_never(r) == FALSE                     \* mutant of EIO_CANCELLED
EIO_CANCELLED(r) == r \in cancelled

(* etp_maybe_start_thread: the limit is reached; each request is provided  *)
(* for.                                                                    *)
AtLimit_late == started > wanted                    \* mutant of AtLimit
AtLimit == started >= wanted
EnoughThreads_early ==                              \* mutant of EnoughThreads
  SInt(seen) + SInt(npending) - SInt(nreqs) >= -1
EnoughThreads == SInt(seen) + SInt(npending) - SInt(nreqs) >= 0

(* etp_proc, after a timeout: idle still counts the thread that asks.      *)
TooManyIdle_late == idle > max_idle + 1             \* mutant of TooManyIdle
TooManyIdle == idle > max_idle

(* --idle after a wait; a thread that comes from the top was not idle.     *)
IdleOthers_kept(w) == idle                          \* mutant of IdleOthers
IdleOthers(w) == IF wpc[w] = "woken" THEN Dec(idle) ELSE idle

(* self->req = 0 *)
Release_not(w) == UNCHANGED wreq                    \* mutant of Release
Release(w) == wreq' = [wreq EXCEPT ![w] = None]

(* want_poll_cb, when res_queue was empty before the push. *)
WantPoll_always == pipe' = pipe + 1                 \* mutant of WantPoll
WantPoll_never == pipe' = pipe                      \* mutant of WantPoll
WantPoll == pipe' = IF res_queue.size = 0 THEN pipe + 1 ELSE pipe

(* X_COND_SIGNAL (reqwait): one of the waiting threads, if there is any. *)
Signal_lost == UNCHANGED wpc                        \* mutant of Signal
Signal ==
  IF Waiting = {}
    THEN UNCHANGED wpc
    ELSE \E w \in Waiting : wpc' = [wpc EXCEPT ![w] = "woken"]

(* eio_destroy; the contents of freed memory are of no interest. *)
Destroy(R) ==
  /\ live' = live \ R
  /\ cancelled' = cancelled \ R
  /\ pri' = [r \in Reqs |-> IF r \in R THEN 0 ELSE pri[r]]

-----------------------------------------------------------------------------
(* The client: eio_submit, eio_cancel and the setters, from its main       *)
(* program or from a finish callback.                                      *)

(* etp_submit of an ordinary request, up to its etp_maybe_start_thread.    *)
Submit(r, p) ==
  /\ pc \in Client
  /\ r \notin live
  /\ live' = live \union {r}
  /\ pri' = [pri EXCEPT ![r] = SubmitPri(p)]
  /\ nreqs' = Inc(nreqs) /\ nready' = Inc(nready)
  /\ req_queue' = Push(req_queue, r, SubmitPri(p))
  /\ Signal
  /\ pc' = "ms_wanted" /\ ret' = pc
  /\ UNCHANGED <<res_queue, npending, pool, settings, pipe, wreq, caller,
                 maxreqs, cur, seen, pollres, cancelled>>

(* etp_cancel; eio_grp_cancel finds no member in an ordinary request. *)
Cancel(r) ==
  /\ pc \in Client
  /\ r \in live
  /\ cancelled' = cancelled \union {r}
  /\ UNCHANGED <<queues, counters, pool, settings, pipe, threads, client, live, pri>>

(* eio_set_max_idle, eio_set_max_poll_reqs, eio_set_min_parallel *)
Set ==
  /\ pc \in Client
  /\ \/ max_idle' \in IdleArgs /\ UNCHANGED <<wanted, max_poll_reqs>>
     \/ max_poll_reqs' \in PollArgs /\ UNCHANGED <<wanted, max_idle>>
     \/ /\ \E n \in Parallel : wanted < n /\ wanted' = n
        /\ UNCHANGED <<max_idle, max_poll_reqs>>
  /\ UNCHANGED <<queues, counters, pool, pipe, threads, client, requests>>

(* eio_set_max_parallel, up to its loop *)
SetMaxParallel ==
  /\ pc \in Client
  /\ \E n \in Parallel : wanted' = IF wanted > n THEN n ELSE wanted
  /\ pc' = "shrink" /\ ret' = pc
  /\ UNCHANGED <<queues, counters, pool, max_idle, max_poll_reqs, pipe, threads,
                 caller, maxreqs, cur, seen, pollres, requests>>

(* while (started > wanted): started is read without a lock. *)
Shrink ==
  /\ pc = "shrink"
  /\ pc' = IF started > wanted THEN "end_push" ELSE ret
  /\ UNCHANGED <<queues, counters, pool, settings, pipe, threads, ret, caller,
                 maxreqs, cur, seen, pollres, requests>>

(* etp_end_thread queues a request that ends the thread which takes it ... *)
EndThreadPush ==
  /\ pc = "end_push"
  /\ \E q \in Quits \ (Queued \union Held) : req_queue' = Push(req_queue, q, TopPri)
  /\ Signal
  /\ pc' = "end_dec"
  /\ UNCHANGED <<res_queue, counters, pool, settings, pipe, wreq, ret, caller,
                 maxreqs, cur, seen, pollres, requests>>

(* ... and no longer counts that thread. *)
EndThreadCount ==
  /\ pc = "end_dec"
  /\ started' = Dec(started)
  /\ pc' = "shrink"
  /\ UNCHANGED <<queues, counters, idle, settings, pipe, threads, ret, caller,
                 maxreqs, cur, seen, pollres, requests>>

-----------------------------------------------------------------------------
(* etp_maybe_start_thread reads its four counters without a lock. *)

MaybeStartWanted ==
  /\ pc = "ms_wanted"
  /\ pc' = IF AtLimit THEN ret ELSE "ms_count"
  /\ UNCHANGED <<queues, counters, pool, settings, pipe, threads, ret, caller,
                 maxreqs, cur, seen, pollres, requests>>

MaybeStartCount ==
  /\ pc = "ms_count"
  /\ seen' = started
  /\ pc' = "ms_decide"
  /\ UNCHANGED <<queues, counters, pool, settings, pipe, threads, ret, caller,
                 maxreqs, cur, pollres, requests>>

MaybeStartDecide ==
  /\ pc = "ms_decide"
  /\ pc' = IF EnoughThreads THEN ret ELSE "ms_start"
  /\ seen' = 0
  /\ UNCHANGED <<queues, counters, pool, settings, pipe, threads, ret, caller,
                 maxreqs, cur, pollres, requests>>

(* etp_start_thread: nothing tells the caller that thread_create failed. *)
StartThread ==
  /\ pc = "ms_start"
  /\ \/ \E w \in Workers : /\ wpc[w] = "none"
                           /\ wpc' = [wpc EXCEPT ![w] = "top"]
                           /\ started' = Inc(started)
     \/ CreateFails /\ UNCHANGED <<wpc, started>>
  /\ pc' = ret
  /\ UNCHANGED <<queues, counters, idle, settings, pipe, wreq, ret, caller,
                 maxreqs, cur, seen, pollres, requests>>

-----------------------------------------------------------------------------
(* eio_poll, called by the main program or (EioWait) by EIO.wait: not from *)
(* a finish callback.                                                      *)

PollBegin(from) ==
  /\ pc = from
  /\ maxreqs' = max_poll_reqs
  /\ pollres' = 0
  /\ pc' = "ms_wanted" /\ ret' = "poll_shift" /\ caller' = from
  /\ UNCHANGED <<queues, counters, pool, settings, pipe, threads, cur, seen, requests>>

Return(res) ==
  /\ pc' = caller
  /\ pollres' = res
  /\ maxreqs' = 0
  /\ UNCHANGED ret

(* The critical section of reslock.  done_poll_cb reads the byte that      *)
(* want_poll_cb wrote, and would block without one.                        *)
PollShift ==
  /\ pc = "poll_shift"
  /\ \/ /\ res_queue.size = 0
        /\ Return(0)
        /\ UNCHANGED <<res_queue, npending, pipe, cur>>
     \/ /\ res_queue.size # 0
        /\ res_queue' = Shift(res_queue)
        /\ cur' = First(res_queue)
        /\ npending' = Dec(npending)
        /\ IF res_queue'.size = 0
             THEN pipe > 0 /\ pipe' = pipe - 1
             ELSE UNCHANGED pipe
        /\ pc' = "poll_count"
        /\ UNCHANGED <<ret, maxreqs, pollres>>
  /\ UNCHANGED <<req_queue, nreqs, nready, pool, settings, threads, caller, seen, requests>>

(* The end of eio_poll's loop: enough requests, enough time, or once more. *)
PollNext ==
  \/ (maxreqs = 1 \/ TimedPoll) /\ Return(-1)
  \/ /\ maxreqs # 1
     /\ maxreqs' = IF maxreqs = 0 THEN 0 ELSE maxreqs - 1
     /\ pc' = "ms_wanted" /\ ret' = "poll_shift"
     /\ UNCHANGED pollres

(* --nreqs, then eio_finish: EIO_FINISH calls back unless cancelled. *)
PollCount ==
  /\ pc = "poll_count"
  /\ nreqs' = Dec(nreqs)
  /\ \/ /\ ~EIO_CANCELLED(cur)
        /\ pc' = "callback"
        /\ UNCHANGED <<ret, maxreqs, pollres, cur, requests>>
     \/ /\ EIO_CANCELLED(cur)
        /\ Destroy({cur}) /\ cur' = None
        /\ PollNext
  /\ UNCHANGED <<queues, nready, npending, pool, settings, pipe, threads, caller, seen>>

(* The finish callback returns: eio_destroy, then back in eio_poll.        *)
CallbackReturn(res) ==
  /\ pc = "callback"
  /\ Destroy({cur}) /\ cur' = None
  /\ IF res # 0 THEN Return(res) ELSE PollNext
  /\ UNCHANGED <<queues, counters, pool, settings, pipe, threads, caller, seen>>

(* etp_atfork_prepare waits for the three locks only, etp_atfork_parent    *)
(* gives them back: the parent goes on as it was.  This is the child.      *)
ForkChild ==
  /\ Forking
  /\ pc \in Client
  /\ req_queue' = EmptyQueue /\ res_queue' = EmptyQueue
  /\ Destroy(Reqs \intersect (Queued \union Finished \union Held))
  /\ nreqs' = 0 /\ nready' = 0 /\ npending' = 0
  /\ started' = 0 /\ idle' = 0
  /\ pipe' = 0
  /\ wpc' = [w \in Workers |-> "none"] /\ wreq' = [w \in Workers |-> None]
  /\ UNCHANGED <<settings, client>>

-----------------------------------------------------------------------------
(* The worker threads: etp_proc. *)

(* One round of the inner loop: take a request, or start to idle.          *)
Take(w) ==
  /\ wpc[w] \in {"top", "woken"}
  /\ \/ /\ req_queue.size # 0
        /\ req_queue' = Shift(req_queue)
        /\ wreq' = [wreq EXCEPT ![w] = First(req_queue)]
        /\ nready' = Dec(nready)
        /\ idle' = IdleOthers(w)
        /\ wpc' = [wpc EXCEPT ![w] = "picked"]
     \/ /\ req_queue.size = 0
        /\ idle' = Inc(IdleOthers(w))
        /\ wpc' = [wpc EXCEPT ![w] = "timed"]
        /\ UNCHANGED <<req_queue, nready, wreq>>
  /\ UNCHANGED <<res_queue, nreqs, npending, started, settings, pipe, client, requests>>

WorkerStep(w, from, to) == wpc[w] = from /\ wpc' = [wpc EXCEPT ![w] = to]

(* X_COND_TIMEDWAIT times out: a later signal does not reach this thread.  *)
Expire(w) ==
  /\ Timeouts
  /\ WorkerStep(w, "timed", "expired")
  /\ UNCHANGED <<queues, counters, pool, settings, pipe, wreq, client, requests>>

(* The thread has reqlock again: it gives up idling, or waits untimed,     *)
(* without another look at req_queue.                                      *)
HandleTimeout(w) ==
  /\ \/ /\ TooManyIdle
        /\ idle' = Dec(idle)
        /\ WorkerStep(w, "expired", "leaving")
     \/ /\ ~TooManyIdle
        /\ WorkerStep(w, "expired", "untimed")
        /\ UNCHANGED idle
  /\ UNCHANGED <<queues, counters, started, settings, pipe, wreq, client, requests>>

(* A condition variable may wake a thread that nobody signalled. *)
Spurious(w) ==
  /\ w \in Waiting
  /\ wpc' = [wpc EXCEPT ![w] = "woken"]
  /\ UNCHANGED <<queues, counters, pool, settings, pipe, wreq, client, requests>>

Leave_uncounted(w) ==                               \* mutant of Leave
  /\ WorkerStep(w, "leaving", "quit")
  /\ UNCHANGED <<queues, counters, pool, settings, pipe, wreq, client, requests>>

(* --started, under wrklock, after reqlock was given back. *)
Leave(w) ==
  /\ WorkerStep(w, "leaving", "quit")
  /\ started' = Dec(started)
  /\ UNCHANGED <<queues, counters, idle, settings, pipe, wreq, client, requests>>

(* req->type < 0, then EIO_CANCELLED, both read without a lock. *)
Begin(w) ==
  /\ \/ wreq[w] \in Quits /\ WorkerStep(w, "picked", "quit")
     \/ /\ wreq[w] \in Reqs
        /\ WorkerStep(w, "picked", IF EIO_CANCELLED(wreq[w]) THEN "post" ELSE "exec")
  /\ UNCHANGED <<queues, counters, pool, settings, pipe, wreq, client, requests>>

Execute(w) ==
  /\ WorkerStep(w, "exec", "post")
  /\ UNCHANGED <<queues, counters, pool, settings, pipe, wreq, client, requests>>

Post(w) ==
  /\ WorkerStep(w, "post", "top")
  /\ npending' = Inc(npending)
  /\ res_queue' = Push(res_queue, wreq[w], pri[wreq[w]])
  /\ WantPoll
  /\ Release(w)
  /\ UNCHANGED <<req_queue, nreqs, nready, pool, settings, client, requests>>

Quit(w) ==
  /\ WorkerStep(w, "quit", "none")
  /\ Release(w)
  /\ UNCHANGED <<queues, counters, pool, settings, pipe, client, requests>>

-----------------------------------------------------------------------------
ClientCall == \/ \E r \in Reqs, p \in PriIn : Submit(r, p)
              \/ \E r \in Reqs : Cancel(r)
              \/ Set \/ SetMaxParallel

(* Steps inside the library, between which the client does not wait. *)
ClientStep == \/ Shrink \/ EndThreadPush \/ EndThreadCount
              \/ MaybeStartWanted \/ MaybeStartCount \/ MaybeStartDecide \/ StartThread
              \/ PollShift \/ PollCount

Returns == \E res \in CbResults : CallbackReturn(res)

WorkerNext(w) == \/ Take(w) \/ HandleTimeout(w) \/ Leave(w) \/ Begin(w)
                 \/ Execute(w) \/ Post(w) \/ Quit(w)

Shared == \/ ClientCall \/ ClientStep \/ Returns \/ ForkChild
          \/ \E w \in Workers : WorkerNext(w) \/ Expire(w) \/ Spurious(w)

Next == Shared \/ PollBegin("idle")

Spec == Init /\ [][Next]_vars

(* The scheduler runs every thread, and finish callbacks return. *)
Fairness == /\ WF_vars(ClientStep)
            /\ SF_vars(Returns)
            /\ \A w \in Workers : WF_vars(WorkerNext(w))

(* The event loop calls eio_poll as often as its end of the pipe is        *)
(* readable (lib/eio/eventmachine.rb).                                     *)
LoopFairness == SF_vars(pipe > 0 /\ PollBegin("idle"))

FairSpec == Spec /\ Fairness /\ LoopFairness

-----------------------------------------------------------------------------
(* The types of the variables, every counter of the width of the code's.   *)
TypeOK ==
  /\ req_queue \in Queues(Reqs \union Quits) /\ res_queue \in Queues(Reqs)
  /\ {nreqs, nready, npending, started, idle, wanted, max_idle, max_poll_reqs,
      maxreqs, seen} \subseteq UInt
  /\ pipe \in Nat
  /\ wpc \in [Workers -> WorkerPc]
  /\ wreq \in [Workers -> Reqs \union Quits \union {None}]
  /\ pc \in ClientPc
  /\ ret \in Client \union {"poll_shift", "w_select"}
  /\ caller \in {"idle", "wait"}
  /\ cur \in Reqs \union {None}
  /\ pollres \in Int
  /\ live \subseteq Reqs /\ cancelled \subseteq Reqs
  /\ pri \in [Reqs -> Pri]

(* A request that was submitted and not destroyed is in one place only:    *)
(* queued once, or with one worker, or finished once, or being finished by *)
(* eio_poll; and nothing that was destroyed is still in any of them.       *)
Placed ==
  /\ Distinct(req_queue) /\ Distinct(res_queue)
  /\ \A v, w \in Workers : v # w /\ wreq[v] # None => wreq[v] # wreq[w]
  /\ Queued \intersect Held = {} /\ Queued \intersect Finished = {}
  /\ Held \intersect Finished = {}
  /\ cur \notin Queued \union Held \union Finished
  /\ live = Reqs \intersect (Queued \union Held \union Finished \union {cur})

(* The counters eio_nreqs, eio_npending and etp_maybe_start_thread rely on *)
(* say what there is, although each side of a hand-over counts under a     *)
(* lock of its own: nreqs everything eio_poll has not taken off yet,       *)
(* npending what lies in res_queue.                                        *)
Counts ==
  /\ nreqs = Cardinality(IF pc = "poll_count" THEN live ELSE live \ {cur})
  /\ npending = Cardinality(Finished)
  /\ res_queue.size = Cardinality(Finished)
  /\ req_queue.size = Cardinality(Queued)

(* want_poll_cb and done_poll_cb are called in turns, so that the pipe of  *)
(* eio_ext.c is readable exactly while there is something to poll, and     *)
(* done_poll's read never blocks.                                          *)
PipeMirrorsResults == pipe = IF res_queue.size > 0 THEN 1 ELSE 0

(* started is the number of threads that take requests, less the ones the  *)
(* type -1 requests still on their way will end: modulo the width of the   *)
(* counter, whatever the order in which a thread that gives up idling and  *)
(* etp_end_thread count.                                                   *)
Running == {w \in Workers : wpc[w] \notin {"none", "quit"}}
Ending  == Quits \intersect
             (Queued \union {wreq[w] : w \in {v \in Workers : wpc[v] = "picked"}})

ThreadLedger ==
  started = (Cardinality(Running) - Cardinality(Ending)
              + (IF pc = "end_dec" THEN 1 ELSE 0)) % Word

(* idle is the number of threads that wait or are about to stop waiting.   *)
IdleLedger ==
  idle = Cardinality({w \in Workers : wpc[w] \in {"timed", "expired", "untimed", "woken"}})

(* At most max_idle threads come to wait without a timeout (the comment at *)
(* max_idle: "maximum number of threads that can idle indefinitely").      *)
Untimed == {w \in Workers : wpc[w] = "untimed"}
IdleBounded ==
  [][Cardinality(Untimed') > Cardinality(Untimed) => Cardinality(Untimed') <= max_idle]_vars

(* While no thread idles past its timeout: when the client leaves the      *)
(* library with requests queued, some thread will look at the queue again; *)
(* no signal and no decision not to start a thread leaves one behind.      *)
Alert == {w \in Workers : \/ wpc[w] \in {"top", "woken", "exec", "post"}
                          \/ wpc[w] = "picked" /\ wreq[w] \in Reqs}
NoneStranded ==
  pc \in Client \union {"w_select"} /\ req_queue.size > 0 => Alert # {}

(* Threads beyond wanted exist only while eio_set_max_parallel runs, or    *)
(* have a request on its way that ends them.                               *)
PoolBounded ==
  pc \notin ShrinkPc => Cardinality(Running) <= wanted + Cardinality(Ending)

(* The pool implements the abstract service.                               *)
StageOf(r) ==
  IF r = cur THEN IF pc = "poll_count" THEN "done" ELSE "finishing"
  ELSE IF r \in Finished THEN "done"
  ELSE IF r \in Queued THEN "queued"
  ELSE IF \E w \in Workers : wreq[w] = r
       THEN LET w == CHOOSE v \in Workers : wreq[v] = r
            IN  CASE wpc[w] = "picked" -> "queued"
                  [] wpc[w] = "exec" -> "running"
                  [] OTHER -> "done"
  ELSE "free"

Service == INSTANCE EioService WITH stage <- [r \in Reqs |-> StageOf(r)]

Implements == Service!Spec

(* Something is queued that reqq_shift takes before r: a request of higher *)
(* priority, or one of those that end a thread.                            *)
Overtaken(r) ==
  r \in live /\ \E p \in Pri : p > pri[r] /\ Len(req_queue'.qs[p]) > Len(req_queue.qs[p])

(* Every request that is submitted is destroyed in the end, called back or *)
(* not, unless it is overtaken for ever, since the queues serve the higher *)
(* priorities first: no order of wake-ups, thread starts and polls keeps   *)
(* it in the pool for good, nor do submissions that queue up behind it.    *)
EveryRequestEnds ==
  \A r \in Reqs : \/ []<><<Overtaken(r)>>_vars
                  \/ r \in live ~> r \notin live

(* eio_set_max_parallel takes effect: the surplus threads end.             *)
Shrinks == Cardinality(Running) > wanted ~> Cardinality(Running) <= wanted

-----------------------------------------------------------------------------
(* What the documentation says and the code does not do.                   *)

(* eio.pod: eio_nthreads is "the number of worker threads currently        *)
(* running": when the client asks, never more than exist.                  *)
NthreadsExist ==
  pc \in Client => started <= Cardinality({w \in Workers : wpc[w] # "none"})

=============================================================================
