-------------------------- MODULE EtpPool_refines --------------------------
(***************************************************************************)
(* The thread pool implements the abstract service: to every request it    *)
(* is what EioService promises, for every number of threads and requests.  *)
(***************************************************************************)
EXTENDS EtpPool_proofs

(* How far each request has come: the refinement mapping of EtpPool. *)
stages == [r \in Reqs |-> StageOf(r)]

(* The mapping, one place at a time; under the invariant the places        *)
(* exclude each other and are all there are.                               *)
StageTable ==
  \A r \in Reqs :
    /\ r = cur /\ pc = "poll_count" => stages[r] = "done"
    /\ r = cur /\ pc # "poll_count" => stages[r] = "finishing"
    /\ r \in Finished => stages[r] = "done"
    /\ r \in Queued => stages[r] = "queued"
    /\ \A w \in Workers : wreq[w] = r =>
         /\ wpc[w] \in {"picked", "exec", "post"}
         /\ wpc[w] = "picked" => stages[r] = "queued"
         /\ wpc[w] = "exec" => stages[r] = "running"
         /\ wpc[w] = "post" => stages[r] = "done"
    /\ r \notin live => stages[r] = "free"
    /\ \/ r = cur \/ r \in Finished \/ r \in Queued
       \/ \E w \in Workers : wreq[w] = r
       \/ r \notin live

LEMMA StageFacts == IInv => StageTable
<1> SUFFICES ASSUME IInv, NEW r \in Reqs
             PROVE  StageTable!(r)
  BY DEF StageTable
<1>1. /\ r # None
      /\ \A w \in Workers : wreq[w] = r => r \in Held
      /\ r \in Held => \E w \in Workers : wreq[w] = r
      /\ stages[r] = StageOf(r)
  BY NoneFacts DEF Held, stages
<1>2. CASE r = cur
  BY <1>1, <1>2 DEF IInv, Placed, StageOf
<1>3. CASE r \in Finished
  BY <1>1, <1>3 DEF IInv, Placed, StageOf
<1>4. CASE r \in Queued
  BY <1>1, <1>4 DEF IInv, Placed, StageOf
<1>5. ASSUME NEW w \in Workers, wreq[w] = r
      PROVE  StageTable!(r)
  <2>1. /\ r \in Held /\ r \notin Queued /\ r \notin Finished /\ r # cur /\ r \in live
        /\ \A v \in Workers : wreq[v] = r => v = w
    BY <1>1, <1>5 DEF IInv, Placed
  <2>2. (CHOOSE v \in Workers : wreq[v] = r) = w
    BY <1>5, <2>1
  <2>3. wpc[w] \in {"picked", "exec", "post"}
    BY <1>1, <1>5, NoneFacts DEF IInv, Control
  <2>4. stages[r] = CASE wpc[w] = "picked" -> "queued"
                      [] wpc[w] = "exec" -> "running"
                      [] OTHER -> "done"
    BY <1>1, <1>5, <2>1, <2>2 DEF StageOf
  <2> QED BY <1>5, <2>1, <2>3, <2>4
<1>6. CASE r \notin live
  <2>1. r \notin Queued /\ r \notin Finished /\ r # cur /\ \A w \in Workers : wreq[w] # r
    BY <1>1, <1>6 DEF IInv, Placed
  <2> QED BY <1>1, <1>6, <2>1 DEF StageOf
<1> QED BY <1>1, <1>2, <1>3, <1>4, <1>5, <1>6 DEF IInv, Placed

LEMMA StageFactsNext == IInv' => StageTable'
BY StageFacts, PTL

-----------------------------------------------------------------------------
(* The service's variables stand still, or one request moves.              *)
Still == UNCHANGED <<stages, cancelled>>

LEMMA StillIsStutter == Still => UNCHANGED Service!vars
BY DEF Still, Service!vars, stages

LEMMA StagesOf ==
  /\ stages = [r \in Reqs |-> stages[r]]
  /\ stages' = [r \in Reqs |-> stages'[r]]
BY DEF stages

(* A step that leaves the place of r alone leaves its stage alone. *)
Unmoved(r) ==
  /\ r = cur <=> r = cur'
  /\ r = cur => (pc = "poll_count" <=> pc' = "poll_count")
  /\ r \in Finished <=> r \in Finished'
  /\ r \in Queued <=> r \in Queued'
  /\ r \in live <=> r \in live'
  /\ \A w \in Workers : wreq[w] = r <=> wreq'[w] = r
  /\ \A w \in Workers : wreq[w] = r => wpc'[w] = wpc[w]

LEMMA UnmovedStage ==
  ASSUME IInv, IInv', NEW r \in Reqs, Unmoved(r)
  PROVE  stages'[r] = stages[r]
<1>1. StageTable /\ StageTable'
  BY StageFacts, StageFactsNext
<1>2. CASE \E w \in Workers : wreq[w] = r
  BY <1>1, <1>2 DEF StageTable, Unmoved
<1>3. CASE ~\E w \in Workers : wreq[w] = r
  BY <1>1, <1>3 DEF StageTable, Unmoved
<1> QED BY <1>2, <1>3

LEMMA AllUnmoved ==
  ASSUME IInv, IInv', \A r \in Reqs : Unmoved(r)
  PROVE  stages' = stages
BY UnmovedStage, StagesOf

LEMMA OneMoves ==
  ASSUME IInv, IInv', NEW r \in Reqs, \A s \in Reqs \ {r} : Unmoved(s),
         NEW from, NEW to, stages[r] = from, stages'[r] = to
  PROVE  Service!Move(r, from, to)
<1>1. \A s \in Reqs \ {r} : stages'[s] = stages[s]
  BY UnmovedStage
<1>2. stages' = [stages EXCEPT ![r] = to]
  BY <1>1, StagesOf
<1> QED BY <1>2 DEF Service!Move, stages

-----------------------------------------------------------------------------
(* Steps that move no request. *)
LEMMA QuietStill ==
  ASSUME IInv, IInv', UNCHANGED <<res_queue, live, cur, cancelled>>,
         Reqs \intersect Queued' = Reqs \intersect Queued,
         \A w \in Workers : wreq[w] \in Reqs \/ wreq'[w] \in Reqs =>
                              wreq'[w] = wreq[w] /\ wpc'[w] = wpc[w],
         pc = "poll_count" <=> pc' = "poll_count"
  PROVE  Still
<1>1. \A r \in Reqs : Unmoved(r)
  BY DEF Unmoved, Finished
<1> QED BY <1>1, AllUnmoved DEF Still

(* A signalled thread holds no request. *)
LEMMA SignalQuiet ==
  ASSUME IInv, Signal
  PROVE  \A w \in Workers : wreq[w] \in Reqs => wpc'[w] = wpc[w]
<1>1. CASE Waiting = {}
  BY <1>1 DEF Signal
<1>2. CASE Waiting # {}
  <2>1. PICK v \in Waiting : wpc' = [wpc EXCEPT ![v] = "woken"]
    BY <1>2 DEF Signal
  <2>2. wreq[v] = None /\ wpc \in [Workers -> WorkerPc]
    BY DEF Waiting, IInv, Control, TypeOK
  <2> QED BY <2>1, <2>2, NoneFacts
<1> QED BY <1>1, <1>2

LEMMA PoisonQuiet ==
  ASSUME IInv, EndThreadPush
  PROVE  Reqs \intersect Queued' = Reqs \intersect Queued
<1>1. PICK q \in Quits \ (Queued \union Held) : req_queue' = Push(req_queue, q, TopPri)
  BY DEF EndThreadPush
<1>2. Queued' = Queued \union {q}
  BY <1>1, PushQueue, PriFacts DEF IInv, TypeOK, Ordered, Queued
<1> QED BY <1>1, <1>2, NoneFacts

LEMMA ClientQuiet ==
  ASSUME IInv, IInv',
         \/ Set \/ SetMaxParallel \/ Shrink \/ EndThreadPush \/ EndThreadCount
         \/ MaybeStartWanted \/ MaybeStartCount \/ MaybeStartDecide \/ StartThread
         \/ (PollShift /\ res_queue.size = 0)
  PROVE  Still
<1> USE DEF queues, threads, requests
<1>1. UNCHANGED <<res_queue, live, cur, cancelled, wreq>>
  BY DEF Set, SetMaxParallel, Shrink, EndThreadPush, EndThreadCount, MaybeStartWanted,
         MaybeStartCount, MaybeStartDecide, StartThread, PollShift, client
<1>2. Reqs \intersect Queued' = Reqs \intersect Queued
  <2>1. CASE EndThreadPush
    BY <2>1, PoisonQuiet
  <2>2. CASE ~EndThreadPush
    BY <2>2 DEF Queued, Set, SetMaxParallel, Shrink, EndThreadCount, MaybeStartWanted,
                MaybeStartCount, MaybeStartDecide, StartThread, PollShift
  <2> QED BY <2>1, <2>2
<1>3. \A w \in Workers : wreq[w] \in Reqs => wpc'[w] = wpc[w]
  <2>1. CASE EndThreadPush
    BY <2>1, SignalQuiet DEF EndThreadPush
  <2>2. CASE StartThread
    BY <2>2, NoneFacts DEF StartThread, IInv, Control, TypeOK
  <2>3. CASE ~EndThreadPush /\ ~StartThread
    BY <2>3 DEF Set, SetMaxParallel, Shrink, EndThreadCount, MaybeStartWanted,
                MaybeStartCount, MaybeStartDecide, PollShift
  <2> QED BY <2>1, <2>2, <2>3
<1>4. (pc # "poll_count" /\ pc' # "poll_count") \/ pc' = pc
  BY Points DEF IInv, TypeOK, Set, client, SetMaxParallel, Shrink, EndThreadPush, EndThreadCount,
         MaybeStartWanted, MaybeStartCount, MaybeStartDecide, StartThread,
         PollShift, Return, Control
<1> QED BY <1>1, <1>2, <1>3, <1>4, QuietStill

LEMMA PollBeginQuiet ==
  ASSUME IInv, IInv', PollBegin("idle")
  PROVE  Still
<1> USE DEF queues, threads, requests
<1>1. /\ UNCHANGED <<req_queue, res_queue, live, cur, cancelled, wreq, wpc>>
      /\ pc # "poll_count" /\ pc' # "poll_count"
  BY DEF PollBegin
<1>2. Queued' = Queued
  BY <1>1 DEF Queued
<1> QED BY <1>1, <1>2, QuietStill

LEMMA WorkerQuiet ==
  ASSUME IInv, IInv', NEW w \in Workers,
         \/ (Take(w) /\ req_queue.size = 0)
         \/ Expire(w) \/ HandleTimeout(w) \/ Spurious(w) \/ Leave(w) \/ Quit(w)
         \/ (Begin(w) /\ wreq[w] \in Quits)
  PROVE  Still
<1> USE DEF queues, client, requests
<1>1. UNCHANGED <<req_queue, res_queue, live, cur, cancelled, pc>>
  BY DEF Take, Expire, HandleTimeout, Spurious, Leave, Quit, Begin
<1>2. wreq[w] \notin Reqs
  BY NoneFacts DEF Take, Expire, HandleTimeout, Spurious, Leave, Quit, Begin, WorkerStep,
         Waiting, IInv, Control
<1>3. \A v \in Workers : v # w => wpc'[v] = wpc[v] /\ wreq'[v] = wreq[v]
  BY DEF Take, Expire, HandleTimeout, Spurious, Leave, Quit, Begin, WorkerStep, Release,
         IInv, TypeOK
<1>4. wreq'[w] \notin Reqs
  BY <1>2, NoneFacts DEF Take, Expire, HandleTimeout, Spurious, Leave, Quit, Begin,
         WorkerStep, Release, IInv, TypeOK
<1>5. Queued' = Queued
  BY <1>1 DEF Queued
<1> QED BY <1>1, <1>2, <1>3, <1>4, <1>5, QuietStill

-----------------------------------------------------------------------------
(* Steps that move one request, each a step of the service or hidden from  *)
(* it.                                                                     *)
Simulated == Service!Next \/ Still

LEMMA SubmitSim ==
  ASSUME IInv, IInv', NEW r \in Reqs, NEW p \in PriIn, Submit(r, p)
  PROVE  Simulated
<1>1. Queued' = Queued \union {r}
  <2>1. SubmitPri(p) \in Pri
    BY PoolAssumption, SubmitPriType
  <2>2. r \notin Queued
    BY DEF Submit, IInv, Placed
  <2>3. req_queue \in Queues(Reqs \union Quits) /\ QueueOK(req_queue)
    BY DEF IInv, TypeOK, Ordered
  <2>4. req_queue' = Push(req_queue, r, SubmitPri(p))
    BY DEF Submit
  <2> QED BY <2>1, <2>2, <2>3, <2>4, PushQueue DEF Queued
<1>2. /\ UNCHANGED <<res_queue, cur, cancelled, wreq>> /\ live' = live \union {r}
      /\ r \notin live /\ pc # "poll_count" /\ pc' # "poll_count" /\ Signal
  BY DEF Submit, Client
<1>3. \A s \in Reqs \ {r} : Unmoved(s)
  BY <1>1, <1>2, SignalQuiet DEF Unmoved, Finished
<1>4. stages[r] = "free" /\ stages'[r] = "queued"
  BY <1>1, <1>2, StageFacts, StageFactsNext DEF StageTable
<1>5. Service!Submit(r)
  BY <1>2, <1>3, <1>4, OneMoves DEF Service!Submit
<1> QED BY <1>5 DEF Simulated, Service!Next

LEMMA CancelSim ==
  ASSUME IInv, IInv', NEW r \in Reqs, Cancel(r)
  PROVE  Simulated
<1> USE DEF Cancel, queues, counters, pool, settings, threads, client
<1>1. \A s \in Reqs : Unmoved(s)
  BY DEF Unmoved, Finished, Queued
<1>2. stages' = stages
  BY <1>1, AllUnmoved
<1>3. stages[r] # "free"
  BY StageFacts DEF StageTable
<1>4. Service!Cancel(r)
  BY <1>2, <1>3 DEF Service!Cancel, stages
<1> QED BY <1>4 DEF Simulated, Service!Next

(* A worker takes a request: to the service it stays queued. *)
LEMMA TakeSim ==
  ASSUME IInv, IInv', NEW w \in Workers, Take(w), req_queue.size # 0
  PROVE  Still
<1> DEFINE r == First(req_queue)
<1>1. /\ r \in Queued /\ Queued' = Queued \ {r}
  <2>1. req_queue \in Queues(Reqs \union Quits) /\ QueueOK(req_queue)
    BY DEF IInv, TypeOK, Ordered
  <2>2. req_queue' = Shift(req_queue)
    BY DEF Take
  <2> QED BY <2>1, <2>2, ShiftQueue DEF Queued
<1>2. /\ wreq' = [wreq EXCEPT ![w] = r] /\ wpc' = [wpc EXCEPT ![w] = "picked"]
      /\ UNCHANGED <<res_queue, live, cur, cancelled, pc>>
  BY DEF Take, client, requests
<1> HIDE DEF r
<1>3. /\ wreq'[w] = r /\ wpc'[w] = "picked" /\ wreq[w] = None
      /\ \A v \in Workers : v # w => wpc'[v] = wpc[v] /\ wreq'[v] = wreq[v]
  BY <1>2 DEF Take, IInv, Control, TypeOK
<1>4. \A s \in Reqs \ {r} : Unmoved(s)
  BY <1>1, <1>2, <1>3, NoneFacts DEF Unmoved, Finished
<1>5. \A s \in Reqs : stages'[s] = stages[s]
  <2>1. r \in Reqs => stages[r] = "queued" /\ stages'[r] = "queued"
    BY <1>1, <1>3, StageFacts, StageFactsNext DEF StageTable
  <2> QED BY <1>4, <2>1, UnmovedStage
<1> QED BY <1>2, <1>5, StagesOf DEF Still

LEMMA WorkerHolds ==
  ASSUME IInv, NEW w \in Workers, Begin(w) \/ Execute(w)
  PROVE  wreq[w] \in Reqs \/ (Begin(w) /\ wreq[w] \in Quits)
<1>1. CASE Begin(w)
  <2>1. wreq[w] \in Reqs \/ wreq[w] \in Quits
    BY <1>1 DEF Begin
  <2> QED BY <1>1, <2>1
<1>2. CASE Execute(w)
  <2>1. wpc[w] = "exec"
    BY <1>2 DEF Execute, WorkerStep
  <2> QED BY <2>1 DEF IInv, Control
<1> QED BY <1>1, <1>2

LEMMA BeginSim ==
  ASSUME IInv, IInv', NEW w \in Workers, Begin(w) \/ Execute(w), wreq[w] \in Reqs
  PROVE  Simulated
<1> DEFINE r == wreq[w]
<1>1. /\ UNCHANGED <<req_queue, res_queue, live, cur, cancelled, pc, wreq>>
      /\ wpc \in [Workers -> WorkerPc] /\ r \in Reqs
  BY DEF Begin, Execute, queues, client, requests, IInv, TypeOK
<1>2. \A v \in Workers : v # w => wpc'[v] = wpc[v] /\ wreq[v] # r
  BY <1>1, NoneFacts DEF Begin, Execute, WorkerStep, IInv, Placed
<1>3. \A s \in Reqs \ {r} : Unmoved(s)
  BY <1>1, <1>2 DEF Unmoved, Finished, Queued
<1>4. StageTable /\ StageTable'
  BY StageFacts, StageFactsNext
<1>5. CASE wpc[w] = "picked" /\ wpc'[w] = "exec" /\ r \notin cancelled
  <2>1. stages[r] = "queued" /\ stages'[r] = "running"
    BY <1>1, <1>4, <1>5 DEF StageTable
  <2> HIDE DEF r
  <2>2. Service!Execute(r)
    BY <1>1, <1>3, <1>5, <2>1, OneMoves DEF Service!Execute
  <2> QED BY <1>1, <2>2 DEF Simulated, Service!Next
<1>6. CASE wpc[w] = "picked" /\ wpc'[w] = "post" /\ r \in cancelled
  <2>1. stages[r] = "queued" /\ stages'[r] = "done"
    BY <1>1, <1>4, <1>6 DEF StageTable
  <2> HIDE DEF r
  <2>2. Service!Skip(r)
    BY <1>1, <1>3, <1>6, <2>1, OneMoves DEF Service!Skip
  <2> QED BY <1>1, <2>2 DEF Simulated, Service!Next
<1>7. CASE wpc[w] = "exec" /\ wpc'[w] = "post"
  <2>1. stages[r] = "running" /\ stages'[r] = "done"
    BY <1>1, <1>4, <1>7 DEF StageTable
  <2> HIDE DEF r
  <2>2. Service!Complete(r)
    BY <1>1, <1>3, <2>1, OneMoves DEF Service!Complete
  <2> QED BY <1>1, <2>2 DEF Simulated, Service!Next
<1> QED BY <1>1, <1>5, <1>6, <1>7, NoneFacts DEF Begin, Execute, WorkerStep, EIO_CANCELLED

(* A worker hands a request over: to the service it was done already.      *)
LEMMA PostSim ==
  ASSUME IInv, IInv', NEW w \in Workers, Post(w)
  PROVE  Still
<1> DEFINE r == wreq[w]
<1>1. /\ r \in Reqs /\ wpc[w] = "post" /\ pri[r] \in Pri
      /\ wpc \in [Workers -> WorkerPc]
      /\ wreq \in [Workers -> Reqs \union Quits \union {None}]
  BY DEF Post, WorkerStep, IInv, Control, TypeOK
<1>2. Finished' = Finished \union {r}
  <2>1. res_queue \in Queues(Reqs) /\ QueueOK(res_queue)
    BY DEF IInv, TypeOK, Ordered
  <2>2. res_queue' = Push(res_queue, r, pri[r])
    BY DEF Post
  <2> HIDE DEF r
  <2> QED BY <1>1, <2>1, <2>2, PushQueue DEF Finished
<1>3. /\ UNCHANGED <<req_queue, live, cur, cancelled, pc>>
      /\ wpc' = [wpc EXCEPT ![w] = "top"] /\ wreq' = [wreq EXCEPT ![w] = None]
  BY DEF Post, WorkerStep, Release, client, requests
<1>4. /\ wreq'[w] = None
      /\ \A v \in Workers : v # w => wpc'[v] = wpc[v] /\ wreq'[v] = wreq[v]
  BY <1>1, <1>3
<1>5. \A s \in Reqs \ {r} : Unmoved(s)
  BY <1>2, <1>3, <1>4, NoneFacts DEF Unmoved, Queued
<1>6. stages[r] = "done" /\ stages'[r] = "done"
  BY <1>1, <1>2, StageFacts, StageFactsNext DEF StageTable
<1>7. \A s \in Reqs : stages'[s] = stages[s]
  BY <1>5, <1>6, UnmovedStage
<1> QED BY <1>3, <1>7, StagesOf DEF Still

(* eio_poll takes a request off res_queue: it is still to be finished.     *)
LEMMA PollTakesSim ==
  ASSUME IInv, IInv', PollShift, res_queue.size # 0
  PROVE  Still
<1> DEFINE r == First(res_queue)
<1>1. r \in Finished /\ r \in Reqs /\ Finished' = Finished \ {r}
  <2>1. res_queue \in Queues(Reqs) /\ QueueOK(res_queue)
    BY DEF IInv, TypeOK, Ordered
  <2>2. res_queue' = Shift(res_queue)
    BY DEF PollShift
  <2> QED BY <2>1, <2>2, ShiftQueue DEF Finished
<1>2. /\ cur = None /\ cur' = r /\ pc = "poll_shift" /\ pc' = "poll_count"
      /\ UNCHANGED <<req_queue, live, cancelled, wreq, wpc>>
  BY Points DEF PollShift, threads, requests, IInv, Control
<1> HIDE DEF r
<1>3. \A s \in Reqs \ {r} : Unmoved(s)
  BY <1>1, <1>2, NoneFacts DEF Unmoved, Queued
<1>4. stages[r] = "done" /\ stages'[r] = "done"
  BY <1>1, <1>2, StageFacts, StageFactsNext DEF StageTable
<1>5. \A s \in Reqs : stages'[s] = stages[s]
  BY <1>3, <1>4, UnmovedStage
<1> QED BY <1>2, <1>5, StagesOf DEF Still

(* The request eio_poll is at is destroyed. *)
LEMMA DestroySim ==
  ASSUME IInv, IInv', cur \in Reqs, Destroy({cur}), cur' = None,
         UNCHANGED <<req_queue, res_queue, wreq, wpc>>,
         pc = "poll_count" => cur \in cancelled
  PROVE  Service!Destroy(cur)
<1>1. /\ live' = live \ {cur} /\ cancelled' = cancelled \ {cur}
      /\ Queued' = Queued /\ Finished' = Finished
  BY DEF Destroy, Queued, Finished
<1>2. \A s \in Reqs \ {cur} : Unmoved(s)
  BY <1>1, NoneFacts DEF Unmoved
<1>3. StageTable /\ StageTable'
  BY StageFacts, StageFactsNext
<1>4. stages'[cur] = "free"
  BY <1>1, <1>3 DEF StageTable
<1>5. CASE pc = "poll_count"
  <2>1. stages[cur] = "done"
    BY <1>3, <1>5 DEF StageTable
  <2>2. Service!Move(cur, "done", "free")
    BY <1>2, <1>4, <2>1, OneMoves
  <2> QED BY <1>1, <1>5, <2>2 DEF Service!Destroy
<1>6. CASE pc # "poll_count"
  <2>1. stages[cur] = "finishing"
    BY <1>3, <1>6 DEF StageTable
  <2>2. Service!Move(cur, "finishing", "free")
    BY <1>2, <1>4, <2>1, OneMoves
  <2> QED BY <1>1, <2>2 DEF Service!Destroy
<1> QED BY <1>5, <1>6

LEMMA PollCountSim ==
  ASSUME IInv, IInv', PollCount
  PROVE  Simulated
<1>1. /\ cur \in Reqs /\ pc = "poll_count"
      /\ UNCHANGED <<req_queue, res_queue, wreq, wpc>>
  BY NoneFacts DEF PollCount, IInv, Control, TypeOK, queues, threads
<1>2. CASE EIO_CANCELLED(cur)
  <2>1. Destroy({cur}) /\ cur' = None
    BY <1>2 DEF PollCount
  <2>2. Service!Destroy(cur)
    BY <1>1, <1>2, <2>1, DestroySim DEF EIO_CANCELLED
  <2> QED BY <1>1, <2>2 DEF Simulated, Service!Next
<1>3. CASE ~EIO_CANCELLED(cur)
  <2>1. pc' = "callback" /\ UNCHANGED <<cur, live, cancelled>>
    BY <1>3 DEF PollCount, requests
  <2>2. \A s \in Reqs \ {cur} : Unmoved(s)
    BY <1>1, <2>1 DEF Unmoved, Queued, Finished
  <2>3. StageTable /\ StageTable'
    BY StageFacts, StageFactsNext
  <2>4. stages[cur] = "done" /\ stages'[cur] = "finishing"
    BY <1>1, <2>1, <2>3 DEF StageTable
  <2>5. \A s \in Reqs : stages[s] # "finishing"
    BY <1>1, <2>3 DEF StageTable
  <2>6. Service!Move(cur, "done", "finishing")
    BY <1>1, <2>2, <2>4, OneMoves
  <2>7. Service!Finish(cur)
    BY <1>3, <2>1, <2>5, <2>6 DEF Service!Finish, EIO_CANCELLED, stages
  <2> QED BY <1>1, <2>7 DEF Simulated, Service!Next
<1> QED BY <1>2, <1>3

LEMMA CallbackReturnSim ==
  ASSUME IInv, IInv', NEW res \in CbResults, CallbackReturn(res)
  PROVE  Simulated
<1>1. /\ cur \in Reqs /\ pc = "callback" /\ Destroy({cur}) /\ cur' = None
      /\ UNCHANGED <<req_queue, res_queue, wreq, wpc>>
  BY NoneFacts DEF CallbackReturn, IInv, Control, TypeOK, queues, threads
<1>2. Service!Destroy(cur)
  BY <1>1, DestroySim
<1> QED BY <1>1, <1>2 DEF Simulated, Service!Next

(* What is destroyed is no longer cancelled: memory that is used again     *)
(* starts without the flag.                                                *)
CancelledLive == cancelled \subseteq live

LEMMA CancelledLiveInv == CancelledLive /\ [Next]_vars => CancelledLive'
<1> USE DEF CancelledLive, requests
<1>1. Next => \/ UNCHANGED <<live, cancelled>>
              \/ \E r \in Reqs : live' = live \union {r} /\ UNCHANGED cancelled
              \/ \E r \in live : cancelled' = cancelled \union {r} /\ UNCHANGED live
              \/ \E R : live' = live \ R /\ cancelled' = cancelled \ R
  <2>1. ASSUME ClientCall
        PROVE  <1>1!2
    BY <2>1 DEF ClientCall, Submit, Cancel, Set, SetMaxParallel
  <2>2. ASSUME ClientStep
        PROVE  <1>1!2
    BY <2>2 DEF ClientStep, Shrink, EndThreadPush, EndThreadCount, MaybeStartWanted,
                MaybeStartCount, MaybeStartDecide, StartThread, PollShift, PollCount, Destroy
  <2>3. ASSUME Returns \/ ForkChild
        PROVE  <1>1!2
    BY <2>3 DEF Returns, CallbackReturn, ForkChild, Destroy
  <2>4. ASSUME NEW w \in Workers, WorkerNext(w) \/ Expire(w) \/ Spurious(w)
        PROVE  <1>1!2
    BY <2>4 DEF WorkerNext, Take, HandleTimeout, Leave, Begin, Execute, Post, Quit,
                Expire, Spurious
  <2>5. ASSUME PollBegin("idle")
        PROVE  <1>1!2
    BY <2>5 DEF PollBegin
  <2> QED BY <2>1, <2>2, <2>3, <2>4, <2>5 DEF Next, Shared
<1>2. UNCHANGED vars => UNCHANGED <<live, cancelled>>
  BY DEF vars
<1> QED BY <1>1, <1>2

(* The child of a fork has forgotten all but the request being finished.   *)
LEMMA ForkSim ==
  ASSUME IInv, IInv', CancelledLive, ForkChild
  PROVE  Simulated
<1>1. /\ pc \in Client /\ pc' = pc /\ cur' = cur
      /\ cancelled' = cancelled \ (Reqs \intersect (Queued \union Finished \union Held))
      /\ live' = live \ (Reqs \intersect (Queued \union Finished \union Held))
  BY DEF ForkChild, Destroy, client
<1>2. live' = Reqs \intersect {cur}
  BY <1>1 DEF IInv, Placed
<1>3. StageTable /\ StageTable' /\ pc # "poll_count"
  BY <1>1, StageFacts, StageFactsNext, Points
<1>4. \A r \in Reqs : stages[r] = "finishing" <=> r = cur
  BY <1>3 DEF StageTable
<1>5. \A r \in Reqs : stages'[r] = IF stages[r] = "finishing" THEN "finishing" ELSE "free"
  BY <1>1, <1>2, <1>3, <1>4 DEF StageTable
<1>6. cancelled' = {r \in cancelled : stages[r] = "finishing"}
  <2>1. \A r \in cancelled : r \in Reqs /\ r \in live
    BY DEF CancelledLive, IInv, TypeOK
  <2>2. \A r \in Reqs : r = cur => r \notin Queued \union Finished \union Held
    BY DEF IInv, Placed
  <2>3. \A r \in live : r # cur => r \in Queued \union Finished \union Held
    BY DEF IInv, Placed
  <2> QED BY <1>1, <1>4, <2>1, <2>2, <2>3
<1>7. Service!ForkChild
  BY <1>5, <1>6, StagesOf DEF Service!ForkChild, stages
<1> QED BY <1>7 DEF Simulated, Service!Next
-----------------------------------------------------------------------------
LEMMA InitSim == Init => Service!Init
<1> SUFFICES ASSUME Init PROVE Service!Init
  OBVIOUS
<1>1. Queued = {} /\ Finished = {} /\ cur = None /\ cancelled = {}
      /\ \A w \in Workers : wreq[w] = None
  BY EmptyQueueOK DEF Init, Queued, Finished
<1>2. \A r \in Reqs : StageOf(r) = "free"
  BY <1>1, NoneFacts DEF StageOf
<1> QED BY <1>1, <1>2 DEF Service!Init

(* Every step of the pool is a step of the service, or nothing to it.      *)
LEMMA StepSim ==
  ASSUME IInv, IInv', CancelledLive, [Next]_vars
  PROVE  Simulated
<1>1. CASE ClientCall
  <2>1. CASE Set \/ SetMaxParallel
    BY <2>1, ClientQuiet DEF Simulated
  <2> QED BY <1>1, <2>1, SubmitSim, CancelSim DEF ClientCall
<1>2. CASE ClientStep
  <2>1. CASE PollShift /\ res_queue.size = 0
    BY <2>1, ClientQuiet DEF Simulated
  <2>2. CASE PollShift /\ res_queue.size # 0
    BY <2>2, PollTakesSim DEF Simulated
  <2>3. CASE PollCount
    BY <2>3, PollCountSim
  <2>4. CASE \/ Shrink \/ EndThreadPush \/ EndThreadCount
             \/ MaybeStartWanted \/ MaybeStartCount \/ MaybeStartDecide \/ StartThread
    BY <2>4, ClientQuiet DEF Simulated
  <2> QED BY <1>2, <2>1, <2>2, <2>3, <2>4 DEF ClientStep
<1>3. CASE Returns
  BY <1>3, CallbackReturnSim DEF Returns
<1>4. CASE ForkChild
  BY <1>4, ForkSim
<1>5. ASSUME NEW w \in Workers, WorkerNext(w) \/ Expire(w) \/ Spurious(w)
      PROVE  Simulated
  <2>1. CASE Take(w)
    BY <2>1, TakeSim, WorkerQuiet DEF Simulated
  <2>2. CASE Begin(w) \/ Execute(w)
    <3>1. wreq[w] \in Reqs \/ (Begin(w) /\ wreq[w] \in Quits)
      BY <2>2, WorkerHolds
    <3>2. CASE wreq[w] \in Reqs
      BY <2>2, <3>2, BeginSim
    <3>3. CASE Begin(w) /\ wreq[w] \in Quits
      <4>1. Still
        BY <3>3, WorkerQuiet
      <4> QED BY <4>1 DEF Simulated
    <3> QED BY <3>1, <3>2, <3>3
  <2>3. CASE Post(w)
    BY <2>3, PostSim DEF Simulated
  <2>4. CASE Expire(w) \/ HandleTimeout(w) \/ Spurious(w) \/ Leave(w) \/ Quit(w)
    BY <2>4, WorkerQuiet DEF Simulated
  <2> QED BY <1>5, <2>1, <2>2, <2>3, <2>4 DEF WorkerNext
<1>6. CASE PollBegin("idle")
  <2>1. Still
    BY <1>6, PollBeginQuiet
  <2> QED BY <2>1 DEF Simulated
<1>7. CASE UNCHANGED vars
  <2>1. Still
    BY <1>7 DEF Still, stages, StageOf, vars, queues, threads, client, requests,
                Queued, Finished
  <2> QED BY <2>1 DEF Simulated
<1> QED BY <1>1, <1>2, <1>3, <1>4, <1>5, <1>6, <1>7 DEF Next, Shared

(* The pool implements the service, for any number of threads, requests    *)
(* and priorities, with every setter, cancellation, poll and fork: each    *)
(* request is executed at most once, not after a worker found it           *)
(* cancelled, called back at most once and after that, and freed last.     *)
THEOREM Refinement == Spec => Implements
<1>1. Init => Service!Init /\ CancelledLive
  BY InitSim DEF Init, CancelledLive
<1>2. CancelledLive /\ [Next]_vars => CancelledLive'
  BY CancelledLiveInv
<1>3. IInv /\ IInv' /\ CancelledLive /\ [Next]_vars => [Service!Next]_Service!vars
  BY StepSim, StillIsStutter DEF Simulated
<1> QED BY <1>1, <1>2, <1>3, Invariance, PTL DEF Spec, Implements, Service!Spec

=============================================================================
