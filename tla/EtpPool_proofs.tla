--------------------------- MODULE EtpPool_proofs ---------------------------
(***************************************************************************)
(* Proofs about EtpPool, for every number of requests, threads and         *)
(* priorities, and every setting: type correctness, that every request is  *)
(* in one place, that the counters of the queues and of the threads tell   *)
(* the truth, and that the pipe mirrors res_queue.                         *)
(***************************************************************************)
EXTENDS EtpPool, FiniteSetTheorems, SequenceTheorems, WellFoundedInduction, TLAPS

-----------------------------------------------------------------------------
(* The queues: what reqq_push and reqq_shift do to the set of queued       *)
(* requests, and that size counts it.  The rest of the proofs cites these  *)
(* lemmas and never looks into a list.                                     *)

(* The invariant of a queue: nothing is in it twice, and size counts it.   *)
QueueOK(q) == /\ Distinct(q)
              /\ IsFiniteSet(Elems(q))
              /\ q.size = Cardinality(Elems(q))

(* A non-empty set of natural numbers has a least element: the strict      *)
(* subset ordering of the intervals 0..n is well-founded.                  *)
LEMMA LeastNat ==
  ASSUME NEW T \in SUBSET Nat, T # {}
  PROVE  \E x \in T : \A y \in T : x <= y
<1> DEFINE U == {0..n : n \in T}
<1>1. U \subseteq FiniteSubsetsOf(Nat) /\ U # {}
  <2>1. \A n \in Nat : 0..n \subseteq Nat /\ IsFiniteSet(0..n)
    <3> TAKE n \in Nat
    <3>1. IsFiniteSet(0..n) BY FS_Interval, SMT
    <3> QED BY <3>1
  <2> QED BY <2>1 DEF FiniteSubsetsOf
<1>2. \E u \in U : \A v \in U : <<v, u>> \notin StrictSubsetOrdering(Nat)
  <2> HIDE DEF U
  <2> QED BY <1>1, FS_StrictSubsetOrderingWellFounded, WFMin
<1>3. PICK x \in T : \A v \in U : <<v, 0..x>> \notin StrictSubsetOrdering(Nat)
  BY <1>2
<1>4. ASSUME NEW y \in T, y < x PROVE FALSE
  <2>1. 0..y \subseteq 0..x /\ 0..y # 0..x
    <3>1. x \in 0..x /\ x \notin 0..y
      BY <1>4
    <3> QED BY <3>1, <1>4
  <2>2. 0..y \in SUBSET Nat /\ 0..x \in SUBSET Nat
    OBVIOUS
  <2> QED BY <2>1, <2>2, <1>3 DEF StrictSubsetOrdering
<1> QED BY <1>4

LEMMA PriFacts == TopPri \in Nat /\ Pri \subseteq Nat /\ 0 \in Pri /\ TopPri \in Pri
BY PriAssumption DEF Pri, TopPri

(* What is in a queue is in one of its lists. *)
LEMMA ElemsDef ==
  ASSUME NEW q, NEW e
  PROVE  e \in Elems(q) <=> \E p \in Pri : \E i \in 1..Len(q.qs[p]) : q.qs[p][i] = e
BY DEF Elems

(* The list reqq_shift looks for exists in a queue that is not empty.      *)
LEMMA TopOfList ==
  ASSUME NEW S, NEW q \in Queues(S), Elems(q) # {}
  PROVE  TopOf(q) \in Pri /\ q.qs[TopOf(q)] # << >>
<1> DEFINE P == {p \in Pri : q.qs[p] # << >>}
           D == {TopPri - p : p \in P}
<1>1. P # {}
  BY EmptySeq DEF Elems, Queues
<1>2. D \in SUBSET Nat /\ D # {}
  BY <1>1, PriFacts DEF Pri
<1>3. PICK d \in D : \A e \in D : d <= e
  <2> HIDE DEF D
  <2> QED BY <1>2, LeastNat
<1>4. PICK p \in P : d = TopPri - p
  OBVIOUS
<1>5. \A k \in Pri : k > p => q.qs[k] = << >>
  <2> SUFFICES ASSUME NEW k \in P, k > p PROVE FALSE
    OBVIOUS
  <2>1. TopPri - p <= TopPri - k
    BY <1>3, <1>4
  <2> QED BY <2>1, PriFacts
<1>6. \E x \in Pri : q.qs[x] # << >> /\ \A k \in Pri : k > x => q.qs[k] = << >>
  BY <1>5
<1> QED BY <1>6 DEF TopOf

(* The empty queue is one. *)
LEMMA EmptyQueueOK ==
  ASSUME NEW S
  PROVE  /\ EmptyQueue \in Queues(S) /\ Elems(EmptyQueue) = {}
         /\ QueueOK(EmptyQueue)
<1>1. EmptyQueue \in Queues(S)
  BY EmptySeq DEF EmptyQueue, Queues
<1>2. Elems(EmptyQueue) = {}
  BY DEF Elems, EmptyQueue
<1>3. Distinct(EmptyQueue)
  BY DEF Distinct, EmptyQueue
<1> QED BY <1>1, <1>2, <1>3, FS_EmptySet DEF QueueOK, EmptyQueue

(* reqq_push adds its request, and keeps the queue in order if the request *)
(* was not queued.                                                         *)
LEMMA PushQueue ==
  ASSUME NEW S, NEW q \in Queues(S), NEW r \in S, NEW p \in Pri
  PROVE  /\ Push(q, r, p) \in Queues(S)
         /\ Elems(Push(q, r, p)) = Elems(q) \union {r}
         /\ Push(q, r, p).size = q.size + 1
         /\ QueueOK(q) /\ r \notin Elems(q) => QueueOK(Push(q, r, p))
<1> DEFINE n == Push(q, r, p)
<1>1. n.qs = [q.qs EXCEPT ![p] = Append(q.qs[p], r)] /\ n.size = q.size + 1
  BY DEF Push, Queues
<1>2. /\ q.qs \in [Pri -> Seq(S)] /\ q.size \in Nat
      /\ q.qs[p] \in Seq(S)
  BY DEF Queues
<1>3. /\ Append(q.qs[p], r) \in Seq(S)
      /\ Len(Append(q.qs[p], r)) = Len(q.qs[p]) + 1
      /\ \A i \in 1..Len(q.qs[p]) : Append(q.qs[p], r)[i] = q.qs[p][i]
      /\ Append(q.qs[p], r)[Len(q.qs[p]) + 1] = r
  BY <1>2, AppendProperties
<1>4. n \in Queues(S)
  BY <1>1, <1>2, <1>3 DEF Queues, Push
<1>5. /\ n.qs[p] = Append(q.qs[p], r)
      /\ \A k \in Pri : k # p => n.qs[k] = q.qs[k]
  BY <1>1, <1>2
<1>6. \A k \in Pri : Len(q.qs[k]) \in Nat
  BY <1>2, LenProperties
<1> DEFINE l == Len(q.qs[p])
<1> HIDE DEF n
<1>10. l \in Nat /\ Len(n.qs[p]) = l + 1
  BY <1>3, <1>5, <1>6
<1> HIDE DEF l
<1>7. Elems(n) = Elems(q) \union {r}
  <2>1. ASSUME NEW e \in Elems(n) PROVE e \in Elems(q) \union {r}
    <3>1. PICK k \in Pri, i \in Nat : i \in 1..Len(n.qs[k]) /\ n.qs[k][i] = e
      BY ElemsDef
    <3>2. CASE k # p
      BY <3>1, <3>2, <1>5, ElemsDef
    <3>3. CASE k = p /\ i \in 1..Len(q.qs[p])
      BY <3>1, <3>3, <1>3, <1>5, ElemsDef
    <3>4. CASE k = p /\ i \notin 1..Len(q.qs[p])
      <4>1. i = l + 1
        BY <3>1, <3>4, <1>10 DEF l
      <4> QED BY <4>1, <3>1, <3>4, <1>3, <1>5 DEF l
    <3> QED BY <3>2, <3>3, <3>4
  <2>2. ASSUME NEW e \in Elems(q) PROVE e \in Elems(n)
    <3>1. PICK k \in Pri, i \in Nat : i \in 1..Len(q.qs[k]) /\ q.qs[k][i] = e
      BY ElemsDef
    <3>2. CASE k = p
      <4>1. i \in 1..Len(n.qs[p])
        BY <3>1, <3>2, <1>10 DEF l
      <4>2. n.qs[p][i] = e
        BY <3>1, <3>2, <1>3, <1>5
      <4> QED BY <4>1, <4>2, ElemsDef
    <3>3. CASE k # p
      BY <3>1, <3>3, <1>5, ElemsDef
    <3> QED BY <3>2, <3>3
  <2>3. r \in Elems(n)
    <3>1. Len(q.qs[p]) + 1 \in 1..Len(n.qs[p])
      BY <1>3, <1>5, <1>6
    <3> QED BY <3>1, <1>3, <1>5, ElemsDef
  <2> QED BY <2>1, <2>2, <2>3
<1>8. ASSUME QueueOK(q), r \notin Elems(q) PROVE QueueOK(n)
  <2>1. Distinct(n)
    <3> SUFFICES ASSUME NEW p1 \in Pri, NEW p2 \in Pri,
                        NEW i \in 1..Len(n.qs[p1]), NEW j \in 1..Len(n.qs[p2]),
                        n.qs[p1][i] = n.qs[p2][j]
                 PROVE  p1 = p2 /\ i = j
      BY DEF Distinct
    <3> DEFINE New(k, x) == k = p /\ x = Len(q.qs[p]) + 1
    <3>1. ASSUME NEW k \in Pri, NEW x \in 1..Len(n.qs[k]), ~New(k, x)
          PROVE  /\ x \in 1..Len(q.qs[k]) /\ n.qs[k][x] = q.qs[k][x]
                 /\ n.qs[k][x] # r
      <4>1. x \in 1..Len(q.qs[k]) /\ n.qs[k][x] = q.qs[k][x]
        BY <3>1, <1>3, <1>5, <1>6
      <4> QED BY <4>1, <1>8, ElemsDef
    <3>2. ASSUME NEW k \in Pri, NEW x \in 1..Len(n.qs[k]), New(k, x)
          PROVE  n.qs[k][x] = r
      BY <3>2, <1>3, <1>5
    <3>3. CASE ~New(p1, i) /\ ~New(p2, j)
      <4>1. /\ i \in 1..Len(q.qs[p1]) /\ j \in 1..Len(q.qs[p2])
            /\ q.qs[p1][i] = q.qs[p2][j]
        BY <3>1, <3>3
      <4> QED BY <4>1, <1>8 DEF QueueOK, Distinct
    <3>4. CASE New(p1, i) /\ New(p2, j)
      BY <3>4
    <3>5. CASE New(p1, i) /\ ~New(p2, j)
      <4>1. n.qs[p1][i] = r /\ n.qs[p2][j] # r
        BY <3>1, <3>2, <3>5
      <4> QED BY <4>1
    <3>6. CASE ~New(p1, i) /\ New(p2, j)
      <4>1. n.qs[p1][i] # r /\ n.qs[p2][j] = r
        BY <3>1, <3>2, <3>6
      <4> QED BY <4>1
    <3> HIDE DEF New
    <3> QED BY <3>3, <3>4, <3>5, <3>6
  <2>2. IsFiniteSet(Elems(n)) /\ Cardinality(Elems(n)) = Cardinality(Elems(q)) + 1
    BY <1>7, <1>8, FS_AddElement DEF QueueOK
  <2> QED BY <2>1, <2>2, <1>1, <1>8 DEF QueueOK, n
<1> QED BY <1>1, <1>4, <1>7, <1>8 DEF n

(* reqq_shift on a queue that is not empty returns what was queued, and    *)
(* leaves the rest, in order.                                              *)
LEMMA ShiftQueue ==
  ASSUME NEW S, NEW q \in Queues(S), QueueOK(q), q.size # 0
  PROVE  /\ First(q) \in Elems(q) /\ First(q) \in S
         /\ Shift(q) \in Queues(S)
         /\ Elems(Shift(q)) = Elems(q) \ {First(q)}
         /\ Shift(q).size = q.size - 1
         /\ QueueOK(Shift(q))
<1> DEFINE n == Shift(q)
           t == TopOf(q)
           s == q.qs[t]
<1>1. Elems(q) # {}
  BY FS_EmptySet DEF QueueOK
<1>2. t \in Pri /\ s # << >>
  BY <1>1, TopOfList
<1>3. q.qs \in [Pri -> Seq(S)] /\ q.size \in Nat /\ s \in Seq(S)
  BY <1>2 DEF Queues
<1> HIDE DEF t
<1>4. n.qs = [q.qs EXCEPT ![t] = Tail(s)] /\ n.size = q.size - 1
  BY DEF Shift, t
<1>5. n.qs[t] = Tail(s) /\ \A k \in Pri : k # t => n.qs[k] = q.qs[k]
  BY <1>2, <1>3, <1>4
<1>6. /\ Tail(s) \in Seq(S) /\ Len(Tail(s)) = Len(s) - 1
      /\ \A i \in 1..Len(Tail(s)) : Tail(s)[i] = s[i+1]
  BY <1>2, <1>3, HeadTailProperties
<1>7. Len(s) \in Nat /\ Len(s) >= 1
  BY <1>2, <1>3, EmptySeq, LenProperties
<1>8. First(q) = s[1] /\ 1 \in 1..Len(s)
  BY <1>2, <1>3, <1>7 DEF First, t
<1>9. First(q) \in Elems(q)
  BY <1>2, <1>8, ElemsDef
<1>10. First(q) \in S
  BY <1>3, <1>8, ElementOfSeq
<1>11. n \in Queues(S)
  <2>1. n.size \in Nat
    BY <1>3, <1>4
  <2> QED BY <2>1, <1>3, <1>4, <1>6 DEF Queues, Shift
<1> DEFINE Old(k, i) == IF k = t THEN i + 1 ELSE i
<1> HIDE DEF n, s
(* Each place of n is one of q, other than the first of its list t.        *)
<1>12. ASSUME NEW k \in Pri, NEW i \in 1..Len(n.qs[k])
       PROVE  /\ Old(k, i) \in 1..Len(q.qs[k]) /\ n.qs[k][i] = q.qs[k][Old(k, i)]
              /\ k = t => Old(k, i) # 1
  <2>1. CASE k = t
    <3>1. i + 1 \in 1..Len(s) /\ i + 1 # 1
      BY <2>1, <1>5, <1>6, <1>7
    <3> QED BY <2>1, <3>1, <1>5, <1>6 DEF s
  <2>2. CASE k # t
    BY <2>2, <1>5
  <2> QED BY <2>1, <2>2
<1>13. Elems(n) = Elems(q) \ {First(q)}
  <2>1. ASSUME NEW e \in Elems(n) PROVE e \in Elems(q) /\ e # First(q)
    <3>1. PICK k \in Pri, i \in Nat : i \in 1..Len(n.qs[k]) /\ n.qs[k][i] = e
      BY ElemsDef
    <3>2. Old(k, i) \in 1..Len(q.qs[k]) /\ q.qs[k][Old(k, i)] = e
      BY <3>1, <1>12
    <3>3. k = t => Old(k, i) # 1
      BY <3>1, <1>12
    <3> HIDE DEF Old
    <3>4. e \in Elems(q)
      BY <3>2, ElemsDef
    <3>5. e = First(q) => k = t /\ Old(k, i) = 1
      BY <3>2, <1>2, <1>8 DEF QueueOK, Distinct, s
    <3> QED BY <3>3, <3>4, <3>5
  <2>2. ASSUME NEW e \in Elems(q), e # First(q) PROVE e \in Elems(n)
    <3>1. PICK k \in Pri, i \in Nat : i \in 1..Len(q.qs[k]) /\ q.qs[k][i] = e
      BY ElemsDef
    <3>2. CASE k # t
      BY <3>1, <3>2, <1>5, ElemsDef
    <3>3. CASE k = t
      <4>1. i # 1
        BY <2>2, <3>1, <3>3, <1>8 DEF s
      <4>2. i - 1 \in 1..Len(n.qs[t])
        BY <3>1, <3>3, <4>1, <1>5, <1>6, <1>7 DEF s
      <4>3. n.qs[t][i-1] = e
        BY <3>1, <3>3, <4>2, <1>5, <1>6 DEF s
      <4> QED BY <4>2, <4>3, <1>2, ElemsDef
    <3> QED BY <3>2, <3>3
  <2> QED BY <2>1, <2>2
<1>14. QueueOK(n)
  <2>1. Distinct(n)
    <3> SUFFICES ASSUME NEW p1 \in Pri, NEW p2 \in Pri,
                        NEW i \in 1..Len(n.qs[p1]), NEW j \in 1..Len(n.qs[p2]),
                        n.qs[p1][i] = n.qs[p2][j]
                 PROVE  p1 = p2 /\ i = j
      BY DEF Distinct
    <3>1. /\ Old(p1, i) \in 1..Len(q.qs[p1]) /\ Old(p2, j) \in 1..Len(q.qs[p2])
          /\ q.qs[p1][Old(p1, i)] = q.qs[p2][Old(p2, j)]
      BY <1>12
    <3>2. p1 = p2 /\ Old(p1, i) = Old(p2, j)
      <4> HIDE DEF Old
      <4> QED BY <3>1 DEF QueueOK, Distinct
    <3> QED BY <3>2
  <2>2. /\ IsFiniteSet(Elems(n))
        /\ Cardinality(Elems(n)) = Cardinality(Elems(q)) - 1
    BY <1>9, <1>13, FS_RemoveElement DEF QueueOK
  <2> QED BY <2>1, <2>2, <1>4 DEF QueueOK
<1> QED BY <1>4, <1>9, <1>10, <1>11, <1>13, <1>14 DEF n

(* Size 0 means that nothing is queued. *)
LEMMA SizeZero ==
  ASSUME NEW q, QueueOK(q)
  PROVE  q.size = 0 <=> Elems(q) = {}
BY FS_EmptySet DEF QueueOK

(* Only members of S are in a queue over S. *)
LEMMA ElemsType ==
  ASSUME NEW S, NEW q \in Queues(S)
  PROVE  Elems(q) \subseteq S
<1> SUFFICES ASSUME NEW e \in Elems(q) PROVE e \in S
  OBVIOUS
<1>1. PICK k \in Pri, i \in Nat : i \in 1..Len(q.qs[k]) /\ q.qs[k][i] = e
  BY ElemsDef
<1>2. q.qs[k] \in Seq(S)
  BY DEF Queues
<1> QED BY <1>1, <1>2, ElementOfSeq

-----------------------------------------------------------------------------
(* What the places of the threads say about the requests they hold.        *)
Control ==
  /\ \A w \in Workers :
       /\ wpc[w] \in {"exec", "post"} => wreq[w] \in Reqs
       /\ wpc[w] = "picked" => wreq[w] \in Reqs \union Quits
       /\ wpc[w] = "quit" => wreq[w] \notin Reqs
       /\ wpc[w] \notin {"picked", "exec", "post", "quit"} => wreq[w] = None
  /\ cur # None <=> \/ pc \in {"callback", "poll_count"}
                    \/ pc \in MsPc \union ShrinkPc /\ ret = "callback"
  /\ pc \in ShrinkPc => ret \in Client

(* Both queues are in order: nothing is in one twice, size is its length.  *)
Ordered == QueueOK(req_queue) /\ QueueOK(res_queue)

(* The requests that nreqs counts: all but the one being called back.      *)
Counted == IF pc = "poll_count" THEN live ELSE live \ {cur}

Tally ==
  /\ npending = res_queue.size
  /\ nreqs = Cardinality(Counted)
  /\ pipe = IF res_queue.size > 0 THEN 1 ELSE 0

(* The inductive invariant. *)
IInv == TypeOK /\ Control /\ Ordered /\ Placed /\ Tally

-----------------------------------------------------------------------------
LEMMA NoneFacts == None \notin Reqs /\ None \notin Quits /\ Reqs \intersect Quits = {}
BY PoolAssumption

(* Counting up and down without leaving the width of the counter.          *)
LEMMA IncDec ==
  ASSUME NEW x \in UInt
  PROVE  /\ Inc(x) \in UInt /\ Dec(x) \in UInt
         /\ x + 1 < Word => Inc(x) = x + 1
         /\ x # 0 => Dec(x) = x - 1
BY PoolAssumption DEF UInt, Inc, Dec

LEMMA SubmitPriType == ASSUME NEW p \in Int PROVE SubmitPri(p) \in Pri
BY PriAssumption DEF SubmitPri, SChar, Pri, TopPri

(* No set of requests is larger than a counter. *)
LEMMA ReqsBound ==
  ASSUME NEW R \in SUBSET Reqs
  PROVE  IsFiniteSet(R) /\ Cardinality(R) \in Nat /\ Cardinality(R) < Word
BY ReqsAssumption, PoolAssumption, FS_Subset, FS_CardinalityType

LEMMA InitInv == Init => IInv
<1> SUFFICES ASSUME Init PROVE IInv
  OBVIOUS
<1>1. /\ EmptyQueue \in Queues(Reqs \union Quits) /\ EmptyQueue \in Queues(Reqs)
      /\ Elems(EmptyQueue) = {} /\ QueueOK(EmptyQueue) /\ EmptyQueue.size = 0
  BY EmptyQueueOK DEF EmptyQueue
<1>2. TypeOK
  BY <1>1, PoolAssumption, PriFacts DEF Init, TypeOK, UInt, WorkerPc, ClientPc, Client
<1>3. Control
  BY DEF Init, Control, MsPc, ShrinkPc
<1>4. Ordered
  BY <1>1 DEF Init, Ordered
<1>5. Placed
  <2>1. Queued = {} /\ Finished = {} /\ Held = {}
    BY <1>1 DEF Init, Queued, Finished, Held
  <2> QED BY <1>1, <2>1, NoneFacts DEF Init, Placed, QueueOK
<1>6. Tally
  <2>1. Counted = {}
    BY DEF Init, Counted
  <2> QED BY <1>1, <2>1, FS_EmptySet DEF Init, Tally
<1> QED BY <1>2, <1>3, <1>4, <1>5, <1>6 DEF IInv

-----------------------------------------------------------------------------
(* Frames: what an action has to leave alone for a part to be preserved.   *)
PlaceVars == <<req_queue, res_queue, wreq, cur, live>>

LEMMA PlacedFrame == Placed /\ Ordered /\ UNCHANGED PlaceVars => Placed' /\ Ordered'
BY DEF Placed, Ordered, PlaceVars, Queued, Finished, Held

LEMMA TallyFrame ==
  ASSUME Tally, UNCHANGED <<res_queue, npending, nreqs, pipe, live, cur>>,
         pc # "poll_count", pc' # "poll_count"
  PROVE  Tally'
BY DEF Tally, Counted

(* The control points do not overlap. *)
LEMMA Points ==
  /\ Client = {"idle", "callback"}
  /\ MsPc = {"ms_wanted", "ms_count", "ms_decide", "ms_start"}
  /\ ShrinkPc = {"shrink", "end_push", "end_dec"}
BY DEF Client, MsPc, ShrinkPc

(* A signal moves a waiting thread, which holds no request, and no other.  *)
LEMMA SignalStep ==
  ASSUME TypeOK, Control, Signal, UNCHANGED wreq
  PROVE  /\ wpc' \in [Workers -> WorkerPc]
         /\ \A w \in Workers :
              /\ wpc'[w] \in {"exec", "post"} => wreq'[w] \in Reqs
              /\ wpc'[w] = "picked" => wreq'[w] \in Reqs \union Quits
              /\ wpc'[w] = "quit" => wreq'[w] \notin Reqs
              /\ wpc'[w] \notin {"picked", "exec", "post", "quit"} => wreq'[w] = None
<1>1. CASE Waiting = {}
  BY <1>1 DEF Signal, TypeOK, Control
<1>2. CASE Waiting # {}
  <2>1. PICK w \in Waiting : wpc' = [wpc EXCEPT ![w] = "woken"]
    BY <1>2 DEF Signal
  <2>2. w \in Workers /\ wreq[w] = None /\ wpc \in [Workers -> WorkerPc]
    BY DEF Waiting, Control, TypeOK
  <2>3. wpc'[w] = "woken" /\ \A v \in Workers : v # w => wpc'[v] = wpc[v]
    BY <2>1, <2>2
  <2>4. wpc' \in [Workers -> WorkerPc]
    BY <2>1, <2>2 DEF WorkerPc
  <2> QED BY <2>2, <2>3, <2>4 DEF Control
<1> QED BY <1>1, <1>2

-----------------------------------------------------------------------------
LEMMA SubmitInv ==
  ASSUME IInv, NEW r \in Reqs, NEW p \in PriIn, Submit(r, p)
  PROVE  IInv'
<1> DEFINE n == SubmitPri(p)
<1>1. /\ req_queue \in Queues(Reqs \union Quits) /\ r \in Reqs \union Quits
      /\ n \in Pri
  <2>1. p \in Int
    BY PoolAssumption
  <2> QED BY <2>1, SubmitPriType DEF IInv, TypeOK
<1>2. r \notin Queued /\ r \notin Held /\ r \notin Finished /\ r # cur
  BY DEF Submit, IInv, Placed
<1> HIDE DEF n
<1>3. /\ req_queue' \in Queues(Reqs \union Quits)
      /\ Queued' = Queued \union {r}
      /\ QueueOK(req_queue')
  BY <1>1, <1>2, PushQueue DEF Submit, IInv, Ordered, Queued, n
<1>4. TypeOK'
  <2>1. Inc(nreqs) \in UInt /\ Inc(nready) \in UInt
    BY IncDec DEF IInv, TypeOK
  <2>2. wpc' \in [Workers -> WorkerPc]
    BY SignalStep DEF IInv, Submit
  <2>3. pri' \in [Reqs -> Pri]
    BY <1>1 DEF IInv, TypeOK, Submit, n
  <2> QED BY <1>3, <2>1, <2>2, <2>3
          DEF IInv, TypeOK, Submit, pool, settings, Client, ClientPc, MsPc
<1>5. Control'
  <2>1. pc' = "ms_wanted" /\ ret' = pc /\ cur' = cur /\ wreq' = wreq
    BY DEF Submit
  <2>2. cur' # None <=> \/ pc' \in {"callback", "poll_count"}
                        \/ pc' \in MsPc \union ShrinkPc /\ ret' = "callback"
    BY <2>1, Points DEF IInv, Control, Submit
  <2>3. pc' \notin ShrinkPc
    BY <2>1, Points
  <2> QED BY <2>1, <2>2, <2>3, SignalStep DEF IInv, Submit, Control
<1>6. Ordered'
  BY <1>3 DEF Ordered, IInv, Submit
<1>7. Placed'
  <2>1. Held' = Held /\ Finished' = Finished /\ cur' = cur /\ wreq' = wreq
    BY DEF Submit, Held, Finished
  <2>2. live' = live \union {r}
    BY DEF Submit
  <2> QED BY <1>2, <1>3, <1>6, <2>1, <2>2 DEF Placed, IInv, Ordered, QueueOK
<1>8. Tally'
  <2>1. Counted' = Counted \union {r} /\ r \notin Counted
    BY <1>2 DEF Submit, Counted, Client
  <2>2. /\ IsFiniteSet(Counted) /\ Cardinality(Counted') \in Nat
        /\ Cardinality(Counted') < Word
    <3>1. Counted \subseteq Reqs /\ Counted' \subseteq Reqs
      BY <2>1 DEF IInv, TypeOK, Counted
    <3> QED BY <3>1, ReqsBound
  <2>3. Cardinality(Counted') = Cardinality(Counted) + 1
    BY <2>1, <2>2, FS_AddElement
  <2>4. nreqs' = nreqs + 1
    BY <2>2, <2>3, IncDec DEF Submit, IInv, TypeOK, Tally
  <2> QED BY <2>3, <2>4 DEF Tally, IInv, Submit
<1> QED BY <1>4, <1>5, <1>6, <1>7, <1>8 DEF IInv

LEMMA CancelInv ==
  ASSUME IInv, NEW r \in Reqs, Cancel(r)
  PROVE  IInv'
<1> USE DEF Cancel, queues, counters, pool, settings, threads, client
<1>1. TypeOK'
  BY DEF IInv, TypeOK
<1>2. Control'
  BY DEF IInv, Control
<1>3. Placed' /\ Ordered'
  BY PlacedFrame DEF IInv, PlaceVars
<1>4. Tally'
  BY DEF IInv, Tally, Counted
<1> QED BY <1>1, <1>2, <1>3, <1>4 DEF IInv

LEMMA SetInv ==
  ASSUME IInv, Set
  PROVE  IInv'
<1> USE DEF Set, queues, counters, pool, threads, client, requests
<1>1. TypeOK'
  <2>1. wanted' \in UInt /\ max_idle' \in UInt /\ max_poll_reqs' \in UInt
    BY PoolAssumption DEF IInv, TypeOK, UInt
  <2> QED BY <2>1 DEF IInv, TypeOK
<1>2. Control'
  BY DEF IInv, Control
<1>3. Placed' /\ Ordered'
  BY PlacedFrame DEF IInv, PlaceVars
<1>4. Tally'
  BY DEF IInv, Tally, Counted
<1> QED BY <1>1, <1>2, <1>3, <1>4 DEF IInv

(* eio_set_max_parallel and its loop. *)
LEMMA SetMaxParallelInv ==
  ASSUME IInv, SetMaxParallel
  PROVE  IInv'
<1> USE DEF SetMaxParallel, queues, counters, pool, threads, requests
<1>1. TypeOK'
  <2>1. wanted' \in UInt
    BY PoolAssumption DEF IInv, TypeOK, UInt
  <2> QED BY <2>1 DEF IInv, TypeOK, Client, ClientPc, ShrinkPc
<1>2. Control'
  BY Points DEF IInv, Control
<1>3. Placed' /\ Ordered'
  BY PlacedFrame DEF IInv, PlaceVars
<1>4. Tally'
  BY TallyFrame DEF IInv, Client
<1> QED BY <1>1, <1>2, <1>3, <1>4 DEF IInv

LEMMA ShrinkInv ==
  ASSUME IInv, Shrink
  PROVE  IInv'
<1> USE DEF Shrink, queues, counters, pool, settings, threads, requests
<1>1. TypeOK'
  <2>1. pc' \in Client \union ShrinkPc
    BY Points DEF IInv, Control
  <2> QED BY <2>1 DEF IInv, TypeOK, ClientPc
<1>2. Control'
  BY Points DEF IInv, Control
<1>3. Placed' /\ Ordered'
  BY PlacedFrame DEF IInv, PlaceVars
<1>4. Tally'
  <2>1. pc' # "poll_count"
    BY Points DEF IInv, Control
  <2> QED BY <2>1, TallyFrame DEF IInv
<1> QED BY <1>1, <1>2, <1>3, <1>4 DEF IInv

LEMMA EndThreadPushInv ==
  ASSUME IInv, EndThreadPush
  PROVE  IInv'
<1> USE DEF counters, pool, settings, requests
<1>1. PICK q \in Quits \ (Queued \union Held) : req_queue' = Push(req_queue, q, TopPri)
  BY DEF EndThreadPush
<1>2. /\ req_queue' \in Queues(Reqs \union Quits)
      /\ Queued' = Queued \union {q}
      /\ QueueOK(req_queue')
  BY <1>1, PushQueue, PriFacts DEF IInv, TypeOK, Ordered, Queued
<1>3. q \notin Reqs /\ q \notin Finished /\ q # cur /\ q # None
  BY NoneFacts, ElemsType DEF IInv, TypeOK, Finished
<1>4. TypeOK'
  <2>1. wpc' \in [Workers -> WorkerPc]
    BY SignalStep DEF IInv, EndThreadPush
  <2> QED BY <1>2, <2>1 DEF EndThreadPush, IInv, TypeOK, ClientPc, ShrinkPc
<1>5. Control'
  <2>1. /\ pc = "end_push" /\ pc' = "end_dec" /\ ret' = ret /\ cur' = cur
        /\ Signal /\ wreq' = wreq
    BY DEF EndThreadPush
  <2> QED BY <2>1, SignalStep, Points DEF IInv, Control
<1>6. Ordered'
  BY <1>2 DEF Ordered, IInv, EndThreadPush
<1>7. Placed'
  <2>1. /\ Held' = Held /\ Finished' = Finished /\ cur' = cur /\ wreq' = wreq
        /\ live' = live
    BY DEF EndThreadPush, Held, Finished
  <2> QED BY <1>1, <1>2, <1>3, <1>6, <2>1 DEF Placed, IInv, Ordered, QueueOK
<1>8. Tally'
  BY TallyFrame DEF IInv, EndThreadPush
<1> QED BY <1>4, <1>5, <1>6, <1>7, <1>8 DEF IInv

LEMMA EndThreadCountInv ==
  ASSUME IInv, EndThreadCount
  PROVE  IInv'
<1> USE DEF EndThreadCount, queues, counters, settings, threads, requests
<1>1. TypeOK'
  <2>1. Dec(started) \in UInt
    BY IncDec DEF IInv, TypeOK
  <2> QED BY <2>1 DEF IInv, TypeOK, ClientPc, ShrinkPc
<1>2. Control'
  BY Points DEF IInv, Control
<1>3. Placed' /\ Ordered'
  BY PlacedFrame DEF IInv, PlaceVars
<1>4. Tally'
  BY TallyFrame DEF IInv
<1> QED BY <1>1, <1>2, <1>3, <1>4 DEF IInv

-----------------------------------------------------------------------------
(* etp_maybe_start_thread: four steps that move only the client, and one   *)
(* that starts a thread without a request.                                 *)
LEMMA MaybeStartInv ==
  ASSUME IInv, MaybeStartWanted \/ MaybeStartCount \/ MaybeStartDecide
  PROVE  IInv'
<1> USE DEF MaybeStartWanted, MaybeStartCount, MaybeStartDecide,
            queues, counters, pool, settings, threads, requests
<1>1. TypeOK'
  <2>1. 0 \in UInt
    BY PoolAssumption DEF UInt
  <2> QED BY <2>1 DEF IInv, TypeOK, ClientPc, MsPc, Client, WaitPc
<1>2. Control'
  BY Points DEF IInv, Control, TypeOK
<1>3. Placed' /\ Ordered'
  BY PlacedFrame DEF IInv, PlaceVars
<1>4. Tally'
  <2>1. pc # "poll_count" /\ pc' # "poll_count"
    BY Points DEF IInv, TypeOK
  <2> QED BY <2>1, TallyFrame DEF IInv
<1> QED BY <1>1, <1>2, <1>3, <1>4 DEF IInv

LEMMA StartThreadInv ==
  ASSUME IInv, StartThread
  PROVE  IInv'
<1> USE DEF queues, counters, settings, requests
<1>1. TypeOK'
  <2>1. Inc(started) \in UInt
    BY IncDec DEF IInv, TypeOK
  <2> QED BY <2>1 DEF StartThread, IInv, TypeOK, ClientPc, Client, WaitPc, WorkerPc
<1>2. Control'
  <2>1. \A w \in Workers : \/ wpc'[w] = wpc[w]
                           \/ wpc[w] = "none" /\ wpc'[w] = "top"
    BY DEF StartThread, IInv, TypeOK
  <2>2. wreq' = wreq /\ pc = "ms_start" /\ pc' = ret /\ ret' = ret /\ cur' = cur
    BY DEF StartThread
  <2> QED BY <2>1, <2>2, Points DEF IInv, Control, TypeOK
<1>3. Placed' /\ Ordered'
  BY PlacedFrame DEF IInv, PlaceVars, StartThread
<1>4. Tally'
  <2>1. pc # "poll_count" /\ pc' # "poll_count"
    BY Points DEF IInv, TypeOK, StartThread
  <2> QED BY <2>1, TallyFrame DEF IInv, StartThread
<1> QED BY <1>1, <1>2, <1>3, <1>4 DEF IInv

-----------------------------------------------------------------------------
LEMMA PollBeginInv ==
  ASSUME IInv, PollBegin("idle")
  PROVE  IInv'
<1> USE DEF PollBegin, queues, counters, pool, settings, threads, requests
<1>1. TypeOK'
  BY DEF IInv, TypeOK, ClientPc, MsPc
<1>2. Control'
  BY Points DEF IInv, Control
<1>3. Placed' /\ Ordered'
  BY PlacedFrame DEF IInv, PlaceVars
<1>4. Tally'
  BY TallyFrame DEF IInv
<1> QED BY <1>1, <1>2, <1>3, <1>4 DEF IInv

(* eio_poll finds nothing. *)
LEMMA PollEmptyInv ==
  ASSUME IInv, PollShift, res_queue.size = 0
  PROVE  IInv'
<1> USE DEF PollShift, Return, pool, settings, threads, requests
<1>1. TypeOK'
  <2>1. 0 \in UInt
    BY PoolAssumption DEF UInt
  <2> QED BY <2>1 DEF IInv, TypeOK, ClientPc, Client, WaitPc
<1>2. Control'
  BY Points DEF IInv, Control, TypeOK
<1>3. Placed' /\ Ordered'
  BY PlacedFrame DEF IInv, PlaceVars
<1>4. Tally'
  <2>1. pc' # "poll_count"
    BY DEF IInv, TypeOK
  <2> QED BY <2>1, TallyFrame DEF IInv
<1> QED BY <1>1, <1>2, <1>3, <1>4 DEF IInv

(* eio_poll takes a request off res_queue. *)
LEMMA PollTakesInv ==
  ASSUME IInv, PollShift, res_queue.size # 0
  PROVE  IInv'
<1> USE DEF pool, settings, threads, requests
<1> DEFINE r == First(res_queue)
<1>1. /\ r \in Finished /\ r \in Reqs
      /\ res_queue' \in Queues(Reqs)
      /\ Finished' = Finished \ {r}
      /\ res_queue'.size = res_queue.size - 1
      /\ QueueOK(res_queue')
  BY ShiftQueue DEF PollShift, IInv, TypeOK, Ordered, Finished
<1>2. cur = None /\ cur' = r /\ pc' = "poll_count"
  BY Points DEF PollShift, IInv, Control
<1>3. res_queue.size \in Nat /\ res_queue'.size \in Nat
  BY <1>1 DEF IInv, TypeOK, Queues
<1>4. npending' = res_queue'.size /\ npending' \in UInt
  <2>1. npending \in UInt /\ npending # 0 /\ npending' = Dec(npending)
    BY DEF PollShift, IInv, TypeOK, Tally
  <2> QED BY <1>1, <2>1, IncDec DEF IInv, Tally
<1>5. pipe' = (IF res_queue'.size > 0 THEN 1 ELSE 0)
  <2>1. pipe = 1
    BY <1>3 DEF PollShift, IInv, Tally
  <2> QED BY <1>3, <2>1 DEF PollShift
<1>6. TypeOK'
  BY <1>1, <1>2, <1>4, <1>5 DEF PollShift, IInv, TypeOK, ClientPc
<1>7. Control'
  BY <1>1, <1>2, Points, NoneFacts DEF PollShift, IInv, Control
<1>8. Ordered'
  BY <1>1 DEF Ordered, IInv, PollShift
<1>9. Placed'
  <2>1. Held' = Held /\ Queued' = Queued /\ wreq' = wreq /\ live' = live
    BY DEF PollShift, Held, Queued
  <2>2. r \notin Queued /\ r \notin Held /\ r \notin Finished'
    BY <1>1 DEF IInv, Placed
  <2> HIDE DEF r
  <2> QED BY <1>1, <1>2, <1>8, <2>1, <2>2, NoneFacts DEF Placed, IInv, Ordered, QueueOK
<1>10. Tally'
  <2>1. Counted' = Counted
    BY <1>2, NoneFacts DEF Counted, PollShift, IInv, TypeOK
  <2> QED BY <1>4, <1>5, <2>1 DEF Tally, IInv, PollShift
<1> QED BY <1>6, <1>7, <1>8, <1>9, <1>10 DEF IInv

(* The rest of eio_poll: what eio_destroy of the request at hand does to   *)
(* the places, and how the loop goes on.                                   *)
LEMMA DestroyCur ==
  ASSUME IInv, cur \in Reqs, Destroy({cur}), cur' = None,
         UNCHANGED <<req_queue, res_queue, wreq>>
  PROVE  /\ live' \subseteq Reqs /\ cancelled' \subseteq Reqs
         /\ pri' \in [Reqs -> Pri]
         /\ live' = live \ {cur} /\ cur \in live
         /\ Placed' /\ Ordered'
<1>1. /\ live' \subseteq Reqs /\ cancelled' \subseteq Reqs
      /\ live' = live \ {cur}
  BY DEF Destroy, IInv, TypeOK
<1>2. pri' \in [Reqs -> Pri]
  BY PriFacts DEF Destroy, IInv, TypeOK
<1>3. cur \in live
  BY DEF IInv, Placed
<1>4. Queued' = Queued /\ Finished' = Finished /\ Held' = Held
  BY DEF Queued, Finished, Held
<1>5. Ordered'
  BY DEF IInv, Ordered
<1>6. None \notin Queued \union Held \union Finished
  BY NoneFacts, ElemsType DEF IInv, TypeOK, Queued, Finished, Held
<1>7. Placed'
  BY <1>1, <1>4, <1>5, <1>6, NoneFacts DEF IInv, Placed, Ordered, QueueOK
<1> QED BY <1>1, <1>2, <1>3, <1>5, <1>7

LEMMA ReturnStep ==
  ASSUME TypeOK, pc' = caller, ret' = ret, pollres' \in Int, maxreqs' = 0
  PROVE  /\ pc' \in ClientPc /\ ret' \in Client \union {"poll_shift", "w_select"}
         /\ maxreqs' \in UInt /\ pollres' \in Int
         /\ pc' \in {"idle", "wait"}
<1>2. caller \in {"idle", "wait"} /\ ret \in Client \union {"poll_shift", "w_select"}
  BY DEF TypeOK
<1>3. 0 \in UInt
  BY PoolAssumption DEF UInt
<1> QED BY <1>2, <1>3 DEF ClientPc, Client, WaitPc

LEMMA PollNextStep ==
  ASSUME TypeOK, PollNext
  PROVE  /\ pc' \in ClientPc /\ ret' \in Client \union {"poll_shift", "w_select"}
         /\ maxreqs' \in UInt /\ pollres' \in Int
         /\ \/ pc' \in {"idle", "wait"}
            \/ pc' = "ms_wanted" /\ ret' = "poll_shift"
<1>1. CASE Return(-1)
  <2>1. -1 \in Int
    OBVIOUS
  <2>2. pc' = caller /\ ret' = ret /\ pollres' \in Int /\ maxreqs' = 0
    BY <1>1, <2>1 DEF Return
  <2> QED BY <2>2, ReturnStep
<1>2. CASE ~Return(-1)
  <2>1. /\ pc' = "ms_wanted" /\ ret' = "poll_shift" /\ pollres' = pollres
        /\ maxreqs' = IF maxreqs = 0 THEN 0 ELSE maxreqs - 1
    BY <1>2 DEF PollNext
  <2>2. maxreqs' \in UInt
    BY <2>1, PoolAssumption DEF TypeOK, UInt
  <2> QED BY <2>1, <2>2 DEF TypeOK, ClientPc, MsPc
<1> QED BY <1>1, <1>2

LEMMA PollCountInv ==
  ASSUME IInv, PollCount
  PROVE  IInv'
<1> USE DEF queues, pool, settings, threads
<1>1. /\ cur \in Reqs /\ pc = "poll_count" /\ nreqs' = Dec(nreqs)
      /\ UNCHANGED <<req_queue, res_queue, wreq, npending, pipe>>
  BY NoneFacts DEF PollCount, IInv, Control, TypeOK
<1>2. cur \in live
  BY <1>1 DEF IInv, Placed
(* Whatever happens to the request, nreqs has lost exactly it. *)
<1>3. nreqs' = Cardinality(live \ {cur}) /\ nreqs' \in UInt
  <2>1. /\ IsFiniteSet(live) /\ Cardinality(live \ {cur}) \in Nat
        /\ nreqs \in UInt /\ nreqs = Cardinality(live)
    BY <1>1, ReqsBound DEF IInv, TypeOK, Tally, Counted
  <2>2. Cardinality(live \ {cur}) = Cardinality(live) - 1
    BY <1>2, <2>1, FS_RemoveElement
  <2>3. nreqs # 0
    BY <2>1, <2>2
  <2> QED BY <1>1, <2>1, <2>2, <2>3, IncDec
<1>4. CASE ~EIO_CANCELLED(cur)
  <2>1. pc' = "callback" /\ cur' = cur /\ UNCHANGED <<ret, maxreqs, pollres, requests>>
    BY <1>4 DEF PollCount
  <2>2. TypeOK'
    BY <1>3, <2>1 DEF PollCount, IInv, TypeOK, ClientPc, Client, requests
  <2>3. Control'
    BY <1>1, <2>1, Points, NoneFacts DEF PollCount, IInv, Control
  <2>4. Placed' /\ Ordered'
    BY <1>1, <2>1, PlacedFrame DEF IInv, PlaceVars, requests
  <2>5. Tally'
    BY <1>1, <1>3, <2>1 DEF IInv, Tally, Counted, requests
  <2> QED BY <2>2, <2>3, <2>4, <2>5 DEF IInv
<1>5. CASE EIO_CANCELLED(cur)
  <2>1. Destroy({cur}) /\ cur' = None /\ PollNext
    BY <1>5 DEF PollCount
  <2>2. TypeOK'
    BY <1>1, <1>3, <2>1, DestroyCur, PollNextStep DEF PollCount, IInv, TypeOK
  <2>3. Control'
    BY <1>1, <2>1, PollNextStep, Points DEF PollCount, IInv, Control
  <2>4. Placed' /\ Ordered'
    BY <1>1, <2>1, DestroyCur
  <2>5. Tally'
    <3>1. pc' # "poll_count"
      BY <2>1, PollNextStep DEF IInv
    <3>2. Counted' = live \ {cur}
      BY <1>1, <2>1, <3>1, DestroyCur, NoneFacts DEF Counted
    <3> QED BY <1>1, <1>3, <3>2 DEF IInv, Tally
  <2> QED BY <2>2, <2>3, <2>4, <2>5 DEF IInv
<1> QED BY <1>4, <1>5

LEMMA CallbackReturnInv ==
  ASSUME IInv, NEW res \in CbResults, CallbackReturn(res)
  PROVE  IInv'
<1> USE DEF queues, counters, pool, settings, threads
<1>1. /\ cur \in Reqs /\ pc = "callback" /\ Destroy({cur}) /\ cur' = None
      /\ UNCHANGED <<req_queue, res_queue, wreq, npending, pipe, nreqs>>
  BY NoneFacts DEF CallbackReturn, IInv, Control, TypeOK
<1>2. /\ pc' \in ClientPc /\ ret' \in Client \union {"poll_shift", "w_select"}
      /\ maxreqs' \in UInt /\ pollres' \in Int
      /\ \/ pc' \in {"idle", "wait"}
         \/ pc' = "ms_wanted" /\ ret' = "poll_shift"
  <2>1. CASE res # 0
    <3>1. Return(res) /\ res \in Int
      BY <2>1, PoolAssumption DEF CallbackReturn
    <3>2. pc' = caller /\ ret' = ret /\ pollres' \in Int /\ maxreqs' = 0
      BY <3>1 DEF Return
    <3>3. TypeOK
      BY DEF IInv
    <3> QED BY <3>2, <3>3, ReturnStep
  <2>2. CASE res = 0
    BY <2>2, PollNextStep DEF CallbackReturn, IInv
  <2> QED BY <2>1, <2>2
<1>3. TypeOK'
  BY <1>1, <1>2, DestroyCur DEF CallbackReturn, IInv, TypeOK
<1>4. Control'
  BY <1>1, <1>2, Points DEF CallbackReturn, IInv, Control
<1>5. Placed' /\ Ordered'
  BY <1>1, DestroyCur
<1>6. Tally'
  <2>1. Counted' = live \ {cur}
    BY <1>1, <1>2, DestroyCur, NoneFacts DEF Counted
  <2> QED BY <1>1, <2>1 DEF IInv, Tally, Counted
<1> QED BY <1>3, <1>4, <1>5, <1>6 DEF IInv

(* The child of a fork keeps the request being called back, and no other.  *)
LEMMA ForkChildInv ==
  ASSUME IInv, ForkChild
  PROVE  IInv'
<1> USE DEF settings, client
<1>1. /\ EmptyQueue \in Queues(Reqs \union Quits) /\ EmptyQueue \in Queues(Reqs)
      /\ Elems(EmptyQueue) = {} /\ QueueOK(EmptyQueue) /\ EmptyQueue.size = 0
  BY EmptyQueueOK DEF EmptyQueue
<1>2. /\ Queued' = {} /\ Finished' = {} /\ Held' = {}
      /\ cur' = cur /\ pc' = pc /\ ret' = ret
  BY <1>1 DEF ForkChild, Queued, Finished, Held
<1>3. live' = Reqs \intersect {cur}
  BY DEF ForkChild, Destroy, IInv, Placed
<1>4. TypeOK'
  <2>1. 0 \in UInt
    BY PoolAssumption DEF UInt
  <2>2. pri' \in [Reqs -> Pri]
    BY PriFacts DEF ForkChild, Destroy, IInv, TypeOK
  <2>3. live' \subseteq Reqs /\ cancelled' \subseteq Reqs
    BY DEF ForkChild, Destroy, IInv, TypeOK
  <2>4. wpc' \in [Workers -> WorkerPc] /\ wreq' \in [Workers -> Reqs \union Quits \union {None}]
    BY DEF ForkChild, WorkerPc
  <2> QED BY <1>1, <2>1, <2>2, <2>3, <2>4 DEF ForkChild, IInv, TypeOK
<1>5. Control'
  BY <1>2, Points DEF ForkChild, IInv, Control
<1>6. Ordered'
  BY <1>1 DEF ForkChild, Ordered
<1>7. Placed'
  BY <1>1, <1>2, <1>3, NoneFacts DEF ForkChild, Placed, QueueOK
<1>8. Tally'
  <2>1. Counted' = {}
    BY <1>2, <1>3, Points DEF Counted, ForkChild
  <2> QED BY <1>1, <2>1, FS_EmptySet DEF ForkChild, Tally
<1> QED BY <1>4, <1>5, <1>6, <1>7, <1>8 DEF IInv

-----------------------------------------------------------------------------
(* The steps of a worker. *)

(* What remains to be shown of a step of one worker that leaves the client *)
(* and the live requests alone.                                            *)
ClientVars == <<nreqs, pc, ret, caller, maxreqs, cur, seen, pollres, live, pri, cancelled>>

LEMMA WorkerControl ==
  ASSUME Control, NEW w \in Workers, UNCHANGED <<pc, ret, cur>>,
         \A v \in Workers : v # w => wpc'[v] = wpc[v] /\ wreq'[v] = wreq[v],
         wpc'[w] \in {"exec", "post"} => wreq'[w] \in Reqs,
         wpc'[w] = "picked" => wreq'[w] \in Reqs \union Quits,
         wpc'[w] = "quit" => wreq'[w] \notin Reqs,
         wpc'[w] \notin {"picked", "exec", "post", "quit"} => wreq'[w] = None
  PROVE  Control'
BY DEF Control

LEMMA TakeInv ==
  ASSUME IInv, NEW w \in Workers, Take(w)
  PROVE  IInv'
<1> USE DEF settings, client, requests
<1>1. /\ wreq[w] = None /\ wpc \in [Workers -> WorkerPc]
      /\ wreq \in [Workers -> Reqs \union Quits \union {None}]
  BY DEF Take, IInv, Control, TypeOK
<1>2. IdleOthers(w) \in UInt /\ Inc(IdleOthers(w)) \in UInt /\ Dec(nready) \in UInt
  <2>1. IdleOthers(w) \in UInt
    BY IncDec DEF IdleOthers, IInv, TypeOK
  <2> QED BY <2>1, IncDec DEF IInv, TypeOK
<1>3. CASE req_queue.size = 0
  <2>1. /\ wpc' = [wpc EXCEPT ![w] = "timed"] /\ idle' = Inc(IdleOthers(w))
        /\ UNCHANGED <<req_queue, nready, wreq>>
    BY <1>3 DEF Take
  <2>2. TypeOK'
    BY <1>2, <2>1 DEF Take, IInv, TypeOK, WorkerPc
  <2>3. Control'
    BY <1>1, <2>1, WorkerControl DEF Take, IInv
  <2>4. Placed' /\ Ordered'
    BY <2>1, PlacedFrame DEF Take, IInv, PlaceVars
  <2>5. Tally'
    BY DEF Take, IInv, Tally, Counted
  <2> QED BY <2>2, <2>3, <2>4, <2>5 DEF IInv
<1>4. CASE req_queue.size # 0
  <2> DEFINE r == First(req_queue)
  <2>1. /\ wpc' = [wpc EXCEPT ![w] = "picked"] /\ idle' = IdleOthers(w)
        /\ nready' = Dec(nready)
        /\ req_queue' = Shift(req_queue) /\ wreq' = [wreq EXCEPT ![w] = r]
    BY <1>4 DEF Take
  <2>2. /\ r \in Queued /\ r \in Reqs \union Quits
        /\ req_queue' \in Queues(Reqs \union Quits)
        /\ Queued' = Queued \ {r}
        /\ QueueOK(req_queue')
    BY <1>4, <2>1, ShiftQueue DEF IInv, TypeOK, Ordered, Queued
  <2> HIDE DEF r
  <2>3. TypeOK'
    BY <1>2, <2>1, <2>2 DEF Take, IInv, TypeOK, WorkerPc
  <2>4. /\ wreq'[w] = r /\ wpc'[w] = "picked"
        /\ \A v \in Workers : v # w => wpc'[v] = wpc[v] /\ wreq'[v] = wreq[v]
    BY <1>1, <2>1
  <2>5. Control'
    BY <2>2, <2>4, WorkerControl DEF Take, IInv
  <2>6. Ordered'
    BY <2>2 DEF Take, IInv, Ordered
  <2>7. Placed'
    <3>1. Held' = Held \union {r}
      BY <1>1, <2>2, <2>4, NoneFacts DEF Held
    <3>2. Finished' = Finished /\ cur' = cur /\ live' = live
      BY DEF Take, Finished
    <3>3. r \notin Held /\ r \notin Finished /\ r # cur
      BY <2>2 DEF IInv, Placed
    <3>4. \A u, v \in Workers : u # v /\ wreq'[u] # None => wreq'[u] # wreq'[v]
      <4>1. \A v \in Workers : wreq[v] # None => wreq[v] # r
        BY <3>3 DEF Held
      <4> QED BY <2>2, <2>4, <4>1, NoneFacts DEF IInv, Placed
    <3> QED BY <2>2, <2>6, <3>1, <3>2, <3>3, <3>4 DEF Placed, IInv, Ordered, QueueOK
  <2>8. Tally'
    BY DEF Take, IInv, Tally, Counted
  <2> QED BY <2>3, <2>5, <2>6, <2>7, <2>8 DEF IInv
<1> QED BY <1>3, <1>4

(* The steps of a worker that only move it. *)
LEMMA WorkerMovesInv ==
  ASSUME IInv, NEW w \in Workers,
         Expire(w) \/ HandleTimeout(w) \/ Spurious(w) \/ Leave(w) \/ Begin(w) \/ Execute(w)
  PROVE  IInv'
<1> USE DEF Expire, HandleTimeout, Spurious, Leave, Begin, Execute, WorkerStep,
            queues, counters, pool, settings, client, requests
<1>1. Dec(idle) \in UInt /\ Dec(started) \in UInt
  BY IncDec DEF IInv, TypeOK
<1>2. UNCHANGED <<req_queue, res_queue, nreqs, nready, npending, wanted, max_idle,
                  max_poll_reqs, pipe, wreq, pc, ret, caller, maxreqs, cur, seen,
                  pollres, live, pri, cancelled>>
  OBVIOUS
<1>3. /\ idle' \in UInt /\ started' \in UInt
  BY <1>1 DEF IInv, TypeOK
<1>4. \E t \in WorkerPc : wpc' = [wpc EXCEPT ![w] = t]
  BY DEF WorkerPc
<1>5. wpc' \in [Workers -> WorkerPc]
  BY <1>4 DEF IInv, TypeOK
<1>6. TypeOK'
  BY <1>2, <1>3, <1>5 DEF IInv, TypeOK
<1>7. Control'
  <2>1. wpc \in [Workers -> WorkerPc]
    BY DEF IInv, TypeOK
  <2>2. \A v \in Workers : v # w => wpc'[v] = wpc[v] /\ wreq'[v] = wreq[v]
    BY <1>2, <1>4, <2>1
  <2>3. \/ wpc[w] \in {"timed", "untimed", "expired"}
           /\ wpc'[w] \in {"expired", "untimed", "woken", "leaving"}
        \/ wpc[w] = "leaving" /\ wpc'[w] = "quit"
        \/ wpc[w] = "picked" /\ wreq[w] \in Quits /\ wpc'[w] = "quit"
        \/ wpc[w] = "picked" /\ wreq[w] \in Reqs /\ wpc'[w] \in {"exec", "post"}
        \/ wpc[w] = "exec" /\ wpc'[w] = "post"
    BY <2>1 DEF Waiting
  <2>4. /\ wpc'[w] \in {"exec", "post"} => wreq'[w] \in Reqs
        /\ wpc'[w] = "picked" => wreq'[w] \in Reqs \union Quits
        /\ wpc'[w] = "quit" => wreq'[w] \notin Reqs
        /\ wpc'[w] \notin {"picked", "exec", "post", "quit"} => wreq'[w] = None
    BY <1>2, <2>3, NoneFacts DEF IInv, Control
  <2> QED BY <1>2, <2>2, <2>4, WorkerControl DEF IInv
<1>8. Placed' /\ Ordered'
  BY <1>2, PlacedFrame DEF IInv, PlaceVars
<1>9. Tally'
  BY <1>2 DEF IInv, Tally, Counted
<1> QED BY <1>6, <1>7, <1>8, <1>9 DEF IInv

LEMMA PostInv ==
  ASSUME IInv, NEW w \in Workers, Post(w)
  PROVE  IInv'
<1> USE DEF pool, settings, client, requests
<1> DEFINE r == wreq[w]
<1>1. /\ wpc[w] = "post" /\ wpc' = [wpc EXCEPT ![w] = "top"]
      /\ wreq' = [wreq EXCEPT ![w] = None] /\ npending' = Inc(npending)
      /\ res_queue' = Push(res_queue, r, pri[r])
      /\ pipe' = IF res_queue.size = 0 THEN pipe + 1 ELSE pipe
  BY DEF Post, WorkerStep, Release, WantPoll
<1>2. /\ r \in Reqs /\ r \in Held /\ pri[r] \in Pri
      /\ wpc \in [Workers -> WorkerPc]
      /\ wreq \in [Workers -> Reqs \union Quits \union {None}]
  BY <1>1, NoneFacts DEF IInv, Control, TypeOK, Held
<1> HIDE DEF r
<1>3. r \notin Queued /\ r \notin Finished /\ r # cur /\ r # None
  BY <1>2, NoneFacts DEF IInv, Placed
<1>4. /\ res_queue' \in Queues(Reqs)
      /\ Finished' = Finished \union {r}
      /\ res_queue'.size = res_queue.size + 1
      /\ QueueOK(res_queue')
  BY <1>1, <1>2, <1>3, PushQueue DEF IInv, TypeOK, Ordered, Finished
<1>5. /\ wreq'[w] = None /\ wpc'[w] = "top"
      /\ \A v \in Workers : v # w => wpc'[v] = wpc[v] /\ wreq'[v] = wreq[v]
  BY <1>1, <1>2
<1>6. npending' = res_queue'.size /\ npending' \in UInt
  <2>1. res_queue.size + 1 < Word /\ res_queue.size + 1 \in Nat
    <3>1. Finished' \subseteq Reqs
      BY <1>4, ElemsType DEF Finished
    <3>2. Cardinality(Finished') = res_queue'.size
      BY <1>4 DEF QueueOK, Finished
    <3> QED BY <1>4, <3>1, <3>2, ReqsBound
  <2>2. npending \in UInt /\ npending = res_queue.size
    BY DEF IInv, TypeOK, Tally
  <2> QED BY <1>1, <1>4, <2>1, <2>2, IncDec
<1>7. pipe' = (IF res_queue'.size > 0 THEN 1 ELSE 0)
  <2>1. res_queue.size \in Nat
    BY DEF IInv, TypeOK, Queues
  <2> QED BY <1>1, <1>4, <2>1 DEF IInv, Tally
<1>8. TypeOK'
  <2>1. wpc' \in [Workers -> WorkerPc]
    BY <1>1, <1>2 DEF WorkerPc
  <2>2. wreq' \in [Workers -> Reqs \union Quits \union {None}] /\ pipe' \in Nat
    BY <1>1, <1>2, <1>7
  <2> QED BY <1>4, <1>6, <2>1, <2>2 DEF Post, IInv, TypeOK
<1>9. Control'
  BY <1>5, WorkerControl DEF Post, IInv
<1>10. Ordered'
  BY <1>4 DEF Post, IInv, Ordered
<1>11. Placed'
  <2>1. \A v \in Workers : v # w /\ wreq[v] # None => wreq[v] # r
    BY <1>2 DEF IInv, Placed, r
  <2>2. Held' = Held \ {r}
    BY <1>2, <1>3, <1>5, <2>1 DEF Held, r
  <2>3. Queued' = Queued /\ cur' = cur /\ live' = live
    BY DEF Post, Queued
  <2>4. \A u, v \in Workers : u # v /\ wreq'[u] # None => wreq'[u] # wreq'[v]
    BY <1>5 DEF IInv, Placed
  <2> QED BY <1>2, <1>3, <1>4, <1>10, <2>2, <2>3, <2>4 DEF Placed, IInv, Ordered, QueueOK
<1>12. Tally'
  BY <1>6, <1>7 DEF Post, IInv, Tally, Counted
<1> QED BY <1>8, <1>9, <1>10, <1>11, <1>12 DEF IInv

LEMMA QuitInv ==
  ASSUME IInv, NEW w \in Workers, Quit(w)
  PROVE  IInv'
<1> USE DEF queues, counters, pool, settings, client, requests
<1>1. /\ wpc[w] = "quit" /\ wpc' = [wpc EXCEPT ![w] = "none"]
      /\ wreq' = [wreq EXCEPT ![w] = None]
  BY DEF Quit, WorkerStep, Release
<1>2. /\ wreq[w] \notin Reqs /\ wpc \in [Workers -> WorkerPc]
      /\ wreq \in [Workers -> Reqs \union Quits \union {None}]
  BY <1>1 DEF IInv, Control, TypeOK
<1>3. /\ wreq'[w] = None /\ wpc'[w] = "none"
      /\ \A v \in Workers : v # w => wpc'[v] = wpc[v] /\ wreq'[v] = wreq[v]
  BY <1>1, <1>2
<1>4. TypeOK'
  BY <1>1, <1>2 DEF Quit, IInv, TypeOK, WorkerPc
<1>5. Control'
  BY <1>3, WorkerControl DEF Quit, IInv
<1>6. Ordered'
  BY DEF Quit, IInv, Ordered
<1>7. Placed'
  <2>1. Held' \subseteq Held /\ Reqs \intersect Held' = Reqs \intersect Held
    BY <1>2, <1>3, NoneFacts DEF Held
  <2>2. Queued' = Queued /\ Finished' = Finished /\ cur' = cur /\ live' = live
    BY DEF Quit, Queued, Finished
  <2>3. \A u, v \in Workers : u # v /\ wreq'[u] # None => wreq'[u] # wreq'[v]
    BY <1>3 DEF IInv, Placed
  <2> QED BY <1>6, <2>1, <2>2, <2>3 DEF Placed, IInv, Ordered, QueueOK
<1>8. Tally'
  BY DEF Quit, IInv, Tally, Counted
<1> QED BY <1>4, <1>5, <1>6, <1>7, <1>8 DEF IInv

LEMMA StutterInv == IInv /\ UNCHANGED vars => IInv'
BY DEF IInv, vars, queues, counters, pool, settings, threads, client, requests,
       TypeOK, Control, Ordered, Placed, Tally, Counted, Queued, Finished, Held

-----------------------------------------------------------------------------
(* The steps EtpPool shares with the modules that extend it preserve the   *)
(* invariant.                                                              *)
LEMMA SharedInv ==
  ASSUME IInv, Shared
  PROVE  IInv'
<1>1. CASE ClientCall
  BY <1>1, SubmitInv, CancelInv, SetInv, SetMaxParallelInv DEF ClientCall
<1>2. CASE ClientStep
  <2>1. CASE PollShift
    BY <2>1, PollEmptyInv, PollTakesInv
  <2> QED BY <1>2, <2>1, ShrinkInv, EndThreadPushInv, EndThreadCountInv, MaybeStartInv,
             StartThreadInv, PollCountInv DEF ClientStep
<1>3. CASE Returns
  BY <1>3, CallbackReturnInv DEF Returns
<1>4. CASE ForkChild
  BY <1>4, ForkChildInv
<1>5. ASSUME NEW w \in Workers, WorkerNext(w) \/ Expire(w) \/ Spurious(w)
      PROVE  IInv'
  BY <1>5, TakeInv, WorkerMovesInv, PostInv, QuitInv DEF WorkerNext
<1> QED BY <1>1, <1>2, <1>3, <1>4, <1>5 DEF Shared

LEMMA NextInv == IInv /\ [Next]_vars => IInv'
BY SharedInv, PollBeginInv, StutterInv DEF Next

(* The invariant holds in every behaviour of the pool. *)
THEOREM Invariance == Spec => []IInv
<1>1. Init => IInv
  BY InitInv
<1>2. IInv /\ [Next]_vars => IInv'
  BY NextInv
<1> QED BY <1>1, <1>2, PTL DEF Spec

(* Every variable has its type; no counter leaves the width of its type.   *)
THEOREM TypeCorrect == Spec => []TypeOK
<1>1. IInv => TypeOK
  BY DEF IInv
<1> QED BY <1>1, Invariance, PTL

(* However submissions, workers, polls, cancellations, forks and resizes   *)
(* interleave, a submitted request is in one place until it is destroyed:  *)
(* none is lost, executed or finished twice, or touched after its free.    *)
THEOREM PlacedAlways == Spec => []Placed
<1>1. IInv => Placed
  BY DEF IInv
<1> QED BY <1>1, Invariance, PTL

(* nreqs, npending and the two sizes count what there is. *)
THEOREM CountsAlways == Spec => []Counts
<1>1. IInv => Counts
  BY DEF IInv, Tally, Counted, Counts, Ordered, QueueOK, Queued, Finished
<1> QED BY <1>1, Invariance, PTL

(* The pipe is readable exactly while res_queue holds something, so that   *)
(* done_poll never blocks.                                                 *)
THEOREM PipeMirrors == Spec => []PipeMirrorsResults
<1>1. IInv => PipeMirrorsResults
  BY DEF IInv, Tally, PipeMirrorsResults
<1> QED BY <1>1, Invariance, PTL

-----------------------------------------------------------------------------
(* The ledgers: idle counts the threads that wait or are about to stop     *)
(* waiting, started the ones that take requests, and no more than max_idle *)
(* threads come to wait for ever.                                          *)
Idlers == {w \in Workers : wpc[w] \in {"timed", "expired", "untimed", "woken"}}
Picked == {w \in Workers : wpc[w] = "picked"}

(* What started is, but for the width of the counter. *)
Due == Cardinality(Running) - Cardinality(Ending) + (IF pc = "end_dec" THEN 1 ELSE 0)

-----------------------------------------------------------------------------
LEMMA WorkersBound ==
  ASSUME NEW W \in SUBSET Workers
  PROVE  IsFiniteSet(W) /\ Cardinality(W) \in Nat /\ Cardinality(W) < Word
BY ThreadsAssumption, PoolAssumption, FS_Subset, FS_CardinalityType

LEMMA DueType ==
  /\ IsFiniteSet(Running) /\ IsFiniteSet(Ending)
  /\ Cardinality(Running) \in Nat /\ Cardinality(Ending) \in Nat /\ Due \in Int
<1>1. IsFiniteSet(Running) /\ Cardinality(Running) \in Nat
  BY WorkersBound DEF Running
<1>2. IsFiniteSet(Ending) /\ Cardinality(Ending) \in Nat
  BY ThreadsAssumption, FS_Subset, FS_CardinalityType DEF Ending
<1> QED BY <1>1, <1>2 DEF Due

(* Counting modulo the width of the counter. *)
LEMMA ModUnique ==
  ASSUME NEW x \in Int, NEW q \in Int, NEW y \in 0..Word-1, x = q * Word + y
  PROVE  x % Word = y
<1> DEFINE z == x % Word
           k == x \div Word
           d == q - k
<1>1. z \in 0..Word-1 /\ k \in Int /\ x = k * Word + z
  BY PoolAssumption, SMTT(60)
<1> HIDE DEF z, k
<1>2. d \in Int /\ d * Word = z - y
  BY <1>1, PoolAssumption
<1>3. Word \in Int /\ z - y < Word /\ y - z < Word
  BY <1>1, PoolAssumption
<1> HIDE DEF d
<1>4. d < 1
  <2>1. d >= 1 => d * Word >= Word
    BY <1>2, PoolAssumption
  <2> QED BY <1>1, <1>2, <1>3, <2>1
<1>5. d > -1
  <2>1. d <= -1 => d * Word <= -Word
    BY <1>2, PoolAssumption
  <2> QED BY <1>1, <1>2, <1>3, <2>1
<1>6. d = 0
  BY <1>2, <1>4, <1>5
<1>7. z = y
  BY <1>1, <1>2, <1>3, <1>6
<1> QED BY <1>7 DEF z

LEMMA IncDecMod ==
  ASSUME NEW x \in Int
  PROVE  Inc(x % Word) = (x + 1) % Word /\ Dec(x % Word) = (x - 1) % Word
<1> DEFINE y == x % Word
           q == x \div Word
<1>1. y \in 0..Word-1 /\ q \in Int /\ x = q * Word + y
  BY PoolAssumption, SMTT(60)
<1> HIDE DEF y, q
<1>2. Inc(y) = (x + 1) % Word
  <2>1. CASE y = Word - 1
    <3>1. x + 1 = (q + 1) * Word + 0
      BY <1>1, <2>1, PoolAssumption
    <3>2. (x + 1) % Word = 0
      <4>1. x + 1 \in Int /\ q + 1 \in Int /\ 0 \in 0..Word-1
        BY <1>1, PoolAssumption
      <4> QED BY <3>1, <4>1, ModUnique
    <3> QED BY <2>1, <3>2 DEF Inc
  <2>2. CASE y # Word - 1
    <3>1. x + 1 = q * Word + (y + 1) /\ y + 1 \in 0..Word-1
      BY <1>1, <2>2, PoolAssumption
    <3>2. (x + 1) % Word = y + 1
      <4>1. x + 1 \in Int
        OBVIOUS
      <4> QED BY <1>1, <3>1, <4>1, ModUnique
    <3> QED BY <2>2, <3>2 DEF Inc
  <2> QED BY <2>1, <2>2
<1>3. Dec(y) = (x - 1) % Word
  <2>1. CASE y = 0
    <3>1. x - 1 = (q - 1) * Word + (Word - 1)
      BY <1>1, <2>1, PoolAssumption
    <3>2. (x - 1) % Word = Word - 1
      <4>1. x - 1 \in Int /\ q - 1 \in Int /\ Word - 1 \in 0..Word-1
        BY <1>1, PoolAssumption
      <4> QED BY <3>1, <4>1, ModUnique
    <3> QED BY <2>1, <3>2 DEF Dec
  <2>2. CASE y # 0
    <3>1. x - 1 = q * Word + (y - 1) /\ y - 1 \in 0..Word-1
      BY <1>1, <2>2, PoolAssumption
    <3>2. (x - 1) % Word = y - 1
      <4>1. x - 1 \in Int
        OBVIOUS
      <4> QED BY <1>1, <3>1, <4>1, ModUnique
    <3> QED BY <2>2, <3>2 DEF Dec
  <2> QED BY <2>1, <2>2
<1> QED BY <1>2, <1>3 DEF y

(* The ledger balances if what happens to started happens to what is due.  *)
LEMMA Balance ==
  ASSUME ThreadLedger,
         \/ started' = started /\ Due' = Due
         \/ started' = Inc(started) /\ Due' = Due + 1
         \/ started' = Dec(started) /\ Due' = Due - 1
  PROVE  ThreadLedger'
<1>1. started = Due % Word /\ Due \in Int
  BY DueType DEF ThreadLedger, Due
<1>2. started' = Due' % Word
  BY <1>1, IncDecMod
<1> QED BY <1>2 DEF ThreadLedger, Due

-----------------------------------------------------------------------------
(* How a thread that moves changes the sets that are counted. *)
LEMMA Moves ==
  ASSUME TypeOK, NEW w \in Workers, NEW to, wpc' = [wpc EXCEPT ![w] = to]
  PROVE  /\ Idlers' = IF to \in {"timed", "expired", "untimed", "woken"}
                        THEN Idlers \union {w} ELSE Idlers \ {w}
         /\ Running' = IF to \in {"none", "quit"} THEN Running \ {w} ELSE Running \union {w}
         /\ Picked' = IF to = "picked" THEN Picked \union {w} ELSE Picked \ {w}
<1>1. wpc'[w] = to /\ \A v \in Workers : v # w => wpc'[v] = wpc[v]
  BY DEF TypeOK
<1>2. Idlers' = IF to \in {"timed", "expired", "untimed", "woken"}
                  THEN Idlers \union {w} ELSE Idlers \ {w}
  BY <1>1 DEF Idlers
<1>3. Running' = IF to \in {"none", "quit"} THEN Running \ {w} ELSE Running \union {w}
  BY <1>1 DEF Running
<1>4. Picked' = IF to = "picked" THEN Picked \union {w} ELSE Picked \ {w}
  BY <1>1 DEF Picked
<1> QED BY <1>2, <1>3, <1>4

(* A signal moves no thread from one set into another. *)
LEMMA SignalSets ==
  ASSUME TypeOK, Signal
  PROVE  Idlers' = Idlers /\ Running' = Running /\ Picked' = Picked
<1>1. CASE Waiting = {}
  BY <1>1 DEF Signal, Idlers, Running, Picked
<1>2. CASE Waiting # {}
  <2>1. PICK w \in Waiting : wpc' = [wpc EXCEPT ![w] = "woken"]
    BY <1>2 DEF Signal
  <2>2. w \in Workers /\ w \in Idlers /\ w \in Running /\ w \notin Picked
    BY DEF Waiting, Idlers, Running, Picked
  <2>3. /\ Idlers' = Idlers \union {w} /\ Running' = Running \union {w}
        /\ Picked' = Picked \ {w}
    BY <2>1, <2>2, Moves
  <2> QED BY <2>2, <2>3
<1> QED BY <1>1, <1>2

LEMMA EndingDef == Ending = Quits \intersect (Queued \union {wreq[w] : w \in Picked})
BY DEF Ending, Picked

LEMMA EndingFrame ==
  ASSUME req_queue' = req_queue, Picked' = Picked,
         \A w \in Picked : wreq'[w] = wreq[w]
  PROVE  Ending' = Ending
<1>1. {wreq'[w] : w \in Picked'} = {wreq[w] : w \in Picked}
  OBVIOUS
<1>2. Queued' = Queued
  BY DEF Queued
<1>3. Ending' = Quits \intersect (Queued' \union {wreq'[w] : w \in Picked'})
  BY DEF Ending, Picked
<1> QED BY <1>1, <1>2, <1>3, EndingDef

(* Steps of the client that neither queue a request nor move a thread. *)
Quiet == \/ \E r \in Reqs : Cancel(r)
         \/ Set \/ SetMaxParallel \/ Shrink
         \/ MaybeStartWanted \/ MaybeStartCount \/ MaybeStartDecide
         \/ PollShift \/ PollCount \/ Returns \/ PollBegin("idle")

LEMMA QuietStep ==
  ASSUME IInv, Quiet
  PROVE  /\ UNCHANGED <<req_queue, wpc, wreq, idle, started>>
         /\ pc # "end_dec" /\ pc' # "end_dec"
<1> USE DEF queues, counters, pool, settings, threads, client, requests
<1>0. /\ ret \in Client \union {"poll_shift", "w_select"} /\ caller \in {"idle", "wait"}
      /\ Client = {"idle", "callback"}
  BY DEF IInv, TypeOK, Client
<1>1. CASE \E r \in Reqs : Cancel(r)
  BY <1>0, <1>1 DEF Cancel
<1>2. CASE Set
  BY <1>0, <1>2 DEF Set
<1>3. CASE SetMaxParallel \/ Shrink
  BY <1>0, <1>3 DEF SetMaxParallel, Shrink
<1>4. CASE MaybeStartWanted \/ MaybeStartCount \/ MaybeStartDecide
  BY <1>0, <1>4 DEF MaybeStartWanted, MaybeStartCount, MaybeStartDecide
<1>5. CASE PollShift
  BY <1>0, <1>5 DEF PollShift, Return
<1>6. CASE PollCount
  BY <1>0, <1>6 DEF PollCount, PollNext, Return
<1>7. CASE Returns
  BY <1>0, <1>7 DEF Returns, CallbackReturn, PollNext, Return
<1>8. CASE PollBegin("idle")
  BY <1>8 DEF PollBegin
<1> QED BY <1>1, <1>2, <1>3, <1>4, <1>5, <1>6, <1>7, <1>8 DEF Quiet

LEMMA NextCases ==
  ASSUME Next
  PROVE  \/ Quiet \/ \E r \in Reqs, p \in PriIn : Submit(r, p)
         \/ EndThreadPush \/ EndThreadCount \/ StartThread \/ ForkChild
         \/ \E w \in Workers : \/ Take(w) \/ Expire(w) \/ Spurious(w) \/ HandleTimeout(w)
                               \/ Leave(w) \/ Begin(w) \/ Execute(w) \/ Post(w) \/ Quit(w)
BY DEF Next, Shared, ClientCall, ClientStep, WorkerNext, Quiet

-----------------------------------------------------------------------------
(* idle *)

LEMMA TakeIdle ==
  ASSUME IInv, IdleLedger, NEW w \in Workers, Take(w)
  PROVE  IdleLedger'
<1>1. TypeOK /\ wpc[w] \in {"top", "woken"}
  BY DEF IInv, Take
<1>2. /\ idle = Cardinality(Idlers) /\ IsFiniteSet(Idlers)
      /\ Cardinality(Idlers) \in Nat /\ Cardinality(Idlers) < Word
  BY WorkersBound DEF IdleLedger, Idlers
<1>3. w \in Idlers <=> wpc[w] = "woken"
  BY <1>1 DEF Idlers
(* The others that idle, and their number. *)
<1>4. /\ IdleOthers(w) = Cardinality(Idlers \ {w})
      /\ IsFiniteSet(Idlers \ {w}) /\ Cardinality(Idlers \ {w}) \in Nat
  <2>1. IsFiniteSet(Idlers \ {w}) /\ Cardinality(Idlers \ {w}) \in Nat
    BY WorkersBound DEF Idlers
  <2>2. CASE wpc[w] = "woken"
    <3>1. Cardinality(Idlers \ {w}) = Cardinality(Idlers) - 1
      BY <1>2, <1>3, <2>2, FS_RemoveElement
    <3>2. idle # 0 /\ idle \in UInt
      BY <1>2, <2>1, <3>1, PoolAssumption DEF UInt
    <3> QED BY <1>2, <2>1, <2>2, <3>1, <3>2, IncDec DEF IdleOthers
  <2>3. CASE wpc[w] # "woken"
    <3>1. Idlers \ {w} = Idlers
      BY <1>3, <2>3
    <3> QED BY <1>2, <2>1, <2>3, <3>1 DEF IdleOthers
  <2> QED BY <2>1, <2>2, <2>3
<1>5. CASE req_queue.size # 0
  <2>1. idle' = IdleOthers(w) /\ wpc' = [wpc EXCEPT ![w] = "picked"]
    BY <1>5 DEF Take
  <2>2. Idlers' = Idlers \ {w}
    BY <1>1, <2>1, Moves
  <2> QED BY <1>4, <2>1, <2>2 DEF IdleLedger, Idlers
<1>6. CASE req_queue.size = 0
  <2>1. idle' = Inc(IdleOthers(w)) /\ wpc' = [wpc EXCEPT ![w] = "timed"]
    BY <1>6 DEF Take
  <2>2. Idlers' = (Idlers \ {w}) \union {w}
    <3>1. Idlers' = Idlers \union {w}
      BY <1>1, <2>1, Moves
    <3> QED BY <3>1
  <2>3. Cardinality(Idlers') = Cardinality(Idlers \ {w}) + 1
    BY <1>4, <2>2, FS_AddElement
  <2>4. Cardinality(Idlers') < Word
    <3>1. Idlers' \subseteq Workers
      BY <2>2 DEF Idlers
    <3> QED BY <3>1, WorkersBound
  <2>5. idle' = Cardinality(Idlers')
    <3>1. IdleOthers(w) \in UInt /\ IdleOthers(w) + 1 < Word
      BY <1>4, <2>3, <2>4, PoolAssumption DEF UInt
    <3> QED BY <1>4, <2>1, <2>3, <3>1, IncDec
  <2> QED BY <2>5 DEF IdleLedger, Idlers
<1> QED BY <1>5, <1>6

LEMMA HandleTimeoutIdle ==
  ASSUME IInv, IdleLedger, NEW w \in Workers, HandleTimeout(w)
  PROVE  IdleLedger'
<1>1. TypeOK /\ wpc[w] = "expired" /\ w \in Idlers
  BY DEF IInv, HandleTimeout, WorkerStep, Idlers
<1>2. /\ idle = Cardinality(Idlers) /\ IsFiniteSet(Idlers)
      /\ Cardinality(Idlers) \in Nat /\ Cardinality(Idlers) < Word
  BY WorkersBound DEF IdleLedger, Idlers
<1>3. CASE idle' = Dec(idle) /\ WorkerStep(w, "expired", "leaving")
  <2>1. Idlers' = Idlers \ {w}
    BY <1>1, <1>3, Moves DEF WorkerStep
  <2>2. Cardinality(Idlers') = Cardinality(Idlers) - 1
    BY <1>1, <1>2, <2>1, FS_RemoveElement
  <2>3. idle \in UInt /\ idle # 0
    <3>1. Cardinality(Idlers') \in Nat
      BY <2>1, WorkersBound DEF Idlers
    <3> QED BY <1>2, <2>2, <3>1, PoolAssumption DEF UInt
  <2>4. idle' = Cardinality(Idlers')
    BY <1>2, <1>3, <2>2, <2>3, IncDec
  <2> QED BY <2>4 DEF IdleLedger, Idlers
<1>4. CASE idle' = idle /\ WorkerStep(w, "expired", "untimed")
  <2>1. Idlers' = Idlers \union {w}
    BY <1>1, <1>4, Moves DEF WorkerStep
  <2>2. Idlers' = Idlers
    BY <1>1, <2>1
  <2> QED BY <1>2, <1>4, <2>2 DEF IdleLedger, Idlers
<1> QED BY <1>3, <1>4 DEF HandleTimeout

LEMMA IdleInv ==
  ASSUME IInv, IdleLedger, [Next]_vars
  PROVE  IdleLedger'
<1> USE DEF queues, counters, pool, settings, threads, client, requests
<1>0. TypeOK
  BY DEF IInv
<1>1. ASSUME idle' = idle, Idlers' = Idlers
      PROVE  IdleLedger'
  BY <1>1 DEF IdleLedger, Idlers
<1>2. CASE UNCHANGED <<wpc, idle>>
  BY <1>1, <1>2 DEF Idlers
<1>3. CASE Quiet
  BY <1>2, <1>3, QuietStep
<1>4. ASSUME NEW r \in Reqs, NEW p \in PriIn, Submit(r, p)
      PROVE  IdleLedger'
  BY <1>0, <1>1, <1>4, SignalSets DEF Submit
<1>5. CASE EndThreadPush
  BY <1>0, <1>1, <1>5, SignalSets DEF EndThreadPush
<1>6. CASE EndThreadCount
  BY <1>2, <1>6 DEF EndThreadCount
<1>7. CASE StartThread
  <2>1. CASE wpc' = wpc
    BY <1>2, <1>7, <2>1 DEF StartThread
  <2>2. ASSUME NEW w \in Workers, wpc[w] = "none", wpc' = [wpc EXCEPT ![w] = "top"]
        PROVE  IdleLedger'
    <3>1. Idlers' = Idlers \ {w} /\ w \notin Idlers
      BY <1>0, <2>2, Moves DEF Idlers
    <3> QED BY <1>1, <1>7, <3>1 DEF StartThread
  <2> QED BY <1>7, <2>1, <2>2 DEF StartThread
<1>8. CASE ForkChild
  <2>1. Idlers' = {}
    BY <1>8 DEF ForkChild, Idlers
  <2> QED BY <1>8, <2>1, FS_EmptySet DEF ForkChild, IdleLedger, Idlers
<1>9. ASSUME NEW w \in Workers,
             Expire(w) \/ Spurious(w) \/ Leave(w) \/ Begin(w) \/ Execute(w)
                       \/ Post(w) \/ Quit(w)
      PROVE  IdleLedger'
  <2>1. idle' = idle
    BY <1>9 DEF Expire, Spurious, Leave, Begin, Execute, Post, Quit
  <2>2. CASE Expire(w) \/ Spurious(w)
    <3>1. \E to \in {"expired", "woken"} : wpc' = [wpc EXCEPT ![w] = to]
      BY <2>2 DEF Expire, Spurious, WorkerStep
    <3>2. w \in Idlers
      BY <2>2 DEF Expire, Spurious, WorkerStep, Waiting, Idlers
    <3>3. Idlers' = Idlers \union {w}
      BY <1>0, <3>1, Moves
    <3> QED BY <1>1, <2>1, <3>2, <3>3
  <2>3. CASE Leave(w) \/ Begin(w) \/ Execute(w) \/ Post(w) \/ Quit(w)
    <3>1. \E to \in {"none", "top", "exec", "post", "quit"} : wpc' = [wpc EXCEPT ![w] = to]
      BY <2>3 DEF Leave, Begin, Execute, Post, Quit, WorkerStep
    <3>2. w \notin Idlers
      BY <2>3 DEF Leave, Begin, Execute, Post, Quit, WorkerStep, Idlers
    <3>3. Idlers' = Idlers \ {w}
      BY <1>0, <3>1, Moves
    <3> QED BY <1>1, <2>1, <3>2, <3>3
  <2> QED BY <1>9, <2>2, <2>3
<1>10. CASE UNCHANGED vars
  BY <1>2, <1>10 DEF vars
<1> QED BY <1>3, <1>4, <1>5, <1>6, <1>7, <1>8, <1>9, <1>10, NextCases,
           TakeIdle, HandleTimeoutIdle

-----------------------------------------------------------------------------
(* started *)

LEMMA DueFrame ==
  ASSUME Running' = Running, Ending' = Ending,
         pc = "end_dec" <=> pc' = "end_dec"
  PROVE  Due' = Due
<1>1. (IF pc = "end_dec" THEN 1 ELSE 0) = (IF pc' = "end_dec" THEN 1 ELSE 0)
  OBVIOUS
<1>2. Due' = Cardinality(Running') - Cardinality(Ending') + (IF pc' = "end_dec" THEN 1 ELSE 0)
  BY DEF Due
<1> QED BY <1>1, <1>2 DEF Due

(* Queueing an ordinary request ends no thread. *)
LEMMA SubmitDue ==
  ASSUME IInv, NEW r \in Reqs, NEW p \in PriIn, Submit(r, p)
  PROVE  Due' = Due
<1>1. r \notin Quits
  BY NoneFacts
<1>2. /\ Running' = Running /\ Picked' = Picked /\ wreq' = wreq
      /\ pc \in Client /\ pc' = "ms_wanted"
  BY SignalSets DEF Submit, IInv
<1>3. Queued' = Queued \union {r}
  <2>1. /\ req_queue \in Queues(Reqs \union Quits) /\ r \in Reqs \union Quits
        /\ SubmitPri(p) \in Pri
    <3>1. p \in Int
      BY PoolAssumption
    <3> QED BY <3>1, SubmitPriType DEF IInv, TypeOK
  <2> QED BY <2>1, PushQueue DEF Submit, Queued
<1>4. Ending' = Ending
  <2>1. Ending' = Quits \intersect (Queued' \union {wreq'[w] : w \in Picked'})
    BY DEF Ending, Picked
  <2> QED BY <1>1, <1>2, <1>3, <2>1, EndingDef
<1> QED BY <1>2, <1>4, DueFrame DEF Client

(* etp_end_thread queues a request that is on no way yet, and is about to  *)
(* count it.                                                               *)
LEMMA EndThreadPushDue ==
  ASSUME IInv, EndThreadPush
  PROVE  Due' = Due
<1>1. PICK q \in Quits \ (Queued \union Held) : req_queue' = Push(req_queue, q, TopPri)
  BY DEF EndThreadPush
<1>2. /\ Running' = Running /\ Picked' = Picked /\ wreq' = wreq
      /\ pc = "end_push" /\ pc' = "end_dec"
  BY SignalSets DEF EndThreadPush, IInv
<1>3. Queued' = Queued \union {q}
  BY <1>1, PushQueue, PriFacts DEF IInv, TypeOK, Queued
<1>4. Ending' = Ending \union {q}
  <2>1. Ending' = Quits \intersect (Queued' \union {wreq'[w] : w \in Picked'})
    BY DEF Ending, Picked
  <2> QED BY <1>1, <1>2, <1>3, <2>1, EndingDef
<1>5. q \notin Ending
  <2>1. q # None
    BY <1>1, NoneFacts
  <2>2. {wreq[w] : w \in Picked} \subseteq Held \union {None}
    BY DEF Picked, Held
  <2> QED BY <1>1, <2>1, <2>2, EndingDef
<1>6. Cardinality(Ending') = Cardinality(Ending) + 1
  BY <1>4, <1>5, DueType, FS_AddElement
<1>7. Due' = Cardinality(Running') - Cardinality(Ending') + 1
  BY <1>2 DEF Due
<1>8. Due = Cardinality(Running) - Cardinality(Ending) + 0
  BY <1>2 DEF Due
<1> QED BY <1>2, <1>6, <1>7, <1>8, DueType

LEMMA EndThreadCountDue ==
  ASSUME EndThreadCount
  PROVE  started' = Dec(started) /\ Due' = Due - 1
<1>1. Running' = Running /\ Ending' = Ending
  BY DEF EndThreadCount, queues, threads, Running, Ending, Queued
<1>2. pc = "end_dec" /\ pc' = "shrink" /\ started' = Dec(started)
  BY DEF EndThreadCount
<1>3. Due' = Cardinality(Running') - Cardinality(Ending') + 0
  BY <1>2 DEF Due
<1>4. Due = Cardinality(Running) - Cardinality(Ending) + 1
  BY <1>2 DEF Due
<1> QED BY <1>1, <1>2, <1>3, <1>4, DueType

LEMMA StartThreadDue ==
  ASSUME IInv, StartThread
  PROVE  \/ started' = started /\ Due' = Due
         \/ started' = Inc(started) /\ Due' = Due + 1
<1>1. /\ req_queue' = req_queue /\ wreq' = wreq /\ pc = "ms_start" /\ pc' # "end_dec"
  BY DEF StartThread, queues, IInv, TypeOK, Client
<1>2. CASE UNCHANGED <<wpc, started>>
  <2>1. Running' = Running /\ Ending' = Ending
    BY <1>1, <1>2 DEF Running, Ending, Queued
  <2> QED BY <1>1, <1>2, <2>1, DueFrame
<1>3. ASSUME NEW w \in Workers, wpc[w] = "none", wpc' = [wpc EXCEPT ![w] = "top"],
             started' = Inc(started)
      PROVE  Due' = Due + 1
  <2>1. w \notin Running /\ w \notin Picked
    BY <1>3 DEF Running, Picked
  <2>2. Running' = Running \union {w} /\ Picked' = Picked \ {w}
    <3>1. TypeOK /\ \E to \in {"top"} : wpc' = [wpc EXCEPT ![w] = to]
      BY <1>3 DEF IInv
    <3> QED BY <3>1, Moves
  <2>3. Cardinality(Running') = Cardinality(Running) + 1
    BY <2>1, <2>2, DueType, FS_AddElement
  <2>4. Ending' = Ending
    BY <1>1, <2>1, <2>2, EndingFrame
  <2>5. Due' = Cardinality(Running') - Cardinality(Ending') + 0
    BY <1>1 DEF Due
  <2>6. Due = Cardinality(Running) - Cardinality(Ending) + 0
    BY <1>1 DEF Due
  <2> QED BY <2>3, <2>4, <2>5, <2>6, DueType
<1> QED BY <1>2, <1>3 DEF StartThread

LEMMA ForkChildLedger ==
  ASSUME ForkChild
  PROVE  ThreadLedger'
<1>1. Running' = {} /\ Picked' = {}
  BY DEF ForkChild, Running, Picked
<1>2. Queued' = {}
  BY EmptyQueueOK DEF ForkChild, Queued
<1>3. Ending' = {}
  <2>1. Ending' = Quits \intersect (Queued' \union {wreq'[w] : w \in Picked'})
    BY DEF Ending, Picked
  <2> QED BY <1>1, <1>2, <2>1
<1>4. started' = 0 /\ pc' # "end_dec"
  BY DEF ForkChild, client, Client
<1>5. 0 % Word = 0
  BY PoolAssumption, ModUnique
<1>6. (Cardinality({}) - Cardinality({}) + 0) % Word = 0
  BY <1>5, FS_EmptySet
<1> QED BY <1>1, <1>3, <1>4, <1>6 DEF ThreadLedger

(* A request on its way to a thread stays on its way when it is taken.     *)
LEMMA TakeDue ==
  ASSUME IInv, NEW w \in Workers, Take(w)
  PROVE  started' = started /\ Due' = Due
<1>1. TypeOK /\ w \in Running /\ w \notin Picked /\ started' = started /\ pc' = pc
  BY DEF IInv, Take, Running, Picked, client
<1>2. CASE req_queue.size = 0
  <2>1. /\ wpc' = [wpc EXCEPT ![w] = "timed"]
        /\ req_queue' = req_queue /\ wreq' = wreq
    BY <1>2 DEF Take
  <2>2. Running' = Running \union {w} /\ Picked' = Picked \ {w}
    BY <1>1, <2>1, Moves
  <2>3. Running' = Running /\ Picked' = Picked
    BY <1>1, <2>2
  <2>4. Ending' = Ending
    BY <2>1, <2>3, EndingFrame
  <2> QED BY <1>1, <2>3, <2>4, DueFrame
<1>3. CASE req_queue.size # 0
  <2> DEFINE r == First(req_queue)
  <2>1. /\ wpc' = [wpc EXCEPT ![w] = "picked"]
        /\ req_queue' = Shift(req_queue) /\ wreq' = [wreq EXCEPT ![w] = r]
    BY <1>3 DEF Take
  <2>2. r \in Queued /\ Queued' = Queued \ {r}
    BY <1>3, <2>1, ShiftQueue DEF IInv, TypeOK, Ordered, Queued
  <2> HIDE DEF r
  <2>3. Running' = Running \union {w} /\ Picked' = Picked \union {w}
    BY <1>1, <2>1, Moves
  <2>4. Running' = Running
    BY <1>1, <2>3
  <2>5. wreq'[w] = r /\ \A v \in Picked : wreq'[v] = wreq[v]
    BY <1>1, <2>1 DEF TypeOK, Picked
  <2>6. {wreq'[v] : v \in Picked'} = {wreq[v] : v \in Picked} \union {r}
    BY <2>3, <2>5
  <2>7. Ending' = Ending
    <3>1. Ending' = Quits \intersect (Queued' \union {wreq'[v] : v \in Picked'})
      BY DEF Ending, Picked
    <3> QED BY <2>2, <2>6, <3>1, EndingDef
  <2> QED BY <1>1, <2>4, <2>7, DueFrame
<1> QED BY <1>2, <1>3

(* The steps that neither end a thread nor take a request from it. *)
LEMMA MovesDue ==
  ASSUME IInv, NEW w \in Workers,
         Expire(w) \/ Spurious(w) \/ HandleTimeout(w) \/ Execute(w) \/ Post(w) \/ Quit(w)
  PROVE  started' = started /\ Due' = Due
<1>0. TypeOK
  BY DEF IInv
<1>1. started' = started /\ pc' = pc /\ req_queue' = req_queue
  BY DEF Expire, Spurious, HandleTimeout, Execute, Post, Quit, queues, pool, client
<1>2. w \notin Picked
  BY DEF Expire, Spurious, HandleTimeout, Execute, Post, Quit, WorkerStep, Waiting, Picked
<1>3. \A v \in Picked : wreq'[v] = wreq[v]
  <2>1. wreq' = wreq \/ wreq' = [wreq EXCEPT ![w] = None]
    BY DEF Expire, Spurious, HandleTimeout, Execute, Post, Quit, Release
  <2> QED BY <1>0, <1>2, <2>1 DEF TypeOK, Picked
<1>4. Running' = Running /\ Picked' = Picked
  <2>1. CASE Quit(w)
    <3>1. wpc' = [wpc EXCEPT ![w] = "none"] /\ w \notin Running
      BY <2>1 DEF Quit, WorkerStep, Running
    <3>2. Running' = Running \ {w} /\ Picked' = Picked \ {w}
      BY <1>0, <3>1, Moves
    <3> QED BY <1>2, <3>1, <3>2
  <2>2. CASE Expire(w) \/ Spurious(w) \/ HandleTimeout(w) \/ Execute(w) \/ Post(w)
    <3>1. \E to \in {"expired", "woken", "leaving", "untimed", "post", "top"} :
             wpc' = [wpc EXCEPT ![w] = to]
      BY <2>2 DEF Expire, Spurious, HandleTimeout, Execute, Post, WorkerStep
    <3>2. w \in Running
      BY <2>2 DEF Expire, Spurious, HandleTimeout, Execute, Post, WorkerStep, Waiting, Running
    <3>3. Running' = Running \union {w} /\ Picked' = Picked \ {w}
      BY <1>0, <3>1, Moves
    <3> QED BY <1>2, <3>2, <3>3
  <2> QED BY <2>1, <2>2
<1>5. Ending' = Ending
  BY <1>1, <1>3, <1>4, EndingFrame
<1> QED BY <1>1, <1>4, <1>5, DueFrame

(* A thread that gives up idling, which no type -1 request was to end. *)
LEMMA LeaveDue ==
  ASSUME IInv, NEW w \in Workers, Leave(w)
  PROVE  started' = Dec(started) /\ Due' = Due - 1
<1>1. /\ TypeOK /\ wpc[w] = "leaving" /\ wpc' = [wpc EXCEPT ![w] = "quit"]
      /\ started' = Dec(started) /\ pc' = pc /\ req_queue' = req_queue /\ wreq' = wreq
  BY DEF IInv, Leave, WorkerStep, queues, client
<1>2. w \in Running /\ w \notin Picked
  BY <1>1 DEF Running, Picked
<1>3. Running' = Running \ {w} /\ Picked' = Picked \ {w}
  BY <1>1, Moves
<1>4. Cardinality(Running') = Cardinality(Running) - 1
  BY <1>2, <1>3, DueType, FS_RemoveElement
<1>5. Ending' = Ending
  BY <1>1, <1>2, <1>3, EndingFrame
<1>6. Due' = Cardinality(Running') - Cardinality(Ending') + (IF pc = "end_dec" THEN 1 ELSE 0)
  BY <1>1 DEF Due
<1> QED BY <1>1, <1>4, <1>5, <1>6, DueType DEF Due

(* A thread that a type -1 request ends: both leave the ledger. *)
LEMMA BeginDue ==
  ASSUME IInv, NEW w \in Workers, Begin(w)
  PROVE  started' = started /\ Due' = Due
<1>1. /\ TypeOK /\ wpc[w] = "picked" /\ started' = started /\ pc' = pc
      /\ req_queue' = req_queue /\ wreq' = wreq
  BY DEF IInv, Begin, WorkerStep, queues, pool, client
<1>2. w \in Running /\ w \in Picked
  BY <1>1 DEF Running, Picked
<1>3. Queued' = Queued
  BY <1>1 DEF Queued
<1>4. Ending' = Quits \intersect (Queued' \union {wreq'[v] : v \in Picked'})
  BY DEF Ending, Picked
<1>5. CASE wreq[w] \in Quits /\ WorkerStep(w, "picked", "quit")
  <2>1. Running' = Running \ {w} /\ Picked' = Picked \ {w}
    BY <1>1, <1>5, Moves DEF WorkerStep
  <2>2. /\ wreq[w] # None /\ wreq[w] \notin Queued
        /\ \A v \in Workers : v # w => wreq[v] # wreq[w]
    BY <1>5, NoneFacts DEF IInv, Placed, Held
  <2>3. {wreq'[v] : v \in Picked'} = {wreq[v] : v \in Picked} \ {wreq[w]}
    BY <1>1, <2>1, <2>2 DEF Picked
  <2>4. wreq[w] \in Ending /\ Ending' = Ending \ {wreq[w]}
    BY <1>2, <1>3, <1>4, <1>5, <2>2, <2>3, EndingDef
  <2>5. /\ Cardinality(Running') = Cardinality(Running) - 1
        /\ Cardinality(Ending') = Cardinality(Ending) - 1
    BY <1>2, <2>1, <2>4, DueType, FS_RemoveElement
  <2>6. Due' = Cardinality(Running') - Cardinality(Ending') + (IF pc = "end_dec" THEN 1 ELSE 0)
    BY <1>1 DEF Due
  <2> QED BY <1>1, <2>5, <2>6, DueType DEF Due
<1>6. CASE wreq[w] \in Reqs /\ \E to \in {"post", "exec"} : WorkerStep(w, "picked", to)
  <2>1. Running' = Running \union {w} /\ Picked' = Picked \ {w}
    BY <1>1, <1>6, Moves DEF WorkerStep
  <2>2. Running' = Running
    BY <1>2, <2>1
  <2>3. wreq[w] \notin Quits
    BY <1>6, NoneFacts
  <2>4. Quits \intersect {wreq'[v] : v \in Picked'} = Quits \intersect {wreq[v] : v \in Picked}
    BY <1>1, <2>1, <2>3
  <2>5. Ending' = Ending
    BY <1>3, <1>4, <2>4, EndingDef
  <2> QED BY <1>1, <2>2, <2>5, DueFrame
<1>7. \/ wreq[w] \in Quits /\ WorkerStep(w, "picked", "quit")
      \/ wreq[w] \in Reqs /\ \E to \in {"post", "exec"} : WorkerStep(w, "picked", to)
  BY DEF Begin
<1> QED BY <1>5, <1>6, <1>7

LEMMA LedgerInv ==
  ASSUME IInv, ThreadLedger, [Next]_vars
  PROVE  ThreadLedger'
<1>1. ASSUME started' = started, UNCHANGED <<req_queue, wpc, wreq>>,
             pc = "end_dec" <=> pc' = "end_dec"
      PROVE  ThreadLedger'
  <2>1. Running' = Running /\ Ending' = Ending
    BY <1>1 DEF Running, Ending, Queued
  <2> QED BY <1>1, <2>1, DueFrame, Balance
<1>2. CASE Quiet
  BY <1>1, <1>2, QuietStep
<1>3. ASSUME NEW r \in Reqs, NEW p \in PriIn, Submit(r, p)
      PROVE  ThreadLedger'
  BY <1>3, SubmitDue, Balance DEF Submit, pool
<1>4. CASE EndThreadPush
  BY <1>4, EndThreadPushDue, Balance DEF EndThreadPush, pool
<1>5. CASE EndThreadCount
  BY <1>5, EndThreadCountDue, Balance
<1>6. CASE StartThread
  BY <1>6, StartThreadDue, Balance
<1>7. CASE ForkChild
  BY <1>7, ForkChildLedger
<1>8. ASSUME NEW w \in Workers,
             \/ Take(w) \/ Expire(w) \/ Spurious(w) \/ HandleTimeout(w)
             \/ Leave(w) \/ Begin(w) \/ Execute(w) \/ Post(w) \/ Quit(w)
      PROVE  ThreadLedger'
  BY <1>8, TakeDue, MovesDue, LeaveDue, BeginDue, Balance
<1>9. CASE UNCHANGED vars
  BY <1>1, <1>9 DEF vars, queues, pool, threads, client
<1> QED BY <1>2, <1>3, <1>4, <1>5, <1>6, <1>7, <1>8, <1>9, NextCases

-----------------------------------------------------------------------------
LEMMA LedgersInit == Init => IdleLedger /\ ThreadLedger
<1> SUFFICES ASSUME Init PROVE IdleLedger /\ ThreadLedger
  OBVIOUS
<1>1. Idlers = {} /\ Running = {} /\ Picked = {}
  BY DEF Init, Idlers, Running, Picked
<1>2. Ending = {}
  <2>1. Queued = {}
    BY EmptyQueueOK DEF Init, Queued
  <2> QED BY <1>1, <2>1, EndingDef
<1>3. (Cardinality({}) - Cardinality({}) + 0) % Word = 0
  <2>1. 0 % Word = 0
    BY PoolAssumption, ModUnique
  <2> QED BY <2>1, FS_EmptySet
<1> QED BY <1>1, <1>2, <1>3, FS_EmptySet DEF Init, IdleLedger, ThreadLedger, Idlers

(* idle is the number of threads that wait, expire or wake up, in every    *)
(* interleaving of signals, timeouts and spurious wake-ups.                *)
THEOREM IdleTrue == Spec => []IdleLedger
<1>1. Init => IdleLedger
  BY LedgersInit
<1>2. IInv /\ IdleLedger /\ [Next]_vars => IdleLedger'
  BY IdleInv
<1> QED BY <1>1, <1>2, Invariance, PTL DEF Spec

(* started is the number of running threads less the ones a type -1        *)
(* request will end, modulo the width of the counter, in whatever order    *)
(* etp_end_thread and threads that give up idling count.                   *)
THEOREM StartedTrue == Spec => []ThreadLedger
<1>1. Init => ThreadLedger
  BY LedgersInit
<1>2. IInv /\ ThreadLedger /\ [Next]_vars => ThreadLedger'
  BY LedgerInv
<1> QED BY <1>1, <1>2, Invariance, PTL DEF Spec

(* No thread comes to wait without a timeout but one that compared idle    *)
(* with max_idle; and idle counts all of them.                             *)
LEMMA UntimedGrows ==
  ASSUME IInv, [Next]_vars
  PROVE  \/ Untimed' \subseteq Untimed
         \/ idle <= max_idle /\ Untimed' \subseteq Idlers
<1> USE DEF queues, counters, pool, settings, threads, client, requests
<1>0. wpc \in [Workers -> WorkerPc] /\ TypeOK
  BY DEF IInv, TypeOK
<1>1. CASE wpc' = wpc
  BY <1>1 DEF Untimed
<1>2. ASSUME NEW w \in Workers, NEW to \in WorkerPc \ {"untimed"},
             wpc' = [wpc EXCEPT ![w] = to]
      PROVE  Untimed' \subseteq Untimed
  BY <1>0, <1>2 DEF Untimed
<1>3. CASE Quiet
  BY <1>1, <1>3, QuietStep
<1>4. CASE Signal
  <2>1. CASE Waiting = {}
    BY <1>1, <1>4, <2>1 DEF Signal
  <2>2. CASE Waiting # {}
    <3>1. PICK w \in Waiting : wpc' = [wpc EXCEPT ![w] = "woken"]
      BY <1>4, <2>2 DEF Signal
    <3>2. w \in Workers /\ "woken" \in WorkerPc \ {"untimed"}
      BY DEF Waiting, WorkerPc
    <3> QED BY <1>2, <3>1, <3>2
  <2> QED BY <2>1, <2>2
<1>5. CASE EndThreadCount \/ UNCHANGED vars
  BY <1>1, <1>5 DEF EndThreadCount, vars
<1>6. CASE StartThread
  <2>1. "top" \in WorkerPc \ {"untimed"}
    BY DEF WorkerPc
  <2> QED BY <1>1, <1>2, <1>6, <2>1 DEF StartThread
<1>7. CASE ForkChild
  BY <1>7 DEF ForkChild, Untimed
<1>8. ASSUME NEW w \in Workers,
             Take(w) \/ Expire(w) \/ Spurious(w) \/ Leave(w) \/ Begin(w) \/ Execute(w)
                     \/ Post(w) \/ Quit(w)
      PROVE  Untimed' \subseteq Untimed
  <2>1. \E to \in {"picked", "timed", "expired", "woken", "quit", "post", "exec", "top", "none"} :
           wpc' = [wpc EXCEPT ![w] = to]
    BY <1>8 DEF Take, Expire, Spurious, Leave, Begin, Execute, Post, Quit, WorkerStep
  <2> QED BY <1>2, <2>1 DEF WorkerPc
<1>9. ASSUME NEW w \in Workers, HandleTimeout(w)
      PROVE  \/ Untimed' \subseteq Untimed
             \/ idle <= max_idle /\ Untimed' \subseteq Idlers
  <2>1. CASE WorkerStep(w, "expired", "leaving")
    <3>1. "leaving" \in WorkerPc \ {"untimed"}
      BY DEF WorkerPc
    <3> QED BY <1>2, <2>1, <3>1 DEF WorkerStep
  <2>2. CASE ~TooManyIdle /\ WorkerStep(w, "expired", "untimed")
    <3>1. idle <= max_idle
      BY <1>0, <2>2, PoolAssumption DEF TooManyIdle, TypeOK, UInt
    <3>2. Untimed' \subseteq Idlers
      BY <1>0, <2>2 DEF WorkerStep, Untimed, Idlers
    <3> QED BY <3>1, <3>2
  <2> QED BY <1>9, <2>1, <2>2 DEF HandleTimeout
<1> QED BY <1>3, <1>4, <1>5, <1>6, <1>7, <1>8, <1>9, NextCases DEF Submit, EndThreadPush

(* max_idle is kept, as the comment at its declaration says: a thread that *)
(* waits without a timeout is one of at most max_idle.                     *)
THEOREM IdleBoundKept == Spec => IdleBounded
<1>1. ASSUME IInv, IdleLedger, [Next]_vars
      PROVE  [Cardinality(Untimed') > Cardinality(Untimed)
                => Cardinality(Untimed') <= max_idle]_vars
  <2>1. IsFiniteSet(Untimed) /\ Cardinality(Untimed) \in Nat
    BY WorkersBound DEF Untimed
  <2>2. IsFiniteSet(Idlers) /\ Cardinality(Idlers) = idle /\ Cardinality(Idlers) \in Nat
    BY <1>1, WorkersBound DEF Idlers, IdleLedger
  <2>3. CASE Untimed' \subseteq Untimed
    <3>1. Cardinality(Untimed') <= Cardinality(Untimed) /\ Cardinality(Untimed') \in Nat
      BY <2>1, <2>3, FS_Subset, FS_CardinalityType
    <3> QED BY <2>1, <3>1
  <2>4. CASE idle <= max_idle /\ Untimed' \subseteq Idlers
    <3>1. Cardinality(Untimed') <= Cardinality(Idlers) /\ Cardinality(Untimed') \in Nat
      BY <2>2, <2>4, FS_Subset, FS_CardinalityType
    <3>2. max_idle \in Int
      BY <1>1, PoolAssumption DEF IInv, TypeOK, UInt
    <3> QED BY <2>2, <2>4, <3>1, <3>2
  <2> QED BY <1>1, <2>3, <2>4, UntimedGrows
<1> QED BY <1>1, Invariance, IdleTrue, PTL DEF Spec, IdleBounded

=============================================================================
