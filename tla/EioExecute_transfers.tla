------------------------ MODULE EioExecute_transfers ------------------------
(***************************************************************************)
(* Proofs about what the requests of EioExecute reach: the bytes of a      *)
(* file that sendfile and readahead transfer, and the pages that msync,    *)
(* mlock and mtouch work on, for every range, area, file, page size and    *)
(* buffer, and however short the system calls come up.                     *)
(***************************************************************************)
EXTENDS EioExecute_proofs, SequenceTheorems

-----------------------------------------------------------------------------
(* eio_page_align: whole pages that cover the area, and no page that holds *)
(* nothing of it.                                                          *)

(* Division by the page size, in the terms the proofs below need.          *)
LEMMA DivMod ==
  ASSUME NEW n \in Nat
  PROVE  /\ n \div PageSize \in Nat /\ n % PageSize \in 0..PageSize-1
         /\ n = (n \div PageSize) * PageSize + (n % PageSize)
BY PageAssumption, SMTT(60)

(* RoundUp returns the first multiple of the page size not below n. *)
LEMMA RoundUpFirst ==
  ASSUME NEW n \in Nat
  PROVE  \E k \in Nat : /\ RoundUp(n) = k * PageSize
                        /\ n <= RoundUp(n) /\ RoundUp(n) < n + PageSize
<1> DEFINE m == n + PageSize - 1
           k == m \div PageSize
<1>1. m \in Nat
  BY PageAssumption
<1>2. k \in Nat /\ m = k * PageSize + (m % PageSize) /\ m % PageSize \in 0..PageSize-1
  BY <1>1, DivMod
<1>3. RoundUp(n) = k * PageSize
  BY DEF RoundUp
<1>4. k * PageSize \in Nat
  BY <1>2, PageAssumption
<1>5. n <= k * PageSize /\ k * PageSize < n + PageSize
  BY <1>2, <1>4, PageAssumption
<1> QED BY <1>2, <1>3, <1>5

(* What msync, mlock and eio__mtouch rely on: the aligned area starts at a *)
(* page, is whole pages long, covers every byte of the client's, and       *)
(* exceeds it by less than a page at either end.                           *)
THEOREM PagesOfArea ==
  ASSUME NEW addr \in Nat, NEW len \in Nat
  PROVE  LET start == AlignedAddr(addr)
             upto == start + AlignedLen(addr, len)
         IN  /\ \E k \in Nat : start = k * PageSize
             /\ \E k \in Nat : AlignedLen(addr, len) = k * PageSize
             /\ start <= addr /\ addr < start + PageSize
             /\ addr + len <= upto /\ upto < addr + len + PageSize
<1> DEFINE start == AlignedAddr(addr)
           length == AlignedLen(addr, len)
<1>1. /\ Adj(addr) \in 0..PageSize-1
      /\ addr = (addr \div PageSize) * PageSize + Adj(addr)
      /\ addr \div PageSize \in Nat
  BY DivMod DEF Adj
<1>2. start = (addr \div PageSize) * PageSize /\ start + Adj(addr) = addr /\ start \in Int
  BY <1>1, PageAssumption DEF AlignedAddr
<1>3. len + Adj(addr) \in Nat
  BY <1>1, PageAssumption
<1>4. PICK k \in Nat : /\ length = k * PageSize
                       /\ len + Adj(addr) <= length
                       /\ length < len + Adj(addr) + PageSize
  BY <1>3, RoundUpFirst DEF AlignedLen
<1>5. length \in Int
  BY <1>4, PageAssumption
<1>6. start <= addr /\ addr < start + PageSize
  <2> HIDE DEF start
  <2> QED BY <1>1, <1>2, PageAssumption
<1>7. addr + len <= start + length /\ start + length < addr + len + PageSize
  <2> HIDE DEF start, length
  <2> QED BY <1>1, <1>2, <1>4, <1>5, PageAssumption
<1> QED BY <1>1, <1>2, <1>4, <1>6, <1>7

-----------------------------------------------------------------------------
(* Positions of a file that follow each other. *)
LEMMA PositionsLen ==
  ASSUME NEW f \in Nat, NEW n \in Nat
  PROVE  Positions(f, n) \in Seq(Nat) /\ Len(Positions(f, n)) = n
<1>1. Positions(f, n) \in Seq(Nat)
  BY DEF Positions
<1>2. DOMAIN Positions(f, n) = 1..n
  BY DEF Positions
<1> QED BY <1>1, <1>2

LEMMA PositionsNone == ASSUME NEW f \in Nat PROVE Positions(f, 0) = << >>
BY PositionsLen

LEMMA PositionsJoined ==
  ASSUME NEW f \in Nat, NEW n \in Nat, NEW m \in Nat
  PROVE  Positions(f, n) \o Positions(f + n, m) = Positions(f, n + m)
<1> DEFINE s == Positions(f, n)
           t == Positions(f + n, m)
           u == Positions(f, n + m)
<1>1. s \in Seq(Nat) /\ Len(s) = n
  BY PositionsLen
<1>2. t \in Seq(Nat) /\ Len(t) = m
  <2>1. f + n \in Nat
    OBVIOUS
  <2> QED BY <2>1, PositionsLen
<1>3. u \in Seq(Nat) /\ Len(u) = n + m
  <2>1. n + m \in Nat
    OBVIOUS
  <2> QED BY <2>1, PositionsLen
<1>4. \A k \in 1..n : s[k] = u[k]
  BY DEF Positions
<1>5. \A k \in 1..m : t[k] = u[n + k]
  BY DEF Positions
<1> HIDE DEF s, t, u
<1>6. /\ s \o t \in Seq(Nat) /\ Len(s \o t) = n + m
      /\ \A k \in 1..n+m : (s \o t)[k] = IF k <= n THEN s[k] ELSE t[k - n]
  BY <1>1, <1>2, ConcatProperties
<1>7. ASSUME NEW k \in 1..n+m PROVE (s \o t)[k] = u[k]
  <2>1. CASE k <= n
    BY <1>4, <1>6, <2>1
  <2>2. CASE k > n
    <3>1. k - n \in 1..m
      BY <2>2
    <3>2. t[k - n] = u[n + (k - n)]
      BY <1>5, <3>1
    <3>3. (s \o t)[k] = t[k - n]
      BY <1>6, <2>2
    <3>4. n + (k - n) = k
      OBVIOUS
    <3> QED BY <3>2, <3>3, <3>4
  <2>3. k <= n \/ k > n
    OBVIOUS
  <2> QED BY <2>1, <2>2, <2>3
<1>8. s \o t = u
  BY <1>3, <1>6, <1>7, SeqEqual
<1> QED BY <1>8 DEF s, t, u

LEMMA PositionsStart ==
  ASSUME NEW f \in Nat, NEW n \in Nat, NEW m \in 0..n
  PROVE  SubSeq(Positions(f, n), 1, m) = Positions(f, m)
<1>1. Positions(f, n) \in Seq(Nat) /\ Len(Positions(f, n)) = n
  BY PositionsLen
<1>2. Positions(f, m) \in Seq(Nat) /\ Len(Positions(f, m)) = m
  BY PositionsLen
<1>3. \A k \in 1..m : SubSeq(Positions(f, n), 1, m)[k] = Positions(f, m)[k]
  BY <1>1 DEF Positions
<1>4. SubSeq(Positions(f, n), 1, m) \in Seq(Nat) /\ Len(SubSeq(Positions(f, n), 1, m)) = m
  BY <1>1
<1> QED BY <1>2, <1>3, <1>4

-----------------------------------------------------------------------------
(* sendfile and readahead.  What has been transferred is the start of the  *)
(* range; offset and count are what is left of it; the buffer holds what   *)
(* comes next.                                                             *)
Sends == type.runs \in {"readahead", "sendfile"}

Done == offset - arg[1]

Under ==
  /\ arg \in Nat \X Nat /\ {offset, count} \subseteq Nat
  /\ Done \in Nat /\ Done + count = arg[2]
  /\ reached = Positions(arg[1], Done)
  /\ Runs("sendfile") => result = Done

Progress ==
  /\ pc \in {"alloc", "alloced", "call"} => Runs("alloc")
  /\ pc \in {"emulate", "write"} => Runs("sendfile")
  /\ Sends =>
       /\ pc \in {"new", "queued", "execute", "emulate"} => Under /\ Done = 0 /\ result = 0
       /\ pc \in {"copy", "write"} => Under
       /\ pc = "write" => \E n \in 1..count : buffer = Positions(offset, n)
  /\ Transfers

LEMMA InitProgress == Init => Progress
<1> SUFFICES ASSUME Init PROVE Progress
  OBVIOUS
<1>1. CASE Sends
  <2>1. arg \in Ranges
    BY <1>1 DEF Init, Args, Sends
  <2>2. arg \in Nat \X Nat
    BY <2>1, ExecuteAssumption
  <2>3. arg[1] \in Nat /\ arg[2] \in Nat /\ offset = arg[1] /\ count = arg[2]
    BY <2>2 DEF Init
  <2>4. Done = 0 /\ Done + count = arg[2]
    BY <2>3 DEF Done
  <2>5. Under
    BY <2>2, <2>3, <2>4, PositionsNone DEF Init, Under
  <2> QED BY <2>4, <2>5 DEF Init, Progress, Transfers
<1>2. CASE ~Sends
  BY <1>2 DEF Init, Progress, Transfers, Sends
<1> QED BY <1>1, <1>2

(* The steps that transfer. *)
LEMMA ReadaheadProgress == IInv /\ Progress /\ Readahead => Progress'
<1> SUFFICES ASSUME IInv, Progress, Readahead PROVE Progress'
  OBVIOUS
<1>1. /\ Sends /\ Under /\ pc = "copy" /\ type' = type /\ arg' = arg /\ Runs("readahead")
      /\ arg[1] \in Nat /\ arg[2] \in Nat /\ offset \in Nat /\ count \in Nat /\ Done \in Nat
      /\ Done = offset - arg[1] /\ Done + count = arg[2]
      /\ reached = Positions(arg[1], Done)
  BY DEF Readahead, Progress, Sends, Runs, Under, Done
<1>2. CASE count > 0 /\ pc' = pc
  <2> DEFINE len == AtMost(count, BufSize)
  <2>1. /\ len \in 0..count
        /\ reached' = reached \o Positions(offset, len)
        /\ offset' = offset + len /\ count' = count - len
    BY <1>1, <1>2, ExecuteAssumption DEF Readahead, AtMost
  <2> HIDE DEF len
  <2>2. offset = arg[1] + Done /\ len \in Nat
    BY <1>1, <2>1
  <2>3. reached' = Positions(arg[1], Done + len)
    <3>1. Positions(arg[1], Done) \o Positions(arg[1] + Done, len)
            = Positions(arg[1], Done + len)
      <4>1. arg[1] \in Nat /\ Done \in Nat /\ len \in Nat
        BY <1>1, <2>2
      <4> QED BY <4>1, PositionsJoined
    <3>2. reached' = Positions(arg[1], Done) \o Positions(arg[1] + Done, len)
      BY <1>1, <2>1, <2>2
    <3> QED BY <3>1, <3>2
  <2>4. Done' = Done + len /\ Done' \in Nat /\ Done' + count' = arg[2]
    BY <1>1, <2>1, <2>2 DEF Done
  <2>5. offset' \in Nat /\ count' \in Nat /\ arg \in Nat \X Nat
    BY <1>1, <2>1 DEF Under
  <2>6. ~Runs("sendfile")'
    BY <1>1 DEF Runs
  <2>7. Under'
    BY <1>1, <2>3, <2>4, <2>5, <2>6 DEF Under
  <2> QED BY <1>1, <1>2, <2>7 DEF Progress, Transfers, Runs
<1>3. CASE count = 0 /\ pc' = "executed"
  <2>1. reached' = reached /\ result' = arg[2] /\ Done = arg[2]
    BY <1>1, <1>3 DEF Readahead
  <2>2. Len(reached') = arg[2]
    BY <1>1, <2>1, PositionsLen
  <2> QED BY <1>1, <1>3, <2>1, <2>2 DEF Progress, Transfers, Runs
<1> QED BY <1>1, <1>2, <1>3 DEF Readahead

LEMMA SendfileProgress == IInv /\ Progress /\ Sendfile => Progress'
<1> SUFFICES ASSUME IInv, Progress, Sendfile PROVE Progress'
  OBVIOUS
<1>1. /\ Sends /\ Under /\ pc = "execute" /\ Runs("sendfile")
      /\ UNCHANGED <<type, arg, offset, count, buffer>>
      /\ arg[1] \in Nat /\ arg[2] \in Nat /\ Done = 0 /\ result = 0
      /\ offset = arg[1] /\ count = arg[2]
      /\ reached = Positions(arg[1], 0)
  BY DEF Sendfile, Progress, Sends, Runs, Under, Done
<1>2. CASE pc' = "executed" /\ result' # -1
  <2>1. PICK n \in Transferred(count) : result' = n /\ reached' = Positions(offset, n)
    BY <1>2 DEF Sendfile
  <2>2. n \in 0..count
    BY <1>1, <2>1, ExecuteAssumption DEF Transferred, AtMost
  <2>3. Len(Positions(arg[1], n)) = n
    <3>1. arg[1] \in Nat /\ n \in Nat
      BY <1>1, <2>2
    <3> QED BY <3>1, PositionsLen
  <2>4. Len(reached') = n /\ n <= arg[2] /\ reached' = Positions(arg[1], n)
    BY <1>1, <2>1, <2>2, <2>3
  <2> QED BY <1>1, <1>2, <2>1, <2>4 DEF Progress, Transfers, Runs
<1>3. CASE pc' = "executed" /\ reached' = reached /\ result' = -1
  <2>1. reached' = << >>
    BY <1>1, <1>3, PositionsNone
  <2>2. Len(reached') = 0 /\ reached' = Positions(arg[1], Len(reached'))
    BY <1>1, <2>1, PositionsNone
  <2> QED BY <1>1, <1>3, <2>1, <2>2 DEF Progress, Transfers, Runs
<1>4. CASE pc' = "emulate" /\ UNCHANGED <<result, reached>>
  <2>1. Under' /\ Done' = 0
    BY <1>1, <1>4 DEF Under, Done, Runs
  <2> QED BY <1>1, <1>4, <2>1 DEF Progress, Transfers, Runs
<1>5. CASE pc' = "executed" /\ result' = -1 /\ reached' # reached
  <2>1. PICK n \in Transferred(count) : result' = n
    BY <1>5 DEF Sendfile
  <2>2. n \in 0..count
    BY <1>1, <2>1, ExecuteAssumption DEF Transferred, AtMost
  <2> QED BY <1>1, <1>5, <2>1, <2>2
<1> QED BY <1>2, <1>3, <1>4, <1>5 DEF Sendfile

(* What may be said while the emulation of sendfile runs. *)
LEMMA Sending ==
  ASSUME Progress, Runs("sendfile"), pc \in {"copy", "write"}
  PROVE  /\ arg[1] \in Nat /\ arg[2] \in Nat /\ offset \in Nat /\ count \in Nat
         /\ Done \in Nat /\ Done = offset - arg[1] /\ Done + count = arg[2]
         /\ reached = Positions(arg[1], Done) /\ Len(reached) = Done
         /\ result = Done /\ Sends /\ Under
<1>1. Sends /\ Under /\ arg[1] \in Nat /\ arg[2] \in Nat /\ Done \in Nat
  BY DEF Progress, Sends, Runs, Under
<1>2. Len(Positions(arg[1], Done)) = Done
  BY <1>1, PositionsLen
<1> QED BY <1>1, <1>2 DEF Under, Done

(* It ends: what was sent counts, and -1 says that nothing was. *)
LEMMA SendingEnds ==
  ASSUME Progress, Runs("sendfile"), pc \in {"copy", "write"},
         pc' = "executed", UNCHANGED <<type, arg, reached>>, result' \in {result, Broken}
  PROVE  Progress'
<1>1. /\ arg[1] \in Nat /\ Done \in Nat /\ Done <= arg[2] /\ Len(reached) = Done
      /\ reached = Positions(arg[1], Done) /\ result = Done
  BY Sending
<1>2. result' = Len(reached) \/ (result' = -1 /\ reached = << >>)
  <2>1. CASE Done = 0
    <3>1. reached = << >>
      BY <1>1, <2>1, PositionsNone
    <3> QED BY <1>1, <2>1, <3>1 DEF Broken
  <2>2. CASE Done # 0
    BY <1>1, <2>2 DEF Broken
  <2> QED BY <2>1, <2>2
<1>3. Transfers'
  BY <1>1, <1>2 DEF Transfers
<1> QED BY <1>3 DEF Progress

LEMMA SendReadProgress == IInv /\ Progress /\ SendRead => Progress'
<1> SUFFICES ASSUME IInv, Progress, SendRead PROVE Progress'
  OBVIOUS
<1>1. /\ Runs("sendfile") /\ pc = "copy"
      /\ UNCHANGED <<type, arg, offset, count, reached>>
  BY DEF SendRead
<1>2. /\ offset \in Nat /\ count \in Nat /\ Sends /\ Under
  BY <1>1, Sending
<1>3. CASE pc' = "executed"
  <2>1. result' \in {result, Broken}
    BY <1>3 DEF SendRead
  <2> QED BY <1>1, <1>3, <2>1, SendingEnds
<1>4. CASE pc' # "executed"
  <2>1. PICK n \in Transferred(AtMost(count, BufSize)) :
            buffer' = Positions(offset, n) /\ pc' = "write" /\ n # 0 /\ result' = result
    BY <1>4 DEF SendRead
  <2>2. n \in 1..count
    BY <1>2, <2>1, ExecuteAssumption DEF Transferred, AtMost
  <2>3. Under'
    BY <1>1, <1>2, <2>1 DEF Under, Done, Runs
  <2> QED BY <1>1, <2>1, <2>2, <2>3 DEF Progress, Transfers, Runs
<1> QED BY <1>3, <1>4

LEMMA SendWriteProgress == IInv /\ Progress /\ SendWrite => Progress'
<1> SUFFICES ASSUME IInv, Progress, SendWrite PROVE Progress'
  OBVIOUS
<1>1. /\ Runs("sendfile") /\ pc = "write" /\ type' = type /\ arg' = arg
  BY DEF SendWrite, Progress
<1>2. /\ arg[1] \in Nat /\ arg[2] \in Nat /\ offset \in Nat /\ count \in Nat
      /\ Done \in Nat /\ Done = offset - arg[1] /\ Done + count = arg[2]
      /\ reached = Positions(arg[1], Done) /\ result = Done /\ Sends /\ Under
  BY <1>1, Sending
<1>3. CASE pc' = "executed"
  <2>1. result' \in {result, Broken} /\ reached' = reached
    BY <1>3 DEF SendWrite
  <2> QED BY <1>1, <1>3, <2>1, SendingEnds
<1>4. CASE pc' # "executed"
  <2>1. PICK m \in 1..count : buffer = Positions(offset, m)
    BY <1>1, <1>2 DEF Progress
  <2>2. m \in Nat /\ Len(buffer) = m
    BY <1>2, <2>1, PositionsLen
  <2>3. PICK n \in 1..m :
          /\ reached' = reached \o SubSeq(buffer, 1, n)
          /\ offset' = offset + n /\ result' = result + n /\ count' = count - n
          /\ pc' = "copy"
    BY <1>4, <2>2 DEF SendWrite, Advance
  <2>4. n \in Nat /\ n \in 0..m /\ n <= count /\ offset = arg[1] + Done /\ Done + n \in Nat
    <3>1. n \in Nat /\ n \in 0..m /\ n <= count
      BY <1>2, <2>1, <2>2
    <3> QED BY <1>2, <3>1
  <2>5. SubSeq(buffer, 1, n) = Positions(offset, n)
    BY <1>2, <2>1, <2>2, <2>4, PositionsStart
  <2>6. reached' = Positions(arg[1], Done + n)
    <3>1. Positions(arg[1], Done) \o Positions(arg[1] + Done, n)
            = Positions(arg[1], Done + n)
      <4>1. arg[1] \in Nat /\ Done \in Nat /\ n \in Nat
        BY <1>2, <2>4
      <4> QED BY <4>1, PositionsJoined
    <3> QED BY <1>2, <2>3, <2>4, <2>5, <3>1
  <2>7. /\ Done' = Done + n /\ Done' + count' = arg[2] /\ result' = Done'
        /\ offset' \in Nat /\ count' \in Nat /\ arg \in Nat \X Nat
    <3>1. Done' = offset' - arg[1] /\ arg \in Nat \X Nat
      BY <1>1, <1>2 DEF Done, Under
    <3>2. offset' = offset + n /\ count' = count - n /\ result' = Done + n
      BY <1>2, <2>3
    <3>3. offset' \in Nat /\ count' \in Nat
      BY <1>2, <2>4, <3>2
    <3>4. Done' = Done + n
      BY <1>2, <2>4, <3>1, <3>2
    <3>5. Done + n + (count - n) = Done + count
      BY <1>2, <2>4
    <3> QED BY <1>2, <3>1, <3>2, <3>3, <3>4, <3>5
  <2>8. Under'
    BY <1>1, <2>4, <2>6, <2>7 DEF Under
  <2> QED BY <1>1, <2>3, <2>8 DEF Progress, Transfers, Runs
<1> QED BY <1>3, <1>4

LEMMA DBufProgress == IInv /\ Progress /\ DBuf => Progress'
<1> SUFFICES ASSUME IInv, Progress, DBuf PROVE Progress'
  OBVIOUS
<1>1. /\ Sends /\ Under /\ Done = 0 /\ result = 0 /\ arg[1] \in Nat /\ arg[2] \in Nat
      /\ UNCHANGED <<type, arg, transfer>>
      /\ reached = Positions(arg[1], 0)
  BY DEF DBuf, Progress, Sends, Runs, Under
<1>2. CASE pc' = "copy" /\ result' = result
  <2>1. Under'
    BY <1>1, <1>2 DEF Under, Done, Runs, transfer
  <2> QED BY <1>1, <1>2, <2>1 DEF Progress, Transfers
<1>3. CASE pc' = "executed" /\ result' = -1
  <2>1. reached' = << >> /\ reached' = Positions(arg[1], 0)
    BY <1>1, PositionsNone DEF transfer
  <2>2. Len(reached') = 0
    BY <2>1
  <2> QED BY <1>1, <1>3, <2>1, <2>2 DEF Progress, Transfers
<1> QED BY <1>2, <1>3 DEF DBuf

(* The others leave a transfer alone.                                      *)
Unmoved == UNCHANGED <<type, arg, offset, count, reached>>

LEMMA BeforeProgress ==
  ASSUME Progress, Unmoved, result' = result, pc \in {"new", "queued"},
         pc' \in {"queued", "execute", "executed", "scandir", "refused"}
  PROVE  Progress'
<1>1. CASE Sends
  <2>1. Under /\ Done = 0 /\ result = 0 /\ arg[1] \in Nat /\ arg[2] \in Nat
    BY <1>1 DEF Progress, Under
  <2>2. Under' /\ Done' = 0 /\ result' = 0
    BY <2>1 DEF Under, Done, Runs, Unmoved
  <2>3. reached' = << >> /\ reached' = Positions(arg[1], 0)
    BY <2>1, PositionsNone DEF Under, Unmoved
  <2>4. Len(reached') = 0
    BY <2>3
  <2>5. Transfers'
    BY <2>1, <2>2, <2>3, <2>4 DEF Transfers, Unmoved
  <2> QED BY <2>2, <2>5 DEF Progress
<1>2. CASE ~Sends
  BY <1>2 DEF Progress, Sends, Transfers, Unmoved
<1> QED BY <1>1, <1>2

LEMMA AfterProgress ==
  ASSUME Progress, Unmoved,
         \/ ~Sends /\ pc' \notin {"alloc", "alloced", "call", "emulate", "write"}
         \/ Runs("alloc") /\ pc' \in {"alloc", "alloced", "call"}
         \/ pc' \in {"finishing", "destroyed", "child"}
         \/ pc = "executed" /\ pc' \in {"posted", "returned"} /\ result' = result
  PROVE  Progress'
BY DEF Progress, Unmoved, Transfers, Sends, Runs

LEMMA CancelProgress == Progress /\ Cancel => Progress'
<1> SUFFICES ASSUME Progress, Cancel PROVE Progress'
  OBVIOUS
<1>1. UNCHANGED <<type, arg, offset, count, buffer, reached, pc, result>>
  BY DEF Cancel, transfer
<1> QED BY <1>1 DEF Progress, Sends, Runs, Under, Done, Transfers

LEMMA StepProgress == IInv /\ Progress /\ [Next]_vars => Progress'
<1> SUFFICES ASSUME IInv, Progress, [Next]_vars PROVE Progress'
  OBVIOUS
<1> USE DEF Unmoved, transfer
<1>1. CASE Readahead \/ Sendfile \/ SendRead \/ SendWrite \/ DBuf
  BY <1>1, ReadaheadProgress, SendfileProgress, SendReadProgress, SendWriteProgress,
     DBufProgress
<1>2. CASE Make \/ Refuse \/ SendfileSync \/ Begin
  BY <1>2, BeforeProgress DEF Make, Refuse, SendfileSync, Begin
<1>3. CASE AllocFlag \/ AllocMemory \/ AllocStore
  <2>1. Runs("alloc") /\ ~Sends
    BY <1>3 DEF AllocFlag, AllocMemory, AllocStore, Progress, Runs, Sends
  <2>2. Unmoved /\ pc' \in {"alloc", "alloced", "call", "executed"}
    BY <1>3 DEF AllocFlag, AllocMemory, AllocStore
  <2> QED BY <2>1, <2>2, AfterProgress
<1>4. CASE Call
  <2>1. ~Sends /\ Unmoved /\ pc' = "executed"
    BY <1>4 DEF Call, Progress, Runs, Sends
  <2> QED BY <2>1, AfterProgress
<1>5. CASE CallOnArea \/ Mtouch
  <2>1. /\ ~Sends /\ ~Sends' /\ pc' = "executed" /\ type' = type
    BY <1>5 DEF CallOnArea, Mtouch, Runs, Sends
  <2> QED BY <2>1 DEF Progress, Sends, Transfers
<1>6. CASE Scandir
  <2>1. ~Sends /\ Unmoved
    BY <1>6 DEF IInv, Phases, Runs, Sends, ScandirPc, Scandir, ScandirNext, Open, ReadEntry,
                ReadError, ReadEnd, CheckCancelled, SplitDirs, SortDirs, Sorting
  <2>2. pc' \in ScandirPc \union {"executed", "crashed"}
    BY <1>6 DEF ScandirPc, Scandir, ScandirNext, Open, ReadEntry, ReadError, ReadEnd,
                CheckCancelled, SplitDirs, SortDirs, Sorting
  <2> QED BY <2>1, <2>2, AfterProgress DEF ScandirPc
<1>7. CASE Post \/ SendfileSyncReturn \/ Finish \/ Destroy
  BY <1>7, AfterProgress DEF Post, SendfileSyncReturn, Finish, Destroy
<1>8. CASE ForkChild
  BY <1>8, AfterProgress DEF ForkChild
<1>9. CASE Cancel
  BY <1>9, CancelProgress
<1>10. CASE UNCHANGED vars
  <2>1. UNCHANGED <<type, arg, offset, count, buffer, reached, pc, result>>
    BY <1>10 DEF vars, scanvars
  <2> QED BY <2>1 DEF Progress, Sends, Runs, Under, Done, Transfers
<1> QED BY <1>1, <1>2, <1>3, <1>4, <1>5, <1>6, <1>7, <1>8, <1>9, <1>10 DEF Next, WorkerNext

(* However short the system calls come up and whichever of them fails,     *)
(* sendfile and readahead transfer the bytes of the range in order, each   *)
(* once, and report their number: for every range, file and buffer.        *)
THEOREM TransfersKept == Spec => []Transfers
<1>1. Init => Progress
  BY InitProgress
<1>2. IInv /\ Progress /\ [Next]_vars => Progress'
  BY StepProgress
<1>3. Progress => Transfers
  BY DEF Progress
<1> QED BY <1>1, <1>2, <1>3, Invariant, PTL DEF Spec

-----------------------------------------------------------------------------
(* Pages, for the requests about an area of memory. *)
LEMMA MulLess ==
  ASSUME NEW x \in Int, NEW y \in Int, x * PageSize < y * PageSize
  PROVE  x < y
<1>1. CASE x >= y
  <2>1. PICK d \in Nat : x = y + d
    BY <1>1
  <2>2. x * PageSize = y * PageSize + d * PageSize
    BY <2>1, PageAssumption
  <2>3. d * PageSize >= 0 /\ y * PageSize \in Int /\ d * PageSize \in Int
    BY PageAssumption
  <2> QED BY <2>2, <2>3
<1> QED BY <1>1

LEMMA MulLeq ==
  ASSUME NEW x \in Int, NEW y \in Int, x <= y
  PROVE  x * PageSize <= y * PageSize /\ x * PageSize \in Int /\ y * PageSize \in Int
<1>1. PICK d \in Nat : y = x + d
  OBVIOUS
<1>2. y * PageSize = x * PageSize + d * PageSize
  BY <1>1, PageAssumption
<1>3. d * PageSize >= 0 /\ x * PageSize \in Int /\ d * PageSize \in Int
  BY PageAssumption
<1> QED BY <1>2, <1>3

LEMMA PageBounds ==
  ASSUME NEW n \in Nat
  PROVE  /\ n \div PageSize \in Nat
         /\ (n \div PageSize) * PageSize \in Nat
         /\ (n \div PageSize) * PageSize <= n
         /\ n < (n \div PageSize + 1) * PageSize
<1> DEFINE p == n \div PageSize
<1>1. p \in Nat /\ n % PageSize \in 0..PageSize-1 /\ n = p * PageSize + (n % PageSize)
  BY DivMod
<1> HIDE DEF p
<1>2. (p + 1) * PageSize = p * PageSize + PageSize /\ p * PageSize \in Nat
  BY <1>1, PageAssumption
<1>3. p * PageSize <= n /\ n < (p + 1) * PageSize
  BY <1>1, <1>2, PageAssumption
<1> QED BY <1>1, <1>2, <1>3 DEF p

(* A byte between two page boundaries is on a page between them.           *)
LEMMA PageBetween ==
  ASSUME NEW n \in Nat, NEW lo \in Nat, NEW hi \in Nat,
         lo * PageSize <= n, n < hi * PageSize
  PROVE  n \div PageSize \in lo..hi-1
<1> DEFINE p == n \div PageSize
<1>1. p \in Nat /\ p * PageSize \in Nat /\ p * PageSize <= n /\ n < (p + 1) * PageSize
  BY PageBounds
<1> HIDE DEF p
<1>2. lo * PageSize \in Int /\ hi * PageSize \in Int /\ (p + 1) * PageSize \in Int
  BY <1>1, PageAssumption
<1>3. p * PageSize < hi * PageSize /\ lo * PageSize < (p + 1) * PageSize
  BY <1>1, <1>2
<1>4. p < hi /\ lo < p + 1
  BY <1>1, <1>3, MulLess
<1>5. p \in lo..hi-1
  BY <1>1, <1>4
<1> QED BY <1>5 DEF p

(* The aligned area in pages: it begins with the page of the first byte;   *)
(* unless it is empty, it ends with the page of the last one.              *)
LastByte(addr, len) == IF len = 0 THEN addr ELSE addr + len - 1

LEMMA AreaPages ==
  ASSUME NEW addr \in Nat, NEW len \in Nat
  PROVE  \E pages \in Nat :
           /\ AlignedAddr(addr) = (addr \div PageSize) * PageSize
           /\ AlignedLen(addr, len) = pages * PageSize
           /\ pages = 0 \/ addr \div PageSize + pages = LastByte(addr, len) \div PageSize + 1
           /\ addr + len <= (addr \div PageSize + pages) * PageSize
<1> DEFINE p == addr \div PageSize
           last == LastByte(addr, len)
           q == last \div PageSize
           length == AlignedLen(addr, len)
<1>1. /\ p \in Nat /\ p * PageSize \in Nat /\ p * PageSize <= addr
      /\ addr < (p + 1) * PageSize
  BY PageBounds
<1>2. last \in Nat
  BY DEF LastByte
<1>3. /\ q \in Nat /\ q * PageSize \in Nat /\ q * PageSize <= last
      /\ last < (q + 1) * PageSize
  BY <1>2, PageBounds
<1>4. AlignedAddr(addr) = p * PageSize
  <2>1. addr = p * PageSize + (addr % PageSize) /\ addr % PageSize \in 0..PageSize-1
    BY DivMod
  <2> HIDE DEF p
  <2> QED BY <1>1, <2>1, PageAssumption DEF AlignedAddr, Adj
<1>5. PICK k \in Nat : length = k * PageSize
  BY PagesOfArea
<1>6. addr + len <= p * PageSize + length /\ p * PageSize + length < addr + len + PageSize
  BY <1>4, PagesOfArea
<1> HIDE DEF p, q, last, length
<1>7. /\ (p + k) * PageSize = p * PageSize + length /\ (p + k) * PageSize \in Nat
      /\ length \in Nat
  BY <1>1, <1>5, PageAssumption
<1>8. k = 0 \/ p + k = q + 1
  <2>1. (p + k - 1) * PageSize = (p + k) * PageSize - PageSize
    BY <1>1, PageAssumption
  <2>2. (p + k - 1) * PageSize < addr + len
    BY <1>6, <1>7, <2>1, PageAssumption
  <2>3. CASE len = 0
    <3>1. last = addr
      BY <2>3 DEF last, LastByte
    <3>2. q = p
      BY <3>1 DEF p, q
    <3>3. (p + k - 1) * PageSize < (p + 1) * PageSize
      <4>1. (p + k - 1) * PageSize \in Int /\ (p + 1) * PageSize \in Int
        BY <1>1, PageAssumption
      <4> QED BY <1>1, <2>2, <2>3, <4>1
    <3>4. p + k - 1 < p + 1
      BY <1>1, <3>3, MulLess
    <3> QED BY <1>1, <3>2, <3>4
  <2>4. CASE len # 0
    <3>1. last = addr + len - 1
      BY <2>4 DEF last, LastByte
    <3>2. q * PageSize < (p + k) * PageSize
      BY <1>2, <1>3, <1>6, <1>7, <3>1
    <3>3. q < p + k
      BY <1>1, <1>3, <3>2, MulLess
    <3>4. (p + k - 1) * PageSize < (q + 1) * PageSize
      <4>1. (p + k - 1) * PageSize \in Int /\ (q + 1) * PageSize \in Int
        BY <1>1, <1>3, PageAssumption
      <4> QED BY <1>2, <1>3, <2>2, <3>1, <4>1
    <3>5. p + k - 1 < q + 1
      BY <1>1, <1>3, <3>4, MulLess
    <3> QED BY <1>1, <1>3, <3>3, <3>5
  <2> QED BY <2>3, <2>4
<1>9. AlignedAddr(addr) = p * PageSize /\ length = k * PageSize
      /\ (k = 0 \/ p + k = q + 1) /\ addr + len <= (p + k) * PageSize
  BY <1>4, <1>5, <1>6, <1>7, <1>8
<1> QED BY <1>9 DEF p, q, last, length

(* What InArea says of the addresses a request has reached. *)
PageOf(x) == x \div PageSize
Touched == {reached[k] : k \in 1..Len(reached)}

PagesAsked ==
  LET first == PageOf(arg[1])
      last == PageOf(LastByte(arg[1], arg[2]))
  IN  /\ {PageOf(x) : x \in Touched} \subseteq first..last
      /\ Runs("area") => /\ arg[1]..arg[1] + arg[2] - 1 \subseteq Touched
                         /\ Touched = first * PageSize..(last + 1) * PageSize - 1

LEMMA InAreaPages == (reached # << >> /\ type.runs \in {"area", "mtouch"} => PagesAsked) => InArea
BY DEF InArea, PagesAsked, PageOf, Touched, LastByte

OnArea == type.runs \in {"area", "mtouch"}

AreaInv == (OnArea => arg \in Nat \X Nat) /\ (reached # << >> /\ OnArea => PagesAsked)

LEMMA PositionsRange ==
  ASSUME NEW from \in Nat, NEW n \in Nat
  PROVE  /\ Len(Positions(from, n)) = n
         /\ {Positions(from, n)[k] : k \in 1..n} = from..from + n - 1
<1>1. Len(Positions(from, n)) = n
  BY PositionsLen
<1>2. \A k \in 1..n : Positions(from, n)[k] = from + k - 1
  BY DEF Positions
<1>3. ASSUME NEW x \in from..from + n - 1
      PROVE  x - from + 1 \in 1..n /\ Positions(from, n)[x - from + 1] = x
  <2>1. x - from + 1 \in 1..n
    OBVIOUS
  <2>2. Positions(from, n)[x - from + 1] = from + (x - from + 1) - 1
    BY <1>2, <2>1
  <2> QED BY <2>1, <2>2
<1> QED BY <1>1, <1>2, <1>3

LEMMA CallOnAreaPages ==
  ASSUME AreaInv, CallOnArea
  PROVE  AreaInv'
<1>1. /\ arg' = arg /\ type' = type /\ Runs("area") /\ OnArea
      /\ arg \in Nat \X Nat /\ arg[1] \in Nat /\ arg[2] \in Nat
      /\ reached' = Positions(AlignedAddr(arg[1]), AlignedLen(arg[1], arg[2]))
  BY DEF CallOnArea, AreaInv, OnArea, Runs
<1> DEFINE first == PageOf(arg[1])
           last == PageOf(LastByte(arg[1], arg[2]))
           start == AlignedAddr(arg[1])
           length == AlignedLen(arg[1], arg[2])
<1>2. PICK pages \in Nat :
        /\ start = first * PageSize
        /\ length = pages * PageSize
        /\ pages = 0 \/ first + pages = last + 1
        /\ arg[1] + arg[2] <= (first + pages) * PageSize
  BY <1>1, AreaPages DEF PageOf
<1>3. first \in Nat /\ first * PageSize \in Nat /\ first * PageSize <= arg[1]
  BY <1>1, PageBounds DEF PageOf
<1>4. length \in Nat /\ start \in Nat /\ start + length = (first + pages) * PageSize
  <2> HIDE DEF first, start, length
  <2> QED BY <1>2, <1>3, PageAssumption
<1>5. Len(reached') = length /\ Touched' = start..start + length - 1
  <2>1. /\ Len(Positions(start, length)) = length
        /\ {Positions(start, length)[k] : k \in 1..length} = start..start + length - 1
    BY <1>4, PositionsRange
  <2>2. reached' = Positions(start, length)
    BY <1>1
  <2> HIDE DEF start, length
  <2> QED BY <2>1, <2>2 DEF Touched
<1>6. reached' = Positions(start, length)
  BY <1>1
<1>7. last \in Nat
  <2>1. LastByte(arg[1], arg[2]) \in Nat
    BY <1>1 DEF LastByte
  <2> QED BY <2>1, PageBounds DEF PageOf
<1> HIDE DEF first, last, start, length
<1>8. ASSUME reached' # << >>
      PROVE  PagesAsked'
  <2>1. length # 0
    <3>1. Positions(start, 0) = << >>
      BY <1>4, PositionsNone
    <3> QED BY <1>6, <1>8, <3>1
  <2>2. pages # 0
    <3>1. 0 * PageSize = 0
      BY PageAssumption
    <3> QED BY <1>2, <2>1, <3>1
  <2>3. first + pages = last + 1
    BY <1>2, <2>2
  <2>4. Touched' = first * PageSize..(last + 1) * PageSize - 1
    BY <1>2, <1>4, <1>5, <2>3
  <2>5. \A x \in Touched' : PageOf(x) \in first..last
    <3> SUFFICES ASSUME NEW x \in Touched' PROVE PageOf(x) \in first..last
      OBVIOUS
    <3>1. x \in Nat /\ first * PageSize <= x /\ x < (first + pages) * PageSize
      BY <1>2, <1>3, <1>4, <1>5
    <3>2. x < (last + 1) * PageSize /\ last + 1 \in Nat
      BY <1>7, <2>3, <3>1
    <3>3. x \div PageSize \in first..(last + 1) - 1
      BY <1>3, <3>1, <3>2, PageBetween
    <3> QED BY <1>7, <3>3 DEF PageOf
  <2>6. arg[1]..arg[1] + arg[2] - 1 \subseteq Touched'
    <3>1. start <= arg[1] /\ arg[1] + arg[2] <= start + length
      BY <1>2, <1>3, <1>4
    <3> QED BY <1>1, <1>4, <1>5, <3>1
  <2> QED BY <1>1, <2>4, <2>5, <2>6 DEF PagesAsked, first, last
<1> QED BY <1>1, <1>8 DEF AreaInv, OnArea

(* The loop of eio__mtouch stops after a page whose successor lies at or   *)
(* behind the length: there is such a page, as addresses grow by a page.   *)
LEMMA LastTouched ==
  ASSUME NEW first \in Nat, NEW pages \in Nat \ {0}
  PROVE  \E n \in 1..pages * PageSize + 1 :
            /\ n = 1 \/ first * PageSize + (n - 1) * PageSize < pages * PageSize
            /\ first * PageSize + n * PageSize >= pages * PageSize
<1>1. \A n \in Int : /\ first * PageSize + n * PageSize = (first + n) * PageSize
                     /\ first * PageSize + (n - 1) * PageSize = (first + n - 1) * PageSize
  BY PageAssumption
<1>2. pages <= pages * PageSize /\ pages * PageSize \in Nat
  <2>1. PICK d \in Nat : PageSize = d + 1
    BY PageAssumption
  <2>2. pages * PageSize = pages * d + pages /\ pages * d \in Nat
    BY <2>1
  <2> QED BY <2>2
<1>3. CASE first + 1 >= pages
  <2>1. pages * PageSize <= (first + 1) * PageSize
    BY <1>3, MulLeq
  <2>2. first * PageSize + 1 * PageSize >= pages * PageSize
    <3>1. (first + 1) * PageSize \in Int
      BY PageAssumption
    <3> QED BY <1>1, <1>2, <2>1, <3>1
  <2>3. 1 \in 1..pages * PageSize + 1
    BY <1>2
  <2> QED BY <2>2, <2>3
<1>4. CASE first + 1 < pages
  <2> DEFINE n == pages - first
  <2>1. n \in 1..pages * PageSize + 1 /\ n \in Int
    BY <1>2, <1>4
  <2>2. first + n = pages /\ first + n - 1 = pages - 1
    OBVIOUS
  <2>3. first * PageSize + n * PageSize = pages * PageSize
    BY <1>1, <2>1, <2>2
  <2>4. first * PageSize + (n - 1) * PageSize = (pages - 1) * PageSize
    BY <1>1, <2>1, <2>2
  <2>5. (pages - 1) * PageSize < pages * PageSize
    <3>1. (pages - 1) * PageSize = pages * PageSize - PageSize
      BY PageAssumption
    <3> QED BY <1>2, <3>1, PageAssumption
  <2> HIDE DEF n
  <2>6. first * PageSize + n * PageSize >= pages * PageSize
    BY <1>2, <2>3
  <2> QED BY <2>1, <2>4, <2>5, <2>6
<1> QED BY <1>3, <1>4

LEMMA MtouchPages ==
  ASSUME AreaInv, Mtouch
  PROVE  AreaInv'
<1> DEFINE addr == AlignedAddr(arg[1])
           len == AlignedLen(arg[1], arg[2])
           Stop(n) == /\ n = 1 \/ addr + (n - 1) * PageSize < len
                      /\ addr + n * PageSize >= len
           touches == CHOOSE n \in 1..len+1 : Stop(n)
           first == PageOf(arg[1])
           last == PageOf(LastByte(arg[1], arg[2]))
<1>1. /\ arg' = arg /\ type' = type /\ Runs("mtouch") /\ OnArea
      /\ arg \in Nat \X Nat /\ arg[1] \in Nat /\ arg[2] \in Nat
  BY DEF Mtouch, AreaInv, OnArea, Runs
<1>2. reached' = IF len = 0 THEN << >> ELSE [k \in 1..touches |-> addr + (k - 1) * PageSize]
  BY DEF Mtouch
<1>3. PICK pages \in Nat :
        /\ addr = first * PageSize
        /\ len = pages * PageSize
        /\ pages = 0 \/ first + pages = last + 1
  BY <1>1, AreaPages DEF PageOf
<1>4. first \in Nat /\ first * PageSize \in Nat
  BY <1>1, PageBounds DEF PageOf
<1>5. last \in Nat
  <2>1. LastByte(arg[1], arg[2]) \in Nat
    BY <1>1 DEF LastByte
  <2> QED BY <2>1, PageBounds DEF PageOf
<1>6. ASSUME pages # 0
      PROVE  touches \in 1..len+1 /\ Stop(touches)
  <2>1. \E n \in 1..len+1 : Stop(n)
    <3>1. \E n \in 1..pages * PageSize + 1 :
            /\ n = 1 \/ first * PageSize + (n - 1) * PageSize < pages * PageSize
            /\ first * PageSize + n * PageSize >= pages * PageSize
      BY <1>4, <1>6, LastTouched
    <3> HIDE DEF addr, len, first
    <3> QED BY <1>3, <3>1
  <2> HIDE DEF len, Stop
  <2> QED BY <2>1
<1> HIDE DEF addr, len, touches, first, last
<1>7. ASSUME reached' # << >>
      PROVE  \A x \in Touched' : PageOf(x) \in first..last
  <2>1. pages # 0
    <3>1. len # 0
      BY <1>2, <1>7
    <3>2. 0 * PageSize = 0
      BY PageAssumption
    <3> QED BY <1>3, <3>1, <3>2
  <2>2. /\ touches \in Nat /\ touches >= 1
        /\ touches = 1 \/ addr + (touches - 1) * PageSize < len
        /\ len \in Nat
    <3>1. len \in Nat
      BY <1>3, PageAssumption
    <3> QED BY <1>6, <2>1, <3>1
  <2>3. reached' = [k \in 1..touches |-> addr + (k - 1) * PageSize]
    BY <1>2, <1>7
  <2>4. first + touches - 1 <= last
    <3>1. first + pages = last + 1
      BY <1>3, <2>1
    <3>2. CASE touches = 1
      BY <1>4, <1>5, <2>1, <3>1, <3>2
    <3>3. CASE touches # 1
      <4>1. addr + (touches - 1) * PageSize = (first + touches - 1) * PageSize
        BY <1>3, <1>4, <2>2, PageAssumption
      <4>2. (first + touches - 1) * PageSize < pages * PageSize
        BY <1>3, <2>2, <3>3, <4>1
      <4>3. first + touches - 1 < pages
        <5>1. first + touches - 1 \in Int /\ pages \in Int
          BY <1>4, <2>2
        <5> QED BY <4>2, <5>1, MulLess
      <4> QED BY <1>4, <1>5, <2>2, <3>1, <4>3
    <3> QED BY <3>2, <3>3
  <2>5. ASSUME NEW k \in 1..touches
        PROVE  PageOf(reached'[k]) \in first..last
    <3> DEFINE x == addr + (k - 1) * PageSize
               page == first + k - 1
    <3>1. page \in Nat /\ page >= first /\ page <= last
      BY <1>4, <1>5, <2>2, <2>4
    <3>2. x = page * PageSize
      BY <1>3, <1>4, <2>2, PageAssumption
    <3> HIDE DEF x, page
    <3>3. /\ x \in Nat /\ page * PageSize <= x /\ x < (page + 1) * PageSize
      <4>1. (page + 1) * PageSize = page * PageSize + PageSize /\ page * PageSize \in Nat
        BY <3>1, PageAssumption
      <4> QED BY <3>2, <4>1, PageAssumption
    <3>4. x \div PageSize \in page..(page + 1) - 1
      <4>1. page + 1 \in Nat
        BY <3>1
      <4> QED BY <3>1, <3>3, <4>1, PageBetween
    <3>5. reached'[k] = x
      BY <2>3 DEF x
    <3>6. x \div PageSize \in first..last
      BY <1>4, <1>5, <3>1, <3>4
    <3> QED BY <3>5, <3>6 DEF PageOf
  <2>6. Len(reached') = touches
    BY <2>2, <2>3
  <2> QED BY <2>5, <2>6 DEF Touched
<1>8. ASSUME reached' # << >>
      PROVE  PagesAsked'
  BY <1>1, <1>7, <1>8 DEF PagesAsked, first, last, Runs
<1> QED BY <1>1, <1>8 DEF AreaInv, OnArea

LEMMA InitArea == Init => AreaInv
<1>1. Init => reached = << >> /\ (OnArea => arg \in Areas)
  BY DEF Init, Args, OnArea
<1> QED BY <1>1, ExecuteAssumption DEF AreaInv

LEMMA StepArea == Progress /\ IInv /\ AreaInv /\ [Next]_vars => AreaInv'
<1> SUFFICES ASSUME Progress, IInv, AreaInv, [Next]_vars PROVE AreaInv'
  OBVIOUS
<1>1. CASE CallOnArea \/ Mtouch
  BY <1>1, CallOnAreaPages, MtouchPages
<1>2. CASE Readahead \/ Sendfile \/ SendWrite
  <2>1. ~OnArea /\ type' = type
    BY <1>2 DEF Readahead, Sendfile, SendWrite, Progress, Runs, OnArea
  <2> QED BY <2>1 DEF AreaInv, OnArea
<1>3. ASSUME UNCHANGED <<type, arg, reached>>
      PROVE  AreaInv'
  BY <1>3 DEF AreaInv, PagesAsked, Touched, OnArea, Runs
<1>4. CASE Make \/ Refuse \/ SendfileSync \/ Begin \/ AllocFlag \/ AllocMemory \/ AllocStore
           \/ Call \/ DBuf \/ SendRead
  BY <1>3, <1>4 DEF Make, Refuse, SendfileSync, Begin, AllocFlag, AllocMemory, AllocStore,
                    Call, DBuf, SendRead, transfer
<1>5. CASE Cancel \/ Scandir \/ Post \/ SendfileSyncReturn \/ Finish \/ Destroy \/ ForkChild
           \/ UNCHANGED vars
  BY <1>3, <1>5 DEF Cancel, Scandir, Post, SendfileSyncReturn, Finish, Destroy, ForkChild,
                    vars, transfer
<1> QED BY <1>1, <1>2, <1>4, <1>5 DEF Next, WorkerNext

(* msync and mlock get every byte of the area and only pages that hold a   *)
(* part of it; eio__mtouch touches no page that does not: for every        *)
(* address, length and page size.                                          *)
THEOREM InAreaKept == Spec => []InArea
<1>1. Init => Progress /\ AreaInv
  BY InitProgress, InitArea
<1>2. IInv /\ Progress /\ AreaInv /\ [Next]_vars => Progress' /\ AreaInv'
  BY StepProgress, StepArea
<1>3. AreaInv => InArea
  BY InAreaPages DEF AreaInv, OnArea
<1> QED BY <1>1, <1>2, <1>3, Invariant, PTL DEF Spec

=============================================================================
