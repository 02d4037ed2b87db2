------------------------------ MODULE DentSort ------------------------------
(***************************************************************************)
(* eio_dent_sort of ext/libeio/eio.c: a radix pass over the bits of score  *)
(* and inode that leaves small partitions alone, then an insertion sort    *)
(* without a bounds check, which relies on the radix pass to have brought  *)
(* the smallest entry near the front.  An entry (eio_dirent) is a record   *)
(* with score and inode; what else it holds goes along.                    *)
(***************************************************************************)
EXTENDS Integers, Sequences, FiniteSets

CONSTANTS Cutoff,     \* EIO_SORT_CUTOFF, 30 in the code
          Fast,       \* EIO_SORT_FAST, 60 in the code
          InodeBits   \* the width of ino_t

ASSUME SortAssumption ==
  /\ Cutoff \in Nat \ {0} /\ Fast \in Nat /\ Cutoff <= Fast
  /\ InodeBits \in Nat \ {0}

VARIABLES
  dents, size,      \* the array, from 1; how many of its entries are sorted
  bits,             \* the bits to test
  stk,              \* base_stk, end_stk, bit_stk
  base, end, bit,   \* the partition at hand, end excluded; the bit it is split by
  a, b,             \* the two pointers of a split
  i,                \* the entry to insert next
  spc               \* where the sort is

radix == <<bits, stk, base, end, bit>>
sortvars == <<dents, size, radix, a, b, i, spc>>

SortPc == {"none", "pop", "partition", "split", "next", "min", "insert", "sorted"}

ScoreBits == 3

(* The array bits of the code, as the set of its indices: the bits of the  *)
(* inode below the ones of the score.  Index 0 is the sentinel.            *)
BitsOf_inode(score_bits, inode_bits) ==             \* mutant of BitsOf
  {k + 1 : k \in inode_bits}
BitsOf(score_bits, inode_bits) ==
  {k + 1 : k \in inode_bits} \union {InodeBits + 1 + k : k \in score_bits}

(* 1 << k *)
Shifted[k \in 0..InodeBits + ScoreBits] == IF k = 0 THEN 1 ELSE 2 * Shifted[k - 1]

BitSet(n, k) == (n \div Shifted[k]) % 2 = 1

HasBit(d, k) == IF k <= InodeBits THEN BitSet(d.inode, k - 1)
                                  ELSE BitSet(d.score, k - 1 - InodeBits)

Largest(S) == CHOOSE x \in S : \A y \in S : y <= x

(* --bit *)
BitBelow(k) ==
  LET below == {x \in bits : x < k} IN IF below = {} THEN 0 ELSE Largest(below)

(* eio_dent_cmp (x, y) < 0 *)
Less(x, y) == \/ x.score < y.score
              \/ x.score = y.score /\ x.inode < y.inode

Swap_copies(d, j, k) == [d EXCEPT ![j] = d[k]]      \* mutant of Swap
Swap(d, j, k) == [d EXCEPT ![j] = d[k], ![k] = d[j]]

SortInit ==
  /\ size = 0 /\ bits = {} /\ stk = << >>
  /\ base = 0 /\ end = 0 /\ bit = 0 /\ a = 0 /\ b = 0 /\ i = 0
  /\ spc = "none"

(* eio_dent_sort, up to its loops.                                         *)
Sort(n, score_bits, inode_bits) ==
  LET B == BitsOf(score_bits, inode_bits)
      radixed == n > Fast
  IN  /\ size' = n
      /\ bits' = IF radixed THEN B ELSE {}
      /\ stk' = IF radixed THEN << [base |-> 1, end |-> n + 1, bit |-> Largest(B)] >>
                           ELSE << >>
      /\ spc' = IF n <= 1 THEN "sorted" ELSE IF radixed THEN "pop" ELSE "min"
      /\ UNCHANGED <<base, end, bit, i>>

(* The partition on top of the stack is next. *)
Pop ==
  /\ spc = "pop"
  /\ \/ /\ stk = << >>
        /\ spc' = "min"
        /\ UNCHANGED <<stk, base, end, bit>>
     \/ /\ stk # << >>
        /\ LET top == stk[Len(stk)]
           IN  base' = top.base /\ end' = top.end /\ bit' = top.bit
        /\ stk' = SubSeq(stk, 1, Len(stk) - 1)
        /\ spc' = "partition"
  /\ UNCHANGED <<dents, size, bits, a, b, i>>

(* A small partition is left to the insertion sort. *)
SmallEnough == end - base < Cutoff

Partition ==
  /\ spc = "partition"
  /\ a' = base /\ b' = end
  /\ spc' = IF SmallEnough THEN "pop" ELSE "split"
  /\ UNCHANGED <<dents, size, radix, i>>

(* --b *)
StepBack_not == UNCHANGED b                         \* mutant of StepBack
StepBack == b' = b - 1

(* One round of the loops that split dents[a .. b-1]: the entries that     *)
(* belong to the lower part, given by their places, go to the front.       *)
SplitRound(lower) ==
  \/ /\ a \in lower
     /\ a' = a + 1
     /\ UNCHANGED <<dents, b>>
  \/ /\ a \notin lower
     /\ StepBack
     /\ \/ /\ b - 1 \in lower
           /\ dents' = Swap(dents, a, b - 1)
           /\ a' = a + 1
        \/ /\ b - 1 \notin lower
           /\ UNCHANGED <<dents, a>>

(* ! (((unsigned char * )a)[O] & M) *)
BitClear == {j \in 1..Len(dents) : ~HasBit(dents[j], bit)}

Split ==
  /\ spc = "split"
  /\ SplitRound(BitClear)
  /\ spc' = IF b' > a' THEN "split" ELSE "next"
  /\ UNCHANGED <<size, radix, i>>

(* The upper half waits on the stack while the lower one is split by the   *)
(* next bit, if there is one.                                              *)
NextBit ==
  /\ spc = "next"
  /\ bit' = BitBelow(bit)
  /\ \/ /\ bit' = 0
        /\ spc' = "pop"
        /\ UNCHANGED <<stk, end>>
     \/ /\ bit' # 0
        /\ stk' = Append(stk, [base |-> a, end |-> end, bit |-> bit'])
        /\ end' = a
        /\ spc' = "partition"
  /\ UNCHANGED <<dents, size, bits, base, a, b, i>>

(* How far the insertion sort looks for the smallest entry. *)
MinRange == IF size > Fast THEN Cutoff + 1 ELSE size

(* Where it finds it: it walks downwards and keeps the first of equals.    *)
MinAt ==
  LET least == {j \in 1..MinRange : \A k \in 1..MinRange : ~Less(dents[k], dents[j])}
  IN  IF 1 \in least THEN 1 ELSE Largest(least)

MoveMin ==
  /\ spc = "min"
  /\ dents' = Swap(dents, 1, MinAt)
  /\ i' = 2
  /\ spc' = "insert"
  /\ UNCHANGED <<size, radix, a, b>>

(* The places at which the inner loop of the insertion sort may stop.      *)
Stops == {j \in 1..i-1 : ~Less(dents[i], dents[j])}

Insert ==
  /\ spc = "insert"
  /\ \/ /\ i > size
        /\ spc' = "sorted"
        /\ UNCHANGED <<dents, i>>
     \/ /\ i <= size
        /\ LET j == Largest(Stops)
           IN  dents' = [k \in DOMAIN dents |->
                           IF k = j + 1 THEN dents[i]
                           ELSE IF k \in j+2..i THEN dents[k - 1]
                           ELSE dents[k]]
        /\ i' = i + 1
        /\ UNCHANGED spc
  /\ UNCHANGED <<size, radix, a, b>>

SortNext == Pop \/ Partition \/ Split \/ NextBit \/ MoveMin \/ Insert

-----------------------------------------------------------------------------
(* The inner loop of the insertion sort has no bounds check: something at  *)
(* or before the entry stops it, because the smallest entry of all is      *)
(* first ("the radix pre-pass ensures that the minimum element is in the   *)
(* first EIO_SORT_CUTOFF + 1 elements").                                   *)
InsertionStops == spc = "insert" /\ i <= size => Stops # {}

=============================================================================
