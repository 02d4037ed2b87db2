-------------------------- MODULE EioScandir_proofs --------------------------
(***************************************************************************)
(* Theorems about reading a directory, for every directory, width of       *)
(* inodes and thresholds of the sort: the insertion sort stays in the      *)
(* array, the order is the one asked for and every entry is reported; and  *)
(* the types of all variables of EioExecute.                               *)
(***************************************************************************)
EXTENDS EioExecute_transfers, FiniteSetTheorems, WellFoundedInduction

(* A non-empty set of natural numbers has a least element: the strict      *)
(* subset ordering of the intervals 0..n is well-founded.                  *)
LEMMA LeastNat ==
  ASSUME NEW T \in SUBSET Nat, T # {}
  PROVE  \E x \in T : \A y \in T : x <= y
<1> DEFINE U == {0..n : n \in T}
<1>1. U \subseteq FiniteSubsetsOf(Nat) /\ U # {}
  <2>1. \A n \in Nat : 0..n \subseteq Nat /\ IsFiniteSet(0..n)
    <3> TAKE n \in Nat
    <3>1. IsFiniteSet(0..n) BY FS_Interval, SMT
    <3> QED BY <3>1
  <2> QED BY <2>1 DEF FiniteSubsetsOf
<1>2. \E u \in U : \A v \in U : <<v, u>> \notin StrictSubsetOrdering(Nat)
  <2> HIDE DEF U
  <2> QED BY <1>1, FS_StrictSubsetOrderingWellFounded, WFMin
<1>3. PICK x \in T : \A v \in U : <<v, 0..x>> \notin StrictSubsetOrdering(Nat)
  BY <1>2
<1>4. ASSUME NEW y \in T, y < x PROVE FALSE
  <2>1. 0..y \subseteq 0..x /\ 0..y # 0..x
    <3>1. x \in 0..x /\ x \notin 0..y
      BY <1>4
    <3> QED BY <1>4, <3>1
  <2>2. <<0..y, 0..x>> \in StrictSubsetOrdering(Nat)
    BY <2>1 DEF StrictSubsetOrdering
  <2> QED BY <1>3, <1>4, <2>2
<1> QED BY <1>4

LEMMA LargestOf ==
  ASSUME NEW n \in Nat, NEW S \in SUBSET (0..n), S # {}
  PROVE  Largest(S) \in S /\ \A y \in S : y <= Largest(S)
<1> DEFINE T == {n - y : y \in S}
<1>1. T \in SUBSET Nat /\ T # {}
  <2>1. \A y \in S : y \in 0..n /\ n - y \in Nat
    OBVIOUS
  <2> QED BY <2>1
<1>2. PICK t \in T : \A u \in T : t <= u
  <2> HIDE DEF T
  <2> QED BY <1>1, LeastNat
<1>3. PICK x \in S : t = n - x
  OBVIOUS
<1>4. \A y \in S : y <= x
  <2> SUFFICES ASSUME NEW y \in S PROVE y <= x
    OBVIOUS
  <2>1. n - x <= n - y
    BY <1>2, <1>3
  <2> QED BY <2>1
<1> QED BY <1>4 DEF Largest

-----------------------------------------------------------------------------
(* Powers of two and the bits of a number. *)
Top == InodeBits + ScoreBits

LEMMA TopFacts == InodeBits \in Nat \ {0} /\ Top \in Nat /\ Top = InodeBits + 3
BY SortAssumption DEF Top, ScoreBits

(* The recursion of Shifted has a solution: the numbers up to which it has *)
(* one have no least that fails.                                           *)
Powers(f, n) == f = [k \in 0..n |-> IF k = 0 THEN 1 ELSE 2 * f[k - 1]]

LEMMA PowersExist == \E f : Powers(f, Top)
<1> DEFINE T == {n \in Nat : ~\E f : Powers(f, n)}
<1>1. CASE T = {}
  BY <1>1, TopFacts
<1>2. CASE T # {}
  <2>1. PICK n \in T : \A m \in T : n <= m
    <3> HIDE DEF T
    <3>1. T \in SUBSET Nat
      BY DEF T
    <3> QED BY <1>2, <3>1, LeastNat
  <2>2. CASE n = 0
    <3>1. Powers([k \in 0..0 |-> 1], 0)
      BY DEF Powers
    <3> QED BY <2>1, <2>2, <3>1
  <2>3. CASE n # 0
    <3>1. PICK f : Powers(f, n - 1)
      BY <2>1, <2>3
    <3> DEFINE g == [k \in 0..n |-> IF k = n THEN 2 * f[n - 1] ELSE f[k]]
    <3>2. Powers(g, n)
      <4> SUFFICES ASSUME NEW k \in 0..n
                   PROVE  g[k] = IF k = 0 THEN 1 ELSE 2 * g[k - 1]
        BY DEF Powers
      <4>1. CASE k = n
        BY <2>1, <2>3, <4>1
      <4>2. CASE k # n
        <5>1. k \in 0..n-1 /\ g[k] = f[k] /\ (k # 0 => g[k - 1] = f[k - 1])
          BY <2>1, <2>3, <4>2
        <5>2. f[k] = IF k = 0 THEN 1 ELSE 2 * f[k - 1]
          BY <3>1, <5>1 DEF Powers
        <5> QED BY <5>1, <5>2
      <4> QED BY <4>1, <4>2
    <3> QED BY <2>1, <3>2
  <2> QED BY <2>2, <2>3
<1> QED BY <1>1, <1>2

LEMMA ShiftedIs == Powers(Shifted, Top)
BY PowersExist DEF Shifted, Powers, Top

LEMMA ShiftedFacts ==
  /\ Shifted[0] = 1
  /\ \A k \in 1..Top : Shifted[k] = 2 * Shifted[k - 1]
  /\ \A k \in 0..Top : Shifted[k] \in Nat \ {0}
<1>1. /\ Shifted[0] = 1
      /\ \A k \in 1..Top : Shifted[k] = 2 * Shifted[k - 1]
  BY ShiftedIs, TopFacts DEF Powers
<1>2. \A k \in 0..Top : Shifted[k] \in Nat \ {0}
  <2> DEFINE T == {k \in 0..Top : Shifted[k] \notin Nat \ {0}}
  <2> SUFFICES ASSUME T # {} PROVE FALSE
    OBVIOUS
  <2>1. PICK k \in T : \A m \in T : k <= m
    <3>1. T \in SUBSET Nat
      OBVIOUS
    <3> HIDE DEF T
    <3> QED BY <3>1, LeastNat
  <2>2. k # 0
    BY <1>1, <2>1
  <2>3. k - 1 \in 0..Top /\ k - 1 \notin T
    BY <2>1, <2>2, TopFacts
  <2> QED BY <1>1, <2>1, <2>2, <2>3
<1> QED BY <1>1, <1>2

(* Halving once more drops the lowest bit. *)
LEMMA Halves ==
  ASSUME NEW n \in Nat, NEW p \in Nat \ {0}
  PROVE  /\ n \div p \in Nat /\ n \div (2 * p) \in Nat
         /\ n \div p = 2 * (n \div (2 * p)) + ((n \div p) % 2)
         /\ (n \div p) % 2 \in {0, 1}
<1> DEFINE q == n \div p
           s == q \div 2
           t == q % 2
<1>1. q \in Nat /\ p * q <= n /\ n < p * (q + 1)
  OBVIOUS
<1>2. s \in Nat /\ t \in {0, 1} /\ q = 2 * s + t
  <2> HIDE DEF q
  <2> QED BY <1>1
<1>3. (2 * p) * s <= n /\ n < (2 * p) * (s + 1)
  <2> HIDE DEF q, s, t
  <2>1. p * q = (2 * p) * s + p * t /\ p * (q + 1) = (2 * p) * s + p * (t + 1)
    BY <1>1, <1>2
  <2>2. 0 <= p * t /\ p * (t + 1) <= 2 * p
    BY <1>2
  <2>3. (2 * p) * (s + 1) = (2 * p) * s + 2 * p
    BY <1>2
  <2> QED BY <1>1, <1>2, <2>1, <2>2, <2>3
<1>4. n \div (2 * p) = s
  <2> HIDE DEF q, s, t
  <2> QED BY <1>2, <1>3
<1> QED BY <1>1, <1>2, <1>4

(* Numbers that agree in their high bits agree without the low ones.       *)
Narrow(n, w) == n \in Nat /\ n < Shifted[w]

LEMMA HighBits ==
  ASSUME NEW w \in 0..Top, NEW k \in 0..w,
         NEW m, NEW n, Narrow(m, w), Narrow(n, w),
         \A l \in k..w-1 : BitSet(m, l) <=> BitSet(n, l)
  PROVE  m \div Shifted[k] = n \div Shifted[k]
<1> DEFINE T == {d \in 0..w-k : m \div Shifted[w - d] # n \div Shifted[w - d]}
<1>0. m \in Nat /\ n \in Nat /\ w \in Nat /\ k \in Nat /\ k <= w /\ w <= Top /\ Top \in Nat
  BY TopFacts DEF Narrow
<1>1. CASE T = {}
  <2>1. w - k \in 0..w-k /\ w - (w - k) = k
    BY <1>0
  <2> QED BY <1>1, <2>1
<1>2. CASE T # {}
  <2>1. PICK d \in T : \A e \in T : d <= e
    <3>1. T \in SUBSET Nat
      BY <1>0
    <3> HIDE DEF T
    <3> QED BY <1>2, <3>1, LeastNat
  <2>2. d # 0
    <3>1. Shifted[w] \in Nat \ {0} /\ m < Shifted[w] /\ n < Shifted[w]
      BY ShiftedFacts DEF Narrow
    <3>2. m \div Shifted[w] = 0 /\ n \div Shifted[w] = 0
      BY <1>0, <3>1
    <3>3. w - 0 = w
      BY <1>0
    <3> QED BY <2>1, <3>2, <3>3
  <2> DEFINE l == w - d
             p == Shifted[l]
  <2>3. /\ l \in k..w-1 /\ l + 1 \in 1..Top /\ l \in 0..Top
        /\ d - 1 \in 0..w-k /\ w - (d - 1) = l + 1
    BY <1>0, <2>1, <2>2
  <2>4. p \in Nat \ {0} /\ Shifted[l + 1] = 2 * p
    <3>1. (l + 1) - 1 = l
      BY <2>3
    <3> HIDE DEF l
    <3> QED BY <2>3, <3>1, ShiftedFacts
  <2>5. m \div (2 * p) = n \div (2 * p)
    <3>1. d - 1 \notin T
      BY <1>0, <2>1, <2>2
    <3> QED BY <2>3, <2>4, <3>1
  <2>6. (m \div p) % 2 = 1 <=> (n \div p) % 2 = 1
    BY <2>3 DEF BitSet
  <2>7. /\ m \div p = 2 * (m \div (2 * p)) + ((m \div p) % 2) /\ (m \div p) % 2 \in {0, 1}
        /\ n \div p = 2 * (n \div (2 * p)) + ((n \div p) % 2) /\ (n \div p) % 2 \in {0, 1}
    <3> HIDE DEF p
    <3> QED BY <1>0, <2>4, Halves
  <2>8. (m \div p) % 2 = (n \div p) % 2
    BY <2>6, <2>7
  <2>9. m \div p = n \div p
    <3> HIDE DEF p
    <3> QED BY <2>5, <2>7, <2>8
  <2> QED BY <2>1, <2>9
<1> QED BY <1>1, <1>2

(* The highest bit in which two numbers differ decides. *)
LEMMA BitOrder ==
  ASSUME NEW w \in 0..Top, NEW k \in 0..w-1,
         NEW m, NEW n, Narrow(m, w), Narrow(n, w),
         \A l \in k+1..w-1 : BitSet(m, l) <=> BitSet(n, l),
         ~BitSet(m, k), BitSet(n, k)
  PROVE  m < n
<1> DEFINE p == Shifted[k]
<1>0. m \in Nat /\ n \in Nat /\ k \in 0..Top /\ k + 1 \in 1..Top /\ k + 1 \in 0..w
  BY TopFacts DEF Narrow
<1>1. p \in Nat \ {0} /\ Shifted[k + 1] = 2 * p
  <2>1. (k + 1) - 1 = k
    BY <1>0
  <2> QED BY <1>0, <2>1, ShiftedFacts
<1>2. m \div (2 * p) = n \div (2 * p)
  <2>1. m \div Shifted[k + 1] = n \div Shifted[k + 1]
    BY <1>0, HighBits
  <2> QED BY <1>1, <2>1
<1>3. (m \div p) % 2 # 1 /\ (n \div p) % 2 = 1
  BY DEF BitSet
<1>4. /\ m \div p = 2 * (m \div (2 * p)) + ((m \div p) % 2) /\ (m \div p) % 2 \in {0, 1}
      /\ n \div p = 2 * (n \div (2 * p)) + ((n \div p) % 2) /\ (n \div p) % 2 \in {0, 1}
      /\ m \div p \in Nat /\ n \div p \in Nat /\ n \div (2 * p) \in Nat
  <2> HIDE DEF p
  <2> QED BY <1>0, <1>1, Halves
<1>5. m \div p < n \div p
  <2> HIDE DEF p
  <2> QED BY <1>2, <1>3, <1>4
<1> HIDE DEF p
<1>6. CASE n <= m
  <2>1. n \div p <= m \div p
    BY <1>0, <1>1, <1>6
  <2> QED BY <1>4, <1>5, <2>1
<1> QED BY <1>0, <1>6

LEMMA BitsEqual ==
  ASSUME NEW w \in 0..Top, NEW m, NEW n, Narrow(m, w), Narrow(n, w),
         \A l \in 0..w-1 : BitSet(m, l) <=> BitSet(n, l)
  PROVE  m = n
<1>1. m \div Shifted[0] = n \div Shifted[0] /\ 0 \in 0..w
  <2>1. 0 \in 0..w
    BY TopFacts
  <2> QED BY <2>1, HighBits
<1>2. m \div 1 = m /\ n \div 1 = n
  BY DEF Narrow
<1> QED BY <1>1, <1>2, ShiftedFacts

LEMMA SomeBit ==
  ASSUME NEW w \in 0..Top, NEW n, Narrow(n, w), n # 0
  PROVE  \E l \in 0..w-1 : BitSet(n, l)
<1>1. Narrow(0, w)
  BY ShiftedFacts DEF Narrow
<1>2. \A l \in 0..w-1 : ~BitSet(0, l)
  <2> SUFFICES ASSUME NEW l \in 0..w-1 PROVE (0 \div Shifted[l]) % 2 # 1
    BY DEF BitSet
  <2>1. Shifted[l] \in Nat \ {0}
    BY ShiftedFacts, TopFacts
  <2>2. 0 \div Shifted[l] = 0
    BY <2>1
  <2> QED BY <2>2
<1> QED BY <1>1, <1>2, BitsEqual

-----------------------------------------------------------------------------
(* The order of entries, and the bits that decide it. *)
Entry == [nameofs : Nat, type : {"dir", "unknown", "other"}, score : 0..7,
          inode : 1..Shifted[InodeBits]-1]

LEMMA EntryFacts ==
  \A x \in Entry : /\ x.score \in Nat /\ x.inode \in Nat
                   /\ Narrow(x.score, 3) /\ Narrow(x.inode, InodeBits)
                   /\ x.inode # 0
<1>1. Shifted[3] = 8
  <2>1. 1 \in 1..Top /\ 2 \in 1..Top /\ 3 \in 1..Top
    BY TopFacts
  <2>2. Shifted[1] = 2 * Shifted[1 - 1] /\ Shifted[2] = 2 * Shifted[2 - 1]
        /\ Shifted[3] = 2 * Shifted[3 - 1]
    BY <2>1, ShiftedFacts
  <2> QED BY <2>2, ShiftedFacts
<1>2. Shifted[InodeBits] \in Nat \ {0}
  BY ShiftedFacts, TopFacts
<1> SUFFICES ASSUME NEW x \in Entry
             PROVE  /\ x.score \in Nat /\ x.inode \in Nat
                    /\ Narrow(x.score, 3) /\ Narrow(x.inode, InodeBits)
                    /\ x.inode # 0
  OBVIOUS
<1>3. x.score \in 0..7 /\ x.inode \in 1..Shifted[InodeBits]-1
  BY DEF Entry
<1> QED BY <1>1, <1>2, <1>3 DEF Narrow

LEMMA LessFacts ==
  \A x, y, z \in Entry :
    /\ ~Less(x, x)
    /\ Less(x, y) => ~Less(y, x)
    /\ ~Less(y, x) /\ ~Less(z, y) => ~Less(z, x)
<1> SUFFICES ASSUME NEW x \in Entry, NEW y \in Entry, NEW z \in Entry
             PROVE  /\ ~Less(x, x)
                    /\ Less(x, y) => ~Less(y, x)
                    /\ ~Less(y, x) /\ ~Less(z, y) => ~Less(z, x)
  OBVIOUS
<1>1. /\ x.score \in Nat /\ x.inode \in Nat /\ y.score \in Nat /\ y.inode \in Nat
      /\ z.score \in Nat /\ z.inode \in Nat
  BY EntryFacts
<1> QED BY <1>1 DEF Less

Array(d, n) == d \in Seq(Entry) /\ n \in 0..Len(d)

LEMMA InArray ==
  ASSUME NEW d, NEW n, Array(d, n), NEW j \in 1..n
  PROVE  d[j] \in Entry /\ j \in 1..Len(d)
BY DEF Array

Smallest(d, n, m) == m \in 1..n /\ \A k \in 1..n : ~Less(d[k], d[m])

(* The first entries, however many, have a smallest one. *)
LEMMA SmallestExists ==
  ASSUME NEW d, NEW n, Array(d, n), n # 0
  PROVE  \E m \in 1..n : Smallest(d, n, m)
<1>1. \A j \in 1..n : d[j].score \in Nat /\ d[j].inode \in Nat
  BY InArray, EntryFacts
<1>2. 1 \in 1..n
  BY DEF Array
<1> DEFINE S == {d[j].score : j \in 1..n}
<1>3. PICK s \in S : \A t \in S : s <= t
  <2>1. S \in SUBSET Nat /\ S # {}
    BY <1>1, <1>2
  <2> HIDE DEF S
  <2> QED BY <2>1, LeastNat
<1> DEFINE I == {d[j].inode : j \in {k \in 1..n : d[k].score = s}}
<1>4. PICK o \in I : \A p \in I : o <= p
  <2>1. I \in SUBSET Nat /\ I # {}
    BY <1>1, <1>3
  <2> HIDE DEF I
  <2> QED BY <2>1, LeastNat
<1>5. PICK m \in 1..n : d[m].score = s /\ d[m].inode = o
  BY <1>4
<1>6. ASSUME NEW k \in 1..n PROVE ~Less(d[k], d[m])
  <2>1. s <= d[k].score
    BY <1>3
  <2>2. d[k].score = s => o <= d[k].inode
    BY <1>4
  <2> QED BY <1>1, <1>5, <2>1, <2>2 DEF Less
<1> QED BY <1>5, <1>6 DEF Smallest

(* The bits that are tested tell apart whatever Less does. *)
Keyed(d, n, B) ==
  /\ \A j \in 1..n, k \in 0..InodeBits-1 : BitSet(d[j].inode, k) => k + 1 \in B
  /\ \/ \A j, k \in 1..n : d[j].score = d[k].score
     \/ InodeBits+1..Top \subseteq B

(* x and y agree in the tested bits above k. *)
Same(B, x, y, k) == \A l \in B : l > k => (HasBit(x, l) <=> HasBit(y, l))

LEMMA ScoresEqual ==
  ASSUME NEW d, NEW n, NEW B, Array(d, n), Keyed(d, n, B),
         NEW j \in 1..n, NEW k \in 1..n, NEW l \in 0..InodeBits, Same(B, d[j], d[k], l)
  PROVE  d[j].score = d[k].score
<1>1. CASE InodeBits+1..Top \subseteq B
  <2>1. ASSUME NEW q \in 0..2 PROVE BitSet(d[j].score, q) <=> BitSet(d[k].score, q)
    <3> DEFINE p == InodeBits + 1 + q
    <3>1. p \in B /\ p > l /\ ~(p <= InodeBits) /\ p - 1 - InodeBits = q
      BY <1>1, TopFacts
    <3> HIDE DEF p
    <3>2. HasBit(d[j], p) <=> HasBit(d[k], p)
      BY <3>1 DEF Same
    <3> QED BY <3>1, <3>2 DEF HasBit
  <2>2. Narrow(d[j].score, 3) /\ Narrow(d[k].score, 3) /\ 3 \in 0..Top
    BY InArray, EntryFacts, TopFacts
  <2>3. \A q \in 0..3-1 : BitSet(d[j].score, q) <=> BitSet(d[k].score, q)
    BY <2>1
  <2> QED BY <2>2, <2>3, BitsEqual
<1> QED BY <1>1 DEF Keyed

LEMMA InodeBitsAgree ==
  ASSUME NEW d, NEW n, NEW B, Keyed(d, n, B),
         NEW j \in 1..n, NEW k \in 1..n, NEW l \in 0..InodeBits, Same(B, d[j], d[k], l)
  PROVE  \A q \in l..InodeBits-1 : BitSet(d[j].inode, q) <=> BitSet(d[k].inode, q)
<1> SUFFICES ASSUME NEW q \in l..InodeBits-1
             PROVE  BitSet(d[j].inode, q) <=> BitSet(d[k].inode, q)
  OBVIOUS
<1>1. q \in 0..InodeBits-1 /\ q + 1 > l /\ q + 1 <= InodeBits /\ (q + 1) - 1 = q
  BY TopFacts
<1>2. CASE q + 1 \in B
  <2>1. HasBit(d[j], q + 1) <=> HasBit(d[k], q + 1)
    BY <1>1, <1>2 DEF Same
  <2> QED BY <1>1, <2>1 DEF HasBit
<1>3. CASE q + 1 \notin B
  BY <1>1, <1>3 DEF Keyed
<1> QED BY <1>2, <1>3

(* The first tested bit in which two entries differ decides. *)
LEMMA KeyDecides ==
  ASSUME NEW d, NEW n, NEW B \in SUBSET (1..Top), Array(d, n), Keyed(d, n, B),
         NEW j \in 1..n, NEW k \in 1..n, NEW l \in B, Same(B, d[j], d[k], l),
         ~HasBit(d[j], l), HasBit(d[k], l)
  PROVE  Less(d[j], d[k])
<1>0. l \in 1..Top /\ Top = InodeBits + 3 /\ InodeBits \in Nat \ {0}
  BY TopFacts
<1>1. CASE l <= InodeBits
  <2>1. l \in 0..InodeBits /\ l - 1 \in 0..InodeBits-1 /\ (l - 1) + 1 = l
    BY <1>0, <1>1
  <2>2. d[j].score = d[k].score
    BY <2>1, ScoresEqual
  <2>3. \A q \in l..InodeBits-1 : BitSet(d[j].inode, q) <=> BitSet(d[k].inode, q)
    BY <2>1, InodeBitsAgree
  <2>4. ~BitSet(d[j].inode, l - 1) /\ BitSet(d[k].inode, l - 1)
    BY <1>1 DEF HasBit
  <2>5. Narrow(d[j].inode, InodeBits) /\ Narrow(d[k].inode, InodeBits) /\ InodeBits \in 0..Top
    BY <1>0, InArray, EntryFacts
  <2>6. d[j].inode < d[k].inode
    BY <2>1, <2>3, <2>4, <2>5, BitOrder
  <2> QED BY <2>2, <2>6 DEF Less
<1>2. CASE ~(l <= InodeBits)
  <2> DEFINE c == l - 1 - InodeBits
  <2>1. c \in 0..2 /\ l = InodeBits + 1 + c
    BY <1>0, <1>2
  <2>2. ~BitSet(d[j].score, c) /\ BitSet(d[k].score, c)
    BY <1>2 DEF HasBit
  <2>3. InodeBits+1..Top \subseteq B
    BY <2>2 DEF Keyed
  <2>4. ASSUME NEW q \in c+1..2 PROVE BitSet(d[j].score, q) <=> BitSet(d[k].score, q)
    <3> DEFINE p == InodeBits + 1 + q
    <3>1. p \in B /\ p > l /\ ~(p <= InodeBits) /\ p - 1 - InodeBits = q
      BY <1>0, <2>1, <2>3
    <3> HIDE DEF p
    <3>2. HasBit(d[j], p) <=> HasBit(d[k], p)
      BY <3>1 DEF Same
    <3> QED BY <3>1, <3>2 DEF HasBit
  <2>5. Narrow(d[j].score, 3) /\ Narrow(d[k].score, 3) /\ 3 \in 0..Top
    BY <1>0, InArray, EntryFacts
  <2>6. c \in 0..3-1 /\ \A q \in c+1..3-1 : BitSet(d[j].score, q) <=> BitSet(d[k].score, q)
    BY <2>1, <2>4
  <2>7. d[j].score < d[k].score
    <3> HIDE DEF c
    <3> QED BY <2>2, <2>5, <2>6, BitOrder
  <2> QED BY <2>7 DEF Less
<1> QED BY <1>1, <1>2

(* Entries that agree in all tested bits are equal for the order. *)
LEMMA KeysEqual ==
  ASSUME NEW d, NEW n, NEW B, Array(d, n), Keyed(d, n, B),
         NEW j \in 1..n, NEW k \in 1..n, Same(B, d[j], d[k], 0)
  PROVE  ~Less(d[j], d[k])
<1>0. InodeBits \in Nat \ {0} /\ 0 \in 0..InodeBits /\ InodeBits \in 0..Top
  BY TopFacts
<1>1. d[j].score = d[k].score
  BY <1>0, ScoresEqual
<1>2. \A q \in 0..InodeBits-1 : BitSet(d[j].inode, q) <=> BitSet(d[k].inode, q)
  BY <1>0, InodeBitsAgree
<1>3. d[j].inode = d[k].inode
  <2>1. Narrow(d[j].inode, InodeBits) /\ Narrow(d[k].inode, InodeBits)
    BY InArray, EntryFacts
  <2> QED BY <1>0, <1>2, <2>1, BitsEqual
<1>4. d[j].score \in Nat /\ d[j].inode \in Nat
  BY InArray, EntryFacts
<1> QED BY <1>1, <1>3, <1>4 DEF Less

-----------------------------------------------------------------------------
(* Steps of the sort only move entries, within dents[lo .. hi-1].          *)
Permuted(d, e, lo, hi) ==
  /\ e \in Seq(Entry) /\ Len(e) = Len(d)
  /\ \A j \in 1..Len(d) : j \notin lo..hi-1 => e[j] = d[j]
  /\ \A j \in lo..hi-1 : \E k \in lo..hi-1 : e[j] = d[k]
  /\ \A k \in lo..hi-1 : \E j \in lo..hi-1 : e[j] = d[k]

LEMMA NothingPermuted ==
  ASSUME NEW d \in Seq(Entry), NEW lo, NEW hi
  PROVE  Permuted(d, d, lo, hi)
BY DEF Permuted

LEMMA SwapPermutes ==
  ASSUME NEW d \in Seq(Entry), NEW lo \in Nat, NEW hi \in Nat, hi <= Len(d) + 1, 1 <= lo,
         NEW j \in lo..hi-1, NEW k \in lo..hi-1
  PROVE  /\ Permuted(d, Swap(d, j, k), lo, hi)
         /\ Swap(d, j, k)[j] = d[k] /\ Swap(d, j, k)[k] = d[j]
         /\ \A l \in 1..Len(d) : l # j /\ l # k => Swap(d, j, k)[l] = d[l]
<1> DEFINE e == Swap(d, j, k)
<1>1. j \in 1..Len(d) /\ k \in 1..Len(d)
  OBVIOUS
<1>2. e \in Seq(Entry) /\ Len(e) = Len(d)
  BY <1>1 DEF Swap
<1>3. e[j] = d[k] /\ e[k] = d[j] /\ \A l \in 1..Len(d) : l # j /\ l # k => e[l] = d[l]
  BY <1>1 DEF Swap
<1> HIDE DEF e
<1>4. \A l \in 1..Len(d) : l \notin lo..hi-1 => e[l] = d[l]
  BY <1>3
<1>5. ASSUME NEW l \in lo..hi-1 PROVE \E m \in lo..hi-1 : e[l] = d[m]
  <2>1. l \in 1..Len(d)
    OBVIOUS
  <2> QED BY <1>3, <2>1
<1>6. ASSUME NEW l \in lo..hi-1 PROVE \E m \in lo..hi-1 : e[m] = d[l]
  <2>1. l \in 1..Len(d)
    OBVIOUS
  <2> QED BY <1>3, <2>1
<1> QED BY <1>2, <1>3, <1>4, <1>5, <1>6 DEF e, Permuted

LEMMA PermutedWider ==
  ASSUME NEW d \in Seq(Entry), NEW e, NEW lo \in Nat, NEW hi \in Nat, NEW n \in 0..Len(d),
         1 <= lo, hi <= n + 1, Permuted(d, e, lo, hi)
  PROVE  Permuted(d, e, 1, n + 1)
<1>1. ASSUME NEW j \in 1..n PROVE \E k \in 1..n : e[j] = d[k]
  <2>1. CASE j \in lo..hi-1
    <3>1. PICK k \in lo..hi-1 : e[j] = d[k]
      BY <2>1 DEF Permuted
    <3>2. k \in 1..n
      OBVIOUS
    <3> QED BY <3>1, <3>2
  <2>2. CASE j \notin lo..hi-1
    BY <2>2 DEF Permuted
  <2> QED BY <2>1, <2>2
<1>2. ASSUME NEW k \in 1..n PROVE \E j \in 1..n : e[j] = d[k]
  <2>1. CASE k \in lo..hi-1
    <3>1. PICK j \in lo..hi-1 : e[j] = d[k]
      BY <2>1 DEF Permuted
    <3>2. j \in 1..n
      OBVIOUS
    <3> QED BY <3>1, <3>2
  <2>2. CASE k \notin lo..hi-1
    BY <2>2 DEF Permuted
  <2> QED BY <2>1, <2>2
<1>3. \A j \in 1..Len(d) : j \notin 1..n => e[j] = d[j]
  BY DEF Permuted
<1>4. (n + 1) - 1 = n
  OBVIOUS
<1> QED BY <1>1, <1>2, <1>3, <1>4 DEF Permuted

LEMMA KeyedKept ==
  ASSUME NEW d, NEW e, NEW n, NEW B, Array(d, n), Permuted(d, e, 1, n + 1), Keyed(d, n, B)
  PROVE  Keyed(e, n, B)
<1>1. \A j \in 1..n : \E k \in 1..n : e[j] = d[k]
  <2>1. (n + 1) - 1 = n
    BY DEF Array
  <2> QED BY <2>1 DEF Permuted
<1>2. ASSUME NEW j \in 1..n, NEW q \in 0..InodeBits-1, BitSet(e[j].inode, q)
      PROVE  q + 1 \in B
  <2>1. PICK k \in 1..n : e[j] = d[k]
    BY <1>1
  <2> QED BY <1>2, <2>1 DEF Keyed
<1>3. CASE \A j, k \in 1..n : d[j].score = d[k].score
  <2>1. ASSUME NEW j \in 1..n, NEW k \in 1..n PROVE e[j].score = e[k].score
    <3>1. PICK p \in 1..n : e[j] = d[p]
      BY <1>1
    <3>2. PICK q \in 1..n : e[k] = d[q]
      BY <1>1
    <3> QED BY <1>3, <3>1, <3>2
  <2> QED BY <1>2, <2>1 DEF Keyed
<1>4. CASE InodeBits+1..Top \subseteq B
  BY <1>2, <1>4 DEF Keyed
<1> QED BY <1>3, <1>4 DEF Keyed

(* A smallest entry stays one where it is not moved. *)
LEMMA SmallestKept ==
  ASSUME NEW d, NEW e, NEW n, Array(d, n), NEW lo \in Nat, NEW hi \in Nat, 1 <= lo, hi <= n + 1,
         Permuted(d, e, lo, hi), NEW m, m < lo, Smallest(d, n, m)
  PROVE  Smallest(e, n, m)
<1>1. m \in 1..n /\ m \in 1..Len(d) /\ m \notin lo..hi-1
  BY DEF Smallest, Array
<1>2. e[m] = d[m]
  BY <1>1 DEF Permuted
<1>3. \A j \in 1..n : \E k \in 1..n : e[j] = d[k]
  <2>1. (n + 1) - 1 = n /\ d \in Seq(Entry) /\ n \in 0..Len(d)
    BY DEF Array
  <2>2. Permuted(d, e, 1, n + 1)
    BY <2>1, PermutedWider
  <2> QED BY <2>1, <2>2 DEF Permuted
<1> QED BY <1>1, <1>2, <1>3 DEF Smallest

(* dents[lo .. hi-1] is a partition that is to be split by bit k: its      *)
(* entries agree in the bits above k and come before all that follow it.   *)
Parted(d, n, B, lo, hi, k) ==
  /\ lo \in 1..hi /\ hi \in 1..n+1 /\ k \in B
  /\ \A x, y \in lo..hi-1 : Same(B, d[x], d[y], k)
  /\ \A x \in lo..hi-1, y \in hi..n : Less(d[x], d[y])

LEMMA PartedKept ==
  ASSUME NEW d, NEW e, NEW n, Array(d, n), NEW lo \in Nat, NEW hi \in Nat,
         1 <= lo, hi <= n + 1, Permuted(d, e, lo, hi),
         NEW B, NEW l \in Nat, NEW h \in Nat, NEW k, Parted(d, n, B, l, h, k),
         hi <= l \/ (l = lo /\ h = hi)
  PROVE  Parted(e, n, B, l, h, k)
<1>0. n \in Nat /\ n <= Len(d) /\ Len(d) \in Nat
  BY DEF Array
<1>1. ASSUME NEW y \in h..n PROVE e[y] = d[y]
  <2>1. y \in 1..Len(d) /\ y \notin lo..hi-1
    BY <1>0 DEF Parted
  <2> QED BY <2>1 DEF Permuted
<1>2. ASSUME NEW x \in l..h-1 PROVE \E z \in l..h-1 : e[x] = d[z]
  <2>1. CASE hi <= l
    <3>1. x \in 1..Len(d) /\ x \notin lo..hi-1
      BY <1>0, <2>1 DEF Parted
    <3> QED BY <3>1 DEF Permuted
  <2>2. CASE l = lo /\ h = hi
    BY <2>2 DEF Permuted
  <2> QED BY <2>1, <2>2
<1>3. ASSUME NEW x \in l..h-1, NEW y \in l..h-1 PROVE Same(B, e[x], e[y], k)
  <2>1. PICK p \in l..h-1 : e[x] = d[p]
    BY <1>2
  <2>2. PICK q \in l..h-1 : e[y] = d[q]
    BY <1>2
  <2> QED BY <2>1, <2>2 DEF Parted
<1>4. ASSUME NEW x \in l..h-1, NEW y \in h..n PROVE Less(e[x], e[y])
  <2>1. PICK p \in l..h-1 : e[x] = d[p]
    BY <1>2
  <2> QED BY <1>1, <2>1 DEF Parted
<1> QED BY <1>3, <1>4 DEF Parted

-----------------------------------------------------------------------------
(* The invariant of the sort. *)
Sorted(d, n) == \A j, k \in 1..n : j < k => ~Less(d[k], d[j])

(* Where the partitions that wait on the stack begin; they follow each     *)
(* other up to the end.                                                    *)
Above(s, n, k) == IF k = 0 THEN n + 1 ELSE s[k].base

Stacked(d, n, B, s) ==
  /\ \A k \in 1..Len(s) : /\ s[k].end = Above(s, n, k - 1)
                          /\ Parted(d, n, B, s[k].base, s[k].end, s[k].bit)
  /\ \A j, k \in 1..Len(s) : j < k => s[k].end <= s[j].base

(* Unless f is the first entry of all, a smallest one is before it, and    *)
(* among the first Cutoff.                                                 *)
Settled(d, n, f) == f = 1 \/ \E m \in 1..Cutoff : m < f /\ Smallest(d, n, m)

AtHand == spc \in {"partition", "split", "next"} =>
  /\ end = Above(stk, size, Len(stk))
  /\ Parted(dents, size, bits, base, end, bit)
  /\ Settled(dents, size, base)

Halved == spc \in {"split", "next"} =>
  /\ base < end /\ base <= a /\ a <= b /\ b <= end
  /\ spc = "split" => a < b
  /\ spc = "next" => a = b
  /\ \A j \in base..a-1 : ~HasBit(dents[j], bit)
  /\ \A j \in b..end-1 : HasBit(dents[j], bit)

Radixing ==
  /\ spc \in {"pop", "partition", "split", "next"} => size > Fast
  /\ spc = "pop" => Settled(dents, size, Above(stk, size, Len(stk)))
  /\ Stacked(dents, size, bits, stk) /\ AtHand /\ Halved

Inserting ==
  /\ spc \in {"min", "insert"} => size > 1 /\ stk = << >>
  /\ spc = "min" /\ size > Fast => Settled(dents, size, size + 1)
  /\ spc = "insert" => /\ i \in 2..size+1
                       /\ Smallest(dents, size, 1) /\ Sorted(dents, i - 1)
  /\ spc = "sorted" => Sorted(dents, size)

SortTypes ==
  /\ spc \in SortPc \ {"none"}
  /\ Array(dents, size)
  /\ {base, end, bit, a, b, i} \subseteq Nat
  /\ bits \subseteq 1..Top
  /\ stk \in Seq([base : Nat, end : Nat, bit : Nat])

SortInv ==
  /\ SortTypes
  /\ size > Fast => Keyed(dents, size, bits)
  /\ Radixing /\ Inserting

(* What a step of the sort does to the array. *)
SortStep == size' = size /\ Permuted(dents, dents', 1, size + 1)

LEMMA StackTop ==
  ASSUME SortTypes, stk # << >>
  PROVE  /\ Len(stk) \in 1..Len(stk) /\ Len(stk) - 1 \in Nat
         /\ stk[Len(stk)] \in [base : Nat, end : Nat, bit : Nat]
         /\ SubSeq(stk, 1, Len(stk) - 1) \in Seq([base : Nat, end : Nat, bit : Nat])
         /\ Len(SubSeq(stk, 1, Len(stk) - 1)) = Len(stk) - 1
         /\ \A k \in 1..Len(stk)-1 : SubSeq(stk, 1, Len(stk) - 1)[k] = stk[k]
<1>1. stk \in Seq([base : Nat, end : Nat, bit : Nat])
  BY DEF SortTypes
<1>2. Len(stk) \in Nat \ {0}
  BY <1>1, EmptySeq
<1> DEFINE F == [base : Nat, end : Nat, bit : Nat]
           n == Len(stk) - 1
           t == SubSeq(stk, 1, n)
<1>3. stk \in Seq(F)
  BY <1>1
<1>4. Len(stk) \in 1..Len(stk) /\ n \in Nat /\ 1 \in Int /\ n \in Int
  BY <1>2
<1> HIDE DEF F
<1>5. \A k \in 1..Len(stk) : stk[k] \in F
  BY <1>3, ElementOfSeq
<1>6. \A k \in 1..n : stk[k] \in F
  BY <1>2, <1>5
<1> HIDE DEF n
<1>7. /\ t \in Seq(F)
      /\ Len(t) = IF 1 <= n THEN n - 1 + 1 ELSE 0
      /\ \A k \in 1..n-1+1 : t[k] = stk[1 + k - 1]
  BY <1>4, <1>6, SubSeqProperties
<1>8. Len(t) = n /\ \A k \in 1..n : t[k] = stk[k]
  <2> HIDE DEF t
  <2>1. n - 1 + 1 = n /\ \A k \in 1..n : 1 + k - 1 = k
    BY <1>4
  <2> QED BY <1>4, <1>7, <2>1
<1> QED BY <1>4, <1>5, <1>7, <1>8 DEF F, n

LEMMA PopStep ==
  ASSUME SortInv, Pop
  PROVE  SortInv' /\ SortStep
<1> USE DEF Pop
<1>0. dents' = dents /\ size' = size /\ bits' = bits /\ UNCHANGED <<a, b, i>>
  OBVIOUS
<1>1. SortStep
  BY <1>0, NothingPermuted DEF SortStep, SortInv, SortTypes, Array
<1>2. size > Fast /\ size > 1
  BY SortAssumption DEF SortInv, Radixing, SortTypes, Array
<1>3. CASE stk = << >>
  <2>1. spc' = "min" /\ UNCHANGED <<stk, base, end, bit>>
    BY <1>3
  <2>2. Len(stk) = 0
    BY <1>3
  <2>3. Settled(dents, size, size + 1)
    BY <2>2 DEF SortInv, Radixing, Above
  <2> QED BY <1>0, <1>1, <1>2, <1>3, <2>1, <2>3
          DEF SortInv, SortTypes, Radixing, Inserting, AtHand, Halved, SortPc
<1>4. CASE stk # << >>
  <2> DEFINE L == Len(stk)
             s == SubSeq(stk, 1, L - 1)
  <2>1. /\ spc' = "partition" /\ stk' = s
        /\ base' = stk[L].base /\ end' = stk[L].end /\ bit' = stk[L].bit
    BY <1>4
  <2>2. /\ L \in 1..L /\ L - 1 \in Nat
        /\ stk[L] \in [base : Nat, end : Nat, bit : Nat]
        /\ s \in Seq([base : Nat, end : Nat, bit : Nat])
        /\ Len(s) = L - 1
        /\ \A k \in 1..L-1 : s[k] = stk[k]
    BY <1>4, StackTop DEF SortInv
  <2>0. L \in Nat \ {0}
    BY <1>4 DEF SortInv, SortTypes
  <2>3. Stacked(dents, size, bits, stk) /\ Settled(dents, size, Above(stk, size, L))
    BY DEF SortInv, Radixing
  <2> HIDE DEF L, s
  <2>4. \A k \in 0..L-1 : Above(s, size, k) = Above(stk, size, k)
    BY <2>2 DEF Above
  <2>5. Stacked(dents, size, bits, s)
    <3>1. ASSUME NEW k \in 1..L-1
          PROVE  /\ s[k].end = Above(s, size, k - 1)
                 /\ Parted(dents, size, bits, s[k].base, s[k].end, s[k].bit)
      <4>1. k \in 1..L /\ k - 1 \in 0..L-1
        BY <2>0
      <4> QED BY <2>2, <2>3, <2>4, <4>1 DEF Stacked, L
    <3>2. ASSUME NEW j \in 1..L-1, NEW k \in 1..L-1, j < k
          PROVE  s[k].end <= s[j].base
      <4>1. j \in 1..L /\ k \in 1..L
        BY <2>0
      <4>2. stk[k].end <= stk[j].base
        BY <2>3, <3>2, <4>1 DEF Stacked, L
      <4> QED BY <2>2, <4>2
    <3> QED BY <2>2, <3>1, <3>2 DEF Stacked
  <2>6. /\ end' = Above(s, size, Len(s))
        /\ Parted(dents, size, bits, base', end', bit')
        /\ Settled(dents, size, base')
    <3>1. stk[L].end = Above(stk, size, L - 1)
          /\ Parted(dents, size, bits, stk[L].base, stk[L].end, stk[L].bit)
      BY <2>2, <2>3 DEF Stacked, L
    <3>2. Above(stk, size, L) = stk[L].base
      BY <2>2 DEF Above
    <3>3. L - 1 \in 0..L-1
      BY <2>0
    <3> QED BY <2>1, <2>2, <2>3, <2>4, <3>1, <3>2, <3>3
  <2>7. SortTypes'
    BY <1>0, <2>1, <2>2 DEF SortInv, SortTypes, SortPc
  <2>8. Radixing'
    BY <1>0, <1>2, <2>1, <2>5, <2>6 DEF Radixing, AtHand, Halved
  <2>9. Inserting'
    BY <2>1 DEF Inserting
  <2> QED BY <1>0, <1>1, <2>7, <2>8, <2>9 DEF SortInv
<1> QED BY <1>3, <1>4

LEMMA PartitionStep ==
  ASSUME SortInv, Partition
  PROVE  SortInv' /\ SortStep
<1> USE DEF Partition
<1>0. /\ dents' = dents /\ size' = size /\ UNCHANGED <<radix, i>>
      /\ bits' = bits /\ stk' = stk /\ base' = base /\ end' = end /\ bit' = bit /\ i' = i
      /\ a' = base /\ b' = end
  BY DEF radix
<1>1. SortStep
  BY <1>0, NothingPermuted DEF SortStep, SortInv, SortTypes, Array
<1>2. /\ size > Fast /\ base \in Nat /\ end \in Nat /\ Cutoff \in Nat \ {0}
      /\ Array(dents, size) /\ size \in Nat
  BY SortAssumption DEF SortInv, Radixing, SortTypes, Array
<1>3. /\ end = Above(stk, size, Len(stk))
      /\ Parted(dents, size, bits, base, end, bit)
      /\ Settled(dents, size, base)
      /\ Stacked(dents, size, bits, stk)
  BY DEF SortInv, Radixing, AtHand
<1>4. SortTypes'
  BY <1>0 DEF SortInv, SortTypes, SortPc
<1>5. CASE SmallEnough
  <2>1. spc' = "pop" /\ end - base < Cutoff
    BY <1>5 DEF SmallEnough
  <2>2. Settled(dents, size, end)
    <3>1. CASE base # 1
      <4>1. base <= end
        BY <1>2, <1>3 DEF Parted
      <4>2. PICK m \in 1..Cutoff : m < base /\ Smallest(dents, size, m)
        BY <1>3, <3>1 DEF Settled
      <4>3. m < end
        BY <1>2, <4>1, <4>2
      <4> QED BY <4>2, <4>3 DEF Settled
    <3>2. CASE base = 1 /\ end # 1
      <4>1. end - 1 \in 1..size /\ end - 1 < Cutoff
        BY <1>2, <1>3, <2>1, <3>2 DEF Parted
      <4>2. Array(dents, end - 1) /\ end - 1 # 0
        BY <1>2, <4>1 DEF Array
      <4>3. PICK m \in 1..end-1 : Smallest(dents, end - 1, m)
        BY <4>2, SmallestExists
      <4>4. ASSUME NEW k \in 1..size PROVE ~Less(dents[k], dents[m])
        <5>1. CASE k \in 1..end-1
          BY <4>3, <5>1 DEF Smallest
        <5>2. CASE k \in end..size
          <6>1. Less(dents[m], dents[k])
            BY <1>3, <3>2, <4>3, <5>2 DEF Parted
          <6>2. dents[m] \in Entry /\ dents[k] \in Entry
            BY <1>2, <4>1, <4>3, InArray
          <6> QED BY <6>1, <6>2, LessFacts
        <5> QED BY <1>2, <5>1, <5>2
      <4>5. m \in 1..Cutoff /\ m < end /\ m \in 1..size
        BY <1>2, <4>1, <4>3
      <4>6. Smallest(dents, size, m)
        BY <4>4, <4>5 DEF Smallest
      <4> QED BY <4>5, <4>6 DEF Settled
    <3>3. CASE end = 1
      BY <3>3 DEF Settled
    <3> QED BY <3>1, <3>2, <3>3
  <2>3. Radixing'
    BY <1>0, <1>2, <1>3, <2>1, <2>2 DEF Radixing, AtHand, Halved
  <2>4. Inserting'
    BY <2>1 DEF Inserting
  <2> QED BY <1>0, <1>1, <1>4, <2>3, <2>4 DEF SortInv
<1>6. CASE ~SmallEnough
  <2>1. spc' = "split" /\ base < end
    BY <1>2, <1>6 DEF SmallEnough
  <2>2. Halved'
    <3>1. /\ \A j \in base..base-1 : FALSE
          /\ \A j \in end..end-1 : FALSE
      BY <1>2
    <3> QED BY <1>0, <1>2, <2>1, <3>1 DEF Halved
  <2>3. Radixing'
    BY <1>0, <1>2, <1>3, <2>1, <2>2 DEF Radixing, AtHand
  <2>4. Inserting'
    BY <2>1 DEF Inserting
  <2> QED BY <1>0, <1>1, <1>4, <2>3, <2>4 DEF SortInv
<1> QED BY <1>5, <1>6

(* What waits on the stack is above what is at hand. *)
LEMMA AboveHand ==
  ASSUME SortInv, spc \in {"partition", "split", "next"}
  PROVE  \A k \in 1..Len(stk) : /\ stk[k].base \in Nat /\ stk[k].end \in Nat
                                /\ end <= stk[k].base
<1>1. stk \in Seq([base : Nat, end : Nat, bit : Nat])
  BY DEF SortInv, SortTypes
<1>2. \A k \in 1..Len(stk) : stk[k] \in [base : Nat, end : Nat, bit : Nat]
  BY <1>1, ElementOfSeq
<1> SUFFICES ASSUME NEW k \in 1..Len(stk)
             PROVE  end <= stk[k].base
  BY <1>2
<1> DEFINE L == Len(stk)
<1>3. L \in Nat /\ L \in 1..L /\ k \in 1..L
  BY <1>1
<1>4. end = stk[L].base /\ Stacked(dents, size, bits, stk)
  BY <1>3 DEF SortInv, Radixing, AtHand, Above
<1>5. CASE k = L
  BY <1>2, <1>4, <1>5
<1>6. CASE k # L
  <2>1. k < L
    BY <1>3, <1>6
  <2>2. stk[L].end <= stk[k].base
    BY <1>3, <1>4, <2>1 DEF Stacked
  <2>3. stk[L].base <= stk[L].end
    <3>1. Parted(dents, size, bits, stk[L].base, stk[L].end, stk[L].bit)
      BY <1>3, <1>4 DEF Stacked
    <3>2. stk[L].base \in Nat /\ stk[L].end \in Nat
      BY <1>2, <1>3
    <3> QED BY <3>1, <3>2 DEF Parted
  <2>4. stk[L].base \in Nat /\ stk[L].end \in Nat /\ stk[k].base \in Nat
    BY <1>2, <1>3
  <2> QED BY <1>4, <2>2, <2>3, <2>4
<1> QED BY <1>5, <1>6

(* One round of the loops that split dents[lo .. hi-1]: what was below a   *)
(* was in the lower part, what was at or above b was not.                  *)
LEMMA RoundFacts ==
  ASSUME dents \in Seq(Entry), NEW lo \in Nat, NEW hi \in Nat, a \in Nat, b \in Nat,
         1 <= lo, hi <= Len(dents) + 1, lo <= a, a < b, b <= hi,
         NEW lower, SplitRound(lower),
         \A j \in lo..a-1 : j \in lower, \A j \in b..hi-1 : j \notin lower
  PROVE  /\ Permuted(dents, dents', lo, hi)
         /\ a' \in Nat /\ b' \in Nat /\ lo <= a' /\ a' <= b' /\ b' <= hi
         /\ \A j \in lo..a'-1 : \E k \in lo..hi-1 : k \in lower /\ dents'[j] = dents[k]
         /\ \A j \in b'..hi-1 : \E k \in lo..hi-1 : k \notin lower /\ dents'[j] = dents[k]
<1>1. /\ a \in lo..hi-1 /\ b - 1 \in lo..hi-1 /\ Len(dents) \in Nat
      /\ \A j \in lo..a : j = a \/ j \in lo..a-1
      /\ \A j \in b-1..hi-1 : j = b - 1 \/ j \in b..hi-1
      /\ \A j \in lo..a : j \in lo..hi-1
      /\ \A j \in b-1..hi-1 : j \in lo..hi-1
      /\ \A j \in lo..a-1 : j # a /\ j # b - 1
      /\ \A j \in b..hi-1 : j # a /\ j # b - 1
      /\ (a + 1) - 1 = a
  OBVIOUS
<1>2. CASE a \in lower
  <2>1. a' = a + 1 /\ b' = b /\ dents' = dents
    BY <1>2 DEF SplitRound
  <2>2. \A j \in lo..a : j \in lo..hi-1 /\ j \in lower
    BY <1>1, <1>2
  <2>3. \A j \in b..hi-1 : j \in lo..hi-1 /\ j \notin lower
    OBVIOUS
  <2> QED BY <1>1, <2>1, <2>2, <2>3, NothingPermuted
<1>3. CASE a \notin lower /\ b - 1 \in lower
  <2> DEFINE c == b - 1
  <2>1. a' = a + 1 /\ b' = c /\ dents' = Swap(dents, a, c) /\ c \in lo..hi-1 /\ a # c
    BY <1>1, <1>3 DEF SplitRound, StepBack
  <2>2. c \in lower /\ a \notin lower /\ a \in lo..hi-1 /\ a <= c /\ c <= hi /\ a + 1 <= c
    BY <1>1, <1>3, <2>1
  <2>3. /\ \A j \in lo..a-1 : j # a /\ j # c
        /\ \A j \in b..hi-1 : j # a /\ j # c
        /\ \A j \in c..hi-1 : j = c \/ j \in b..hi-1
        /\ \A j \in c..hi-1 : j \in lo..hi-1
    BY <1>1
  <2> HIDE DEF c
  <2>4. /\ Permuted(dents, dents', lo, hi)
        /\ dents'[a] = dents[c] /\ dents'[c] = dents[a]
        /\ \A l \in 1..Len(dents) : l # a /\ l # c => dents'[l] = dents[l]
    BY <2>1, <2>2, SwapPermutes
  <2>5. ASSUME NEW j \in lo..a PROVE \E k \in lo..hi-1 : k \in lower /\ dents'[j] = dents[k]
    <3>1. CASE j = a
      BY <2>1, <2>2, <2>4, <3>1
    <3>2. CASE j # a
      <4>1. j \in lo..a-1 /\ j \in lo..hi-1 /\ j \in 1..Len(dents)
        BY <1>1, <3>2
      <4>2. dents'[j] = dents[j] /\ j \in lower
        BY <2>3, <2>4, <4>1
      <4> QED BY <4>1, <4>2
    <3> QED BY <3>1, <3>2
  <2>6. ASSUME NEW j \in c..hi-1 PROVE \E k \in lo..hi-1 : k \notin lower /\ dents'[j] = dents[k]
    <3>1. CASE j = c
      BY <2>2, <2>4, <3>1
    <3>2. CASE j # c
      <4>1. j \in b..hi-1 /\ j \in lo..hi-1 /\ j \in 1..Len(dents)
        BY <2>1, <2>3, <3>2
      <4>2. dents'[j] = dents[j] /\ j \notin lower
        BY <2>3, <2>4, <4>1
      <4> QED BY <4>1, <4>2
    <3> QED BY <3>1, <3>2
  <2>7. a' \in Nat /\ b' \in Nat /\ lo <= a' /\ a' <= b' /\ b' <= hi
    BY <2>1, <2>2
  <2> QED BY <1>1, <2>1, <2>4, <2>5, <2>6, <2>7
<1>4. CASE a \notin lower /\ b - 1 \notin lower
  <2>1. a' = a /\ b' = b - 1 /\ dents' = dents
    BY <1>4 DEF SplitRound, StepBack
  <2>2. \A j \in lo..a-1 : j \in lo..hi-1 /\ j \in lower
    OBVIOUS
  <2>3. \A j \in b-1..hi-1 : j \in lo..hi-1 /\ j \notin lower
    BY <1>1, <1>4
  <2>4. b - 1 \in Nat /\ a <= b - 1 /\ b - 1 <= hi
    BY <1>1
  <2> QED BY <2>1, <2>2, <2>3, <2>4, NothingPermuted
<1> QED BY <1>2, <1>3, <1>4

LEMMA SplitRoundFacts ==
  ASSUME dents \in Seq(Entry), bit \in Nat,
         base \in Nat, end \in Nat, a \in Nat, b \in Nat, 1 <= base, end <= Len(dents) + 1,
         base <= a, a < b, b <= end, SplitRound(BitClear),
         \A j \in base..a-1 : ~HasBit(dents[j], bit),
         \A j \in b..end-1 : HasBit(dents[j], bit)
  PROVE  /\ Permuted(dents, dents', base, end)
         /\ a' \in Nat /\ b' \in Nat /\ base <= a' /\ a' <= b' /\ b' <= end
         /\ \A j \in base..a'-1 : ~HasBit(dents'[j], bit)
         /\ \A j \in b'..end-1 : HasBit(dents'[j], bit)
<1>1. /\ \A j \in base..end-1 : j \in BitClear <=> ~HasBit(dents[j], bit)
      /\ \A j \in base..a-1 : j \in BitClear
      /\ \A j \in b..end-1 : j \notin BitClear
  BY DEF BitClear
<1>2. /\ Permuted(dents, dents', base, end)
      /\ a' \in Nat /\ b' \in Nat /\ base <= a' /\ a' <= b' /\ b' <= end
      /\ \A j \in base..a'-1 : \E k \in base..end-1 : k \in BitClear /\ dents'[j] = dents[k]
      /\ \A j \in b'..end-1 : \E k \in base..end-1 : k \notin BitClear /\ dents'[j] = dents[k]
  BY <1>1, RoundFacts
<1>3. ASSUME NEW j \in base..a'-1 PROVE ~HasBit(dents'[j], bit)
  BY <1>1, <1>2
<1>4. ASSUME NEW j \in b'..end-1 PROVE HasBit(dents'[j], bit)
  BY <1>1, <1>2
<1> QED BY <1>2, <1>3, <1>4

LEMMA SettledKept ==
  ASSUME NEW d, NEW e, NEW n, Array(d, n), NEW lo \in Nat, NEW hi \in Nat, 1 <= lo, hi <= n + 1,
         Permuted(d, e, lo, hi), Settled(d, n, lo)
  PROVE  Settled(e, n, lo)
<1>1. CASE lo = 1
  BY <1>1 DEF Settled
<1>2. CASE lo # 1
  <2>1. PICK m \in 1..Cutoff : m < lo /\ Smallest(d, n, m)
    BY <1>2 DEF Settled
  <2>2. Smallest(e, n, m)
    BY <2>1, SmallestKept
  <2> QED BY <2>1, <2>2 DEF Settled
<1> QED BY <1>1, <1>2

LEMMA SplitStep ==
  ASSUME SortInv, Split
  PROVE  SortInv' /\ SortStep
<1>0. /\ spc = "split" /\ SplitRound(BitClear)
      /\ spc' = IF b' > a' THEN "split" ELSE "next"
      /\ size' = size /\ bits' = bits /\ stk' = stk /\ base' = base /\ end' = end
      /\ bit' = bit /\ i' = i
  BY DEF Split, radix
<1>1. /\ Array(dents, size) /\ dents \in Seq(Entry) /\ size \in Nat /\ size <= Len(dents)
      /\ base \in Nat /\ end \in Nat /\ bit \in Nat /\ a \in Nat /\ b \in Nat
      /\ Len(dents) \in Nat
  BY DEF SortInv, SortTypes, Array
<1>2. /\ end = Above(stk, size, Len(stk))
      /\ Parted(dents, size, bits, base, end, bit)
      /\ Settled(dents, size, base)
      /\ Stacked(dents, size, bits, stk)
      /\ base < end /\ base <= a /\ b <= end /\ a < b
      /\ \A j \in base..a-1 : ~HasBit(dents[j], bit)
      /\ \A j \in b..end-1 : HasBit(dents[j], bit)
  BY <1>0 DEF SortInv, Radixing, AtHand, Halved
<1>3. 1 <= base /\ end <= size + 1 /\ end <= Len(dents) + 1
  BY <1>1, <1>2 DEF Parted
<1>4. /\ Permuted(dents, dents', base, end)
      /\ a' \in Nat /\ b' \in Nat /\ base <= a' /\ a' <= b' /\ b' <= end
      /\ \A j \in base..a'-1 : ~HasBit(dents'[j], bit)
      /\ \A j \in b'..end-1 : HasBit(dents'[j], bit)
  BY <1>0, <1>1, <1>2, <1>3, SplitRoundFacts
<1>5. Permuted(dents, dents', 1, size + 1)
  <2>1. size \in 0..Len(dents)
    BY <1>1
  <2> QED BY <1>1, <1>3, <1>4, <2>1, PermutedWider
<1>6. SortStep
  BY <1>0, <1>5 DEF SortStep
<1>7. SortTypes'
  <2>1. Array(dents', size)
    BY <1>1, <1>4 DEF Array, Permuted
  <2> QED BY <1>0, <1>4, <2>1 DEF SortInv, SortTypes, SortPc
<1>8. size > Fast /\ Keyed(dents, size, bits)
  BY <1>0 DEF SortInv, Radixing
<1>9. Keyed(dents', size, bits)
  BY <1>1, <1>5, <1>8, KeyedKept
<1>10. Stacked(dents', size, bits, stk)
  <2>1. ASSUME NEW k \in 1..Len(stk)
        PROVE  Parted(dents', size, bits, stk[k].base, stk[k].end, stk[k].bit)
    <3>1. stk[k].base \in Nat /\ stk[k].end \in Nat /\ end <= stk[k].base
      BY <1>0, AboveHand
    <3>2. Parted(dents, size, bits, stk[k].base, stk[k].end, stk[k].bit)
      BY <1>2 DEF Stacked
    <3> QED BY <1>1, <1>3, <1>4, <3>1, <3>2, PartedKept
  <2> QED BY <1>2, <2>1 DEF Stacked
<1>11. Parted(dents', size, bits, base, end, bit)
  BY <1>1, <1>2, <1>3, <1>4, PartedKept
<1>12. Settled(dents', size, base)
  BY <1>1, <1>2, <1>3, <1>4, SettledKept
<1>13. AtHand'
  BY <1>0, <1>2, <1>11, <1>12 DEF AtHand
<1>14. Halved'
  <2>1. (spc' = "split" => a' < b') /\ (spc' = "next" => a' = b')
    BY <1>0, <1>4
  <2> QED BY <1>0, <1>2, <1>4, <2>1 DEF Halved
<1>15. spc' \in {"split", "next"}
  BY <1>0
<1>16. Radixing'
  BY <1>0, <1>8, <1>10, <1>13, <1>14, <1>15 DEF Radixing
<1>17. Inserting'
  BY <1>15 DEF Inserting
<1> QED BY <1>0, <1>6, <1>7, <1>9, <1>16, <1>17 DEF SortInv

LEMMA NoBitBelow ==
  ASSUME NEW d, NEW lo \in Nat, NEW hi \in Nat, bits \in SUBSET (1..Top), bit \in bits,
         BitBelow(bit) = 0,
         \A x, y \in lo..hi-1 : Same(bits, d[x], d[y], bit),
         \A x, y \in lo..hi-1 : HasBit(d[x], bit) <=> HasBit(d[y], bit)
  PROVE  \A x, y \in lo..hi-1 : Same(bits, d[x], d[y], 0)
<1> DEFINE below == {x \in bits : x < bit}
<1>1. below = {}
  <2>1. CASE below # {}
    <3>1. below \in SUBSET (0..Top) /\ Top \in Nat
      <4>1. \A x \in bits : x \in 0..Top
        BY TopFacts
      <4> QED BY <4>1, TopFacts
    <3>2. Largest(below) \in below
      <4> HIDE DEF below
      <4> QED BY <2>1, <3>1, LargestOf
    <3>3. BitBelow(bit) = Largest(below)
      BY <2>1 DEF BitBelow
    <3> QED BY <3>2, <3>3
  <2> QED BY <2>1
<1>2. \A l \in bits : l = bit \/ l > bit
  BY <1>1, TopFacts
<1> QED BY <1>2 DEF Same

LEMMA BitBelowFacts ==
  ASSUME NEW d, NEW lo \in Nat, NEW hi \in Nat, bits \in SUBSET (1..Top), bit \in bits,
         BitBelow(bit) # 0,
         \A x, y \in lo..hi-1 : Same(bits, d[x], d[y], bit),
         \A x, y \in lo..hi-1 : HasBit(d[x], bit) <=> HasBit(d[y], bit)
  PROVE  /\ BitBelow(bit) \in bits
         /\ \A x, y \in lo..hi-1 : Same(bits, d[x], d[y], BitBelow(bit))
<1> DEFINE below == {x \in bits : x < bit}
           k == BitBelow(bit)
<1>1. below # {} /\ k = Largest(below)
  BY DEF BitBelow
<1>2. below \in SUBSET (0..Top) /\ Top \in Nat
  <2>1. \A x \in bits : x \in 0..Top
    BY TopFacts
  <2> QED BY <2>1, TopFacts
<1>3. k \in below /\ \A y \in below : y <= k
  <2> HIDE DEF below, k
  <2> QED BY <1>1, <1>2, LargestOf
<1>4. \A l \in bits : l > k => l = bit \/ l > bit
  <2> SUFFICES ASSUME NEW l \in bits, l > k, l < bit PROVE FALSE
    BY TopFacts
  <2>1. l \in below
    OBVIOUS
  <2>2. l <= k /\ l \in Nat /\ k \in Nat
    BY <1>2, <1>3, <2>1
  <2> HIDE DEF k
  <2> QED BY <2>2
<1> HIDE DEF k
<1>5. \A x, y \in lo..hi-1 : Same(bits, d[x], d[y], k)
  BY <1>4 DEF Same
<1> QED BY <1>3, <1>5 DEF k

LEMMA NextBitStep ==
  ASSUME SortInv, NextBit
  PROVE  SortInv' /\ SortStep
<1>0. /\ spc = "next" /\ bit' = BitBelow(bit)
      /\ dents' = dents /\ size' = size /\ bits' = bits /\ base' = base
      /\ a' = a /\ b' = b /\ i' = i
  BY DEF NextBit
<1>1. /\ Array(dents, size) /\ dents \in Seq(Entry) /\ size \in Nat /\ size <= Len(dents)
      /\ base \in Nat /\ end \in Nat /\ bit \in Nat /\ a \in Nat
      /\ Len(dents) \in Nat /\ bits \in SUBSET (1..Top)
      /\ stk \in Seq([base : Nat, end : Nat, bit : Nat])
  BY DEF SortInv, SortTypes, Array
<1>2. /\ end = Above(stk, size, Len(stk))
      /\ Parted(dents, size, bits, base, end, bit)
      /\ Settled(dents, size, base)
      /\ Stacked(dents, size, bits, stk)
      /\ base < end /\ base <= a /\ a <= end
      /\ \A j \in base..a-1 : ~HasBit(dents[j], bit)
      /\ \A j \in a..end-1 : HasBit(dents[j], bit)
  BY <1>0 DEF SortInv, Radixing, AtHand, Halved
<1>3. size > Fast /\ Keyed(dents, size, bits) /\ size > 1
  BY <1>0, <1>1, SortAssumption DEF SortInv, Radixing
<1>4. SortStep
  BY <1>0, <1>1, NothingPermuted DEF SortStep
<1>5. /\ 1 <= base /\ end <= size + 1 /\ bit \in bits
      /\ \A x, y \in base..end-1 : Same(bits, dents[x], dents[y], bit)
      /\ \A x \in base..end-1, y \in end..size : Less(dents[x], dents[y])
  BY <1>1, <1>2 DEF Parted
<1>6. /\ \A x \in base..a-1 : x \in base..end-1 /\ x \in 1..size
      /\ \A x \in a..end-1 : x \in base..end-1 /\ x \in 1..size
  BY <1>1, <1>2, <1>5
<1>7. \A x \in base..a-1, y \in a..end-1 : Less(dents[x], dents[y])
  <2> SUFFICES ASSUME NEW x \in base..a-1, NEW y \in a..end-1
               PROVE  Less(dents[x], dents[y])
    OBVIOUS
  <2>1. /\ Same(bits, dents[x], dents[y], bit)
        /\ ~HasBit(dents[x], bit) /\ HasBit(dents[y], bit)
        /\ x \in 1..size /\ y \in 1..size
    BY <1>2, <1>5, <1>6
  <2> QED BY <1>1, <1>3, <1>5, <2>1, KeyDecides
<1>8. /\ \A x, y \in base..a-1 : Same(bits, dents[x], dents[y], bit)
                                /\ (HasBit(dents[x], bit) <=> HasBit(dents[y], bit))
      /\ \A x, y \in a..end-1 : Same(bits, dents[x], dents[y], bit)
                                /\ (HasBit(dents[x], bit) <=> HasBit(dents[y], bit))
  BY <1>2, <1>5, <1>6
<1>9. CASE BitBelow(bit) = 0
  <2>1. spc' = "pop" /\ bit' = 0 /\ stk' = stk /\ end' = end
    BY <1>0, <1>9 DEF NextBit
  <2>2. /\ \A x, y \in base..a-1 : Same(bits, dents[x], dents[y], 0)
        /\ \A x, y \in a..end-1 : Same(bits, dents[x], dents[y], 0)
    BY <1>1, <1>5, <1>8, <1>9, NoBitBelow
  <2>3. Settled(dents, size, end)
    <3>1. CASE base # 1
      <4>1. PICK m \in 1..Cutoff : m < base /\ Smallest(dents, size, m)
        BY <1>2, <3>1 DEF Settled
      <4>2. m < end
        BY <1>1, <1>2, <4>1
      <4> QED BY <4>1, <4>2 DEF Settled
    <3>2. CASE base = 1
      <4>1. ASSUME NEW k \in 1..size PROVE ~Less(dents[k], dents[1])
        <5>0. 1 \in 1..size /\ 1 \in base..end-1 /\ dents[1] \in Entry /\ dents[k] \in Entry
          BY <1>1, <1>2, <1>3, <3>2, InArray
        <5>1. CASE k \in end..size
          <6>1. Less(dents[1], dents[k])
            BY <1>5, <5>0, <5>1
          <6> QED BY <5>0, <6>1, LessFacts
        <5>2. CASE k \in a..end-1 /\ 1 \in base..a-1
          <6>1. Less(dents[1], dents[k])
            BY <1>7, <5>2
          <6> QED BY <5>0, <6>1, LessFacts
        <5>3. CASE \/ k \in a..end-1 /\ 1 \in a..end-1
                   \/ k \in base..a-1 /\ 1 \in base..a-1
          <6>1. Same(bits, dents[k], dents[1], 0)
            BY <2>2, <5>3
          <6> QED BY <1>1, <1>3, <5>0, <6>1, KeysEqual
        <5>4. \/ k \in end..size
              \/ k \in a..end-1 /\ 1 \in base..a-1
              \/ k \in a..end-1 /\ 1 \in a..end-1
              \/ k \in base..a-1 /\ 1 \in base..a-1
          BY <1>1, <1>2, <3>2
        <5> QED BY <5>1, <5>2, <5>3, <5>4
      <4>2. 1 \in 1..Cutoff /\ 1 < end /\ 1 \in 1..size
        BY <1>1, <1>2, <1>3, <3>2, SortAssumption
      <4>3. Smallest(dents, size, 1)
        BY <4>1, <4>2 DEF Smallest
      <4> QED BY <4>2, <4>3 DEF Settled
    <3> QED BY <3>1, <3>2
  <2>4. Radixing'
    BY <1>0, <1>2, <1>3, <2>1, <2>3 DEF Radixing, AtHand, Halved
  <2>5. Inserting'
    BY <2>1 DEF Inserting
  <2>6. SortTypes'
    BY <1>0, <2>1 DEF SortInv, SortTypes, SortPc
  <2> QED BY <1>0, <1>3, <1>4, <2>4, <2>5, <2>6 DEF SortInv
<1>10. CASE BitBelow(bit) # 0
  <2> DEFINE k == BitBelow(bit)
             F == [base : Nat, end : Nat, bit : Nat]
             top == [base |-> a, end |-> end, bit |-> k]
             s == Append(stk, top)
             L == Len(stk)
  <2>1. spc' = "partition" /\ bit' = k /\ stk' = s /\ end' = a
    BY <1>0, <1>10 DEF NextBit
  <2>2. k \in bits /\ \A x, y \in base..a-1 : Same(bits, dents[x], dents[y], k)
    <3>1. /\ \A x, y \in base..a-1 : Same(bits, dents[x], dents[y], bit)
          /\ \A x, y \in base..a-1 : HasBit(dents[x], bit) <=> HasBit(dents[y], bit)
      BY <1>8
    <3> QED BY <1>1, <1>5, <1>10, <3>1, BitBelowFacts
  <2>3. \A x, y \in a..end-1 : Same(bits, dents[x], dents[y], k)
    <3>1. /\ \A x, y \in a..end-1 : Same(bits, dents[x], dents[y], bit)
          /\ \A x, y \in a..end-1 : HasBit(dents[x], bit) <=> HasBit(dents[y], bit)
      BY <1>8
    <3> QED BY <1>1, <1>5, <1>10, <3>1, BitBelowFacts
  <2> HIDE DEF k
  <2>4. Parted(dents, size, bits, a, end, k)
    <3>1. a \in 1..end /\ end \in 1..size+1
      BY <1>1, <1>2, <1>5
    <3>2. \A x \in a..end-1, y \in end..size : Less(dents[x], dents[y])
      BY <1>5, <1>6
    <3> QED BY <2>2, <2>3, <3>1, <3>2 DEF Parted
  <2>5. Parted(dents, size, bits, base, a, k)
    <3>1. base \in 1..a /\ a \in 1..size+1
      BY <1>1, <1>2, <1>5
    <3>2. ASSUME NEW x \in base..a-1, NEW y \in a..size PROVE Less(dents[x], dents[y])
      <4>1. CASE y \in a..end-1
        BY <1>7, <4>1
      <4>2. CASE y \in end..size
        BY <1>5, <1>6, <4>2
      <4> QED BY <1>1, <4>1, <4>2
    <3> QED BY <2>2, <3>1, <3>2 DEF Parted
  <2>6. /\ s \in Seq(F) /\ Len(s) = L + 1 /\ L \in Nat
        /\ \A n \in 1..L : s[n] = stk[n]
        /\ s[L + 1] = top
    <3>1. top \in F
      BY <1>1, <2>2
    <3>2. stk \in Seq(F)
      BY <1>1
    <3> HIDE DEF F, top
    <3> QED BY <3>1, <3>2, AppendProperties
  <2>7. top.base = a /\ top.end = end /\ top.bit = k
    OBVIOUS
  <2> HIDE DEF s, top, L
  <2>8. Stacked(dents, size, bits, s)
    <3>1. \A n \in 0..L : Above(s, size, n) = Above(stk, size, n)
      BY <2>6 DEF Above
    <3>2. ASSUME NEW n \in 1..L+1
          PROVE  /\ s[n].end = Above(s, size, n - 1)
                 /\ Parted(dents, size, bits, s[n].base, s[n].end, s[n].bit)
      <4>1. CASE n = L + 1
        <5>1. n - 1 = L /\ L \in 0..L
          BY <2>6, <4>1
        <5>2. end = Above(s, size, n - 1)
          BY <1>2, <3>1, <5>1 DEF L
        <5> QED BY <2>4, <2>6, <2>7, <4>1, <5>2
      <4>2. CASE n # L + 1
        <5>1. n \in 1..L /\ n - 1 \in 0..L
          BY <2>6, <4>2
        <5>2. stk[n].end = Above(stk, size, n - 1)
              /\ Parted(dents, size, bits, stk[n].base, stk[n].end, stk[n].bit)
          BY <1>2, <5>1 DEF Stacked, L
        <5> QED BY <2>6, <3>1, <5>1, <5>2
      <4> QED BY <4>1, <4>2
    <3>3. ASSUME NEW j \in 1..L+1, NEW n \in 1..L+1, j < n
          PROVE  s[n].end <= s[j].base
      <4>1. j \in 1..L
        BY <2>6, <3>3
      <4>2. CASE n = L + 1
        <5>1. end <= stk[j].base
          BY <1>0, <4>1, AboveHand DEF L
        <5> QED BY <2>6, <2>7, <4>1, <4>2, <5>1
      <4>3. CASE n # L + 1
        <5>1. n \in 1..L
          BY <2>6, <4>3
        <5>2. stk[n].end <= stk[j].base
          BY <1>2, <3>3, <4>1, <5>1 DEF Stacked, L
        <5> QED BY <2>6, <4>1, <5>1, <5>2
      <4> QED BY <4>2, <4>3
    <3> QED BY <2>6, <3>2, <3>3 DEF Stacked
  <2>9. a = Above(s, size, Len(s))
    <3>1. L + 1 # 0
      BY <2>6
    <3> QED BY <2>6, <2>7, <3>1 DEF Above
  <2>10. Radixing'
    BY <1>0, <1>2, <1>3, <2>1, <2>5, <2>8, <2>9 DEF Radixing, AtHand, Halved
  <2>11. Inserting'
    BY <2>1 DEF Inserting
  <2>12. SortTypes'
    <3>1. k \in Nat
      BY <1>1, <2>2
    <3> QED BY <1>0, <1>1, <2>1, <2>6, <3>1 DEF SortInv, SortTypes, SortPc
  <2> QED BY <1>0, <1>3, <1>4, <2>10, <2>11, <2>12 DEF SortInv
<1> QED BY <1>9, <1>10

(* The smallest entry goes to the front, from where the radix pass left    *)
(* it: the insertion sort looks no further than MinRange.                  *)
LEMMA MoveMinStep ==
  ASSUME SortInv, MoveMin
  PROVE  SortInv' /\ SortStep
<1>0. /\ spc = "min" /\ spc' = "insert" /\ i' = 2 /\ dents' = Swap(dents, 1, MinAt)
      /\ size' = size /\ bits' = bits /\ stk' = stk /\ base' = base /\ end' = end
      /\ bit' = bit /\ a' = a /\ b' = b
  BY DEF MoveMin, radix
<1>1. /\ Array(dents, size) /\ dents \in Seq(Entry) /\ size \in Nat /\ size <= Len(dents)
      /\ Len(dents) \in Nat /\ size > 1 /\ stk = << >>
      /\ (size > Fast => Settled(dents, size, size + 1))
      /\ Fast \in Nat /\ Cutoff \in Nat \ {0} /\ Cutoff <= Fast
  BY <1>0, SortAssumption DEF SortInv, SortTypes, Array, Inserting
<1> DEFINE r == MinRange
           least == {j \in 1..r : \A k \in 1..r : ~Less(dents[k], dents[j])}
           m == MinAt
<1>2. r \in 1..size /\ (size > Fast => r = Cutoff + 1) /\ (~(size > Fast) => r = size)
  BY <1>1 DEF MinRange
<1>3. m \in least
  <2>0. Array(dents, r) /\ r # 0
    BY <1>1, <1>2 DEF Array
  <2>1. PICK x \in 1..r : Smallest(dents, r, x)
    <3> HIDE DEF r
    <3> QED BY <2>0, SmallestExists
  <2>2. x \in least
    BY <2>1 DEF Smallest
  <2>3. least \in SUBSET (0..r) /\ r \in Nat
    BY <1>2
  <2>4. Largest(least) \in least
    <3> HIDE DEF least, r
    <3> QED BY <2>2, <2>3, LargestOf
  <2> QED BY <2>4 DEF MinAt
<1>4. m \in 1..r /\ \A k \in 1..r : ~Less(dents[k], dents[m])
  BY <1>3
<1> HIDE DEF m, r, least
<1>5. m \in 1..size
  <2>1. r \in Nat /\ r <= size /\ m \in 1..r
    BY <1>1, <1>2, <1>4
  <2> QED BY <1>1, <2>1
<1>6. Smallest(dents, size, m)
  <2>1. CASE ~(size > Fast)
    BY <1>2, <1>4, <2>1 DEF Smallest
  <2>2. CASE size > Fast
    <3>1. PICK n \in 1..Cutoff : Smallest(dents, size, n)
      BY <1>1, <2>2 DEF Settled
    <3>2. n \in 1..r /\ n \in 1..size
      BY <1>1, <1>2, <2>2, <3>1
    <3>3. ASSUME NEW k \in 1..size PROVE ~Less(dents[k], dents[m])
      <4>1. ~Less(dents[n], dents[m]) /\ ~Less(dents[k], dents[n])
        BY <1>4, <3>1, <3>2 DEF Smallest
      <4>2. dents[n] \in Entry /\ dents[m] \in Entry /\ dents[k] \in Entry
        BY <1>1, <1>5, <3>2, InArray
      <4> QED BY <4>1, <4>2, LessFacts
    <3> QED BY <1>5, <3>3 DEF Smallest
  <2> QED BY <2>1, <2>2
<1> DEFINE h == size + 1
<1>7. /\ h \in Nat /\ h <= Len(dents) + 1 /\ 1 \in 1..h-1 /\ m \in 1..h-1
      /\ 1 \in Nat /\ 1 <= 1 /\ 1 \in 1..size
  BY <1>1, <1>5
<1> HIDE DEF h
<1>8. Permuted(dents, dents', 1, h) /\ dents'[1] = dents[m]
  BY <1>0, <1>1, <1>7, SwapPermutes DEF m
<1>9. Array(dents', size) /\ SortStep
  BY <1>0, <1>1, <1>8 DEF Array, Permuted, SortStep, h
<1>10. Smallest(dents', size, 1)
  <2>1. ASSUME NEW k \in 1..size PROVE ~Less(dents'[k], dents'[1])
    <3>1. k \in 1..h-1
      BY <1>1 DEF h
    <3>2. PICK n \in 1..h-1 : dents'[k] = dents[n]
      BY <1>8, <3>1 DEF Permuted
    <3>3. n \in 1..size
      BY <1>1 DEF h
    <3> QED BY <1>6, <1>8, <3>2, <3>3 DEF Smallest
  <2> QED BY <1>7, <2>1 DEF Smallest
<1>11. Sorted(dents', 2 - 1) /\ 2 \in 2..size+1
  BY <1>1 DEF Sorted
<1>12. size > Fast => Keyed(dents', size, bits)
  BY <1>1, <1>8, KeyedKept DEF SortInv, h
<1>13. Radixing'
  <2>1. Stacked(dents', size, bits, stk)
    <3>1. Len(stk) = 0
      BY <1>1
    <3> QED BY <3>1 DEF Stacked
  <2> QED BY <1>0, <2>1 DEF Radixing, AtHand, Halved
<1>14. Inserting'
  BY <1>0, <1>1, <1>10, <1>11 DEF Inserting
<1>15. SortTypes'
  BY <1>0, <1>9 DEF SortInv, SortTypes, SortPc
<1> QED BY <1>0, <1>9, <1>12, <1>13, <1>14, <1>15 DEF SortInv

(* Entry x of the sorted first ones goes behind entry j. *)
Inserted(d, x, j) ==
  [k \in DOMAIN d |-> IF k = j + 1 THEN d[x]
                      ELSE IF k \in j+2..x THEN d[k - 1]
                      ELSE d[k]]

LEMMA InsertedFacts ==
  ASSUME NEW d, NEW n, Array(d, n), NEW x \in 1..n, NEW j \in 1..x-1
  PROVE  /\ Inserted(d, x, j) \in Seq(Entry) /\ Len(Inserted(d, x, j)) = Len(d)
         /\ \A k \in 1..j : Inserted(d, x, j)[k] = d[k]
         /\ Inserted(d, x, j)[j + 1] = d[x]
         /\ \A k \in j+2..x : Inserted(d, x, j)[k] = d[k - 1]
         /\ \A k \in x+1..Len(d) : Inserted(d, x, j)[k] = d[k]
<1> DEFINE e == Inserted(d, x, j)
<1>1. d \in Seq(Entry) /\ Len(d) \in Nat /\ n \in 0..Len(d) /\ DOMAIN d = 1..Len(d)
      /\ \A k \in 1..Len(d) : d[k] \in Entry
  BY ElementOfSeq DEF Array
<1>2. \A k \in 1..Len(d) : e[k] = IF k = j + 1 THEN d[x]
                                 ELSE IF k \in j+2..x THEN d[k - 1]
                                 ELSE d[k]
  BY <1>1 DEF Inserted
<1>3. e \in [1..Len(d) -> Entry]
  <2>1. ASSUME NEW k \in 1..Len(d) PROVE e[k] \in Entry
    <3>1. x \in 1..Len(d) /\ (k \in j+2..x => k - 1 \in 1..Len(d))
      BY <1>1
    <3> HIDE DEF e
    <3> QED BY <1>1, <1>2, <3>1
  <2>2. DOMAIN e = 1..Len(d) /\ e = [k \in DOMAIN e |-> e[k]]
    BY <1>1 DEF Inserted
  <2> HIDE DEF e
  <2> QED BY <2>1, <2>2
<1> HIDE DEF e
<1>4. e \in Seq(Entry) /\ Len(e) = Len(d)
  BY <1>1, <1>3
<1>5. /\ \A k \in 1..j : k \in 1..Len(d) /\ k # j + 1 /\ k \notin j+2..x
      /\ j + 1 \in 1..Len(d)
      /\ \A k \in j+2..x : k \in 1..Len(d) /\ k # j + 1
      /\ \A k \in x+1..Len(d) : k \in 1..Len(d) /\ k # j + 1 /\ k \notin j+2..x
  BY <1>1
<1> QED BY <1>2, <1>4, <1>5 DEF e

LEMMA InsertedPermutes ==
  ASSUME NEW d, NEW n, Array(d, n), NEW x \in 1..n, NEW j \in 1..x-1
  PROVE  Permuted(d, Inserted(d, x, j), 1, n + 1)
<1> DEFINE e == Inserted(d, x, j)
<1>0. n \in Nat /\ n <= Len(d) /\ Len(d) \in Nat /\ (n + 1) - 1 = n
  BY DEF Array
<1>1. /\ e \in Seq(Entry) /\ Len(e) = Len(d)
      /\ \A k \in 1..j : e[k] = d[k]
      /\ e[j + 1] = d[x]
      /\ \A k \in j+2..x : e[k] = d[k - 1]
      /\ \A k \in x+1..Len(d) : e[k] = d[k]
  BY InsertedFacts
<1> HIDE DEF e
<1>2. ASSUME NEW k \in 1..Len(d), k \notin 1..n PROVE e[k] = d[k]
  <2>1. k \in x+1..Len(d)
    BY <1>0, <1>2
  <2> QED BY <1>1, <2>1
<1>3. ASSUME NEW k \in 1..n PROVE \E l \in 1..n : e[k] = d[l]
  <2>1. \/ k \in 1..j \/ k = j + 1 \/ k \in j+2..x \/ k \in x+1..Len(d)
    BY <1>0
  <2>2. k \in j+2..x => k - 1 \in 1..n
    BY <1>0
  <2> QED BY <1>1, <2>1, <2>2
<1>4. ASSUME NEW l \in 1..n PROVE \E k \in 1..n : e[k] = d[l]
  <2>1. \/ l \in 1..j \/ l \in j+1..x-1 \/ l = x \/ l \in x+1..Len(d)
    BY <1>0
  <2>2. CASE l \in j+1..x-1
    <3>1. l + 1 \in j+2..x /\ l + 1 \in 1..n /\ (l + 1) - 1 = l
      BY <1>0, <2>2
    <3> QED BY <1>1, <3>1
  <2>3. CASE l = x
    <3>1. j + 1 \in 1..n
      BY <1>0
    <3> QED BY <1>1, <2>3, <3>1
  <2> QED BY <1>1, <2>1, <2>2, <2>3
<1> QED BY <1>0, <1>1, <1>2, <1>3, <1>4 DEF Permuted, e

LEMMA InsertedSorts ==
  ASSUME NEW d, NEW n, Array(d, n), NEW x \in 1..n, NEW j \in 1..x-1,
         Sorted(d, x - 1), ~Less(d[x], d[j]), \A k \in j+1..x-1 : Less(d[x], d[k])
  PROVE  Sorted(Inserted(d, x, j), x)
<1> DEFINE e == Inserted(d, x, j)
<1>0. n \in Nat /\ n <= Len(d) /\ Len(d) \in Nat /\ \A k \in 1..x : d[k] \in Entry
  <2>1. \A k \in 1..x : k \in 1..n
    BY DEF Array
  <2> QED BY <2>1, InArray DEF Array
<1>1. /\ \A k \in 1..j : e[k] = d[k]
      /\ e[j + 1] = d[x]
      /\ \A k \in j+2..x : e[k] = d[k - 1]
  BY InsertedFacts
<1> HIDE DEF e
<1> SUFFICES ASSUME NEW p \in 1..x, NEW q \in 1..x, p < q
             PROVE  ~Less(e[q], e[p])
  BY DEF Sorted, e
<1>2. \/ q \in 1..j /\ p \in 1..j
      \/ q = j + 1 /\ p \in 1..j
      \/ q \in j+2..x /\ p \in 1..j
      \/ q \in j+2..x /\ p = j + 1
      \/ q \in j+2..x /\ p \in j+2..x
  OBVIOUS
<1>3. \A k, l \in 1..x-1 : k < l => ~Less(d[l], d[k])
  BY DEF Sorted
<1>4. CASE q \in 1..j /\ p \in 1..j
  <2>1. p \in 1..x-1 /\ q \in 1..x-1
    BY <1>4
  <2> QED BY <1>1, <1>3, <1>4, <2>1
<1>5. CASE q = j + 1 /\ p \in 1..j
  <2>1. j \in 1..x-1 /\ p \in 1..x-1 /\ p \in 1..x /\ j \in 1..x /\ x \in 1..x
    BY <1>5
  <2>2. ~Less(d[j], d[p])
    <3>1. CASE p = j
      BY <1>0, <2>1, <3>1, LessFacts
    <3>2. CASE p # j
      <4>1. p < j
        BY <1>5, <3>2
      <4> QED BY <1>3, <2>1, <4>1
    <3> QED BY <3>1, <3>2
  <2>3. ~Less(d[x], d[p])
    BY <1>0, <2>1, <2>2, LessFacts
  <2> QED BY <1>1, <1>5, <2>3
<1>6. CASE q \in j+2..x /\ p \in 1..j
  <2>1. q - 1 \in 1..x-1 /\ p \in 1..x-1 /\ p < q - 1
    BY <1>6
  <2> QED BY <1>1, <1>3, <1>6, <2>1
<1>7. CASE q \in j+2..x /\ p = j + 1
  <2>1. q - 1 \in j+1..x-1 /\ q - 1 \in 1..x /\ x \in 1..x
    BY <1>7
  <2>2. Less(d[x], d[q - 1])
    BY <2>1
  <2> QED BY <1>0, <1>1, <1>7, <2>1, <2>2, LessFacts
<1>8. CASE q \in j+2..x /\ p \in j+2..x
  <2>1. q - 1 \in 1..x-1 /\ p - 1 \in 1..x-1 /\ p - 1 < q - 1
    BY <1>8
  <2> QED BY <1>1, <1>3, <1>8, <2>1
<1> QED BY <1>2, <1>4, <1>5, <1>6, <1>7, <1>8

(* The inner loop of the insertion sort stops at the first entry, at the   *)
(* latest.                                                                 *)
LEMMA LoopStops ==
  ASSUME SortInv, spc = "insert", i <= size
  PROVE  /\ Stops \in SUBSET (0..size) /\ 1 \in Stops
         /\ Largest(Stops) \in Stops /\ \A y \in Stops : y <= Largest(Stops)
<1>1. i \in 2..size+1 /\ Smallest(dents, size, 1) /\ size \in Nat
  BY DEF SortInv, Inserting, SortTypes, Array
<1>2. Stops \in SUBSET (0..size)
  <2>1. \A j \in 1..i-1 : j \in 0..size
    BY <1>1
  <2> QED BY <2>1 DEF Stops
<1>3. 1 \in Stops
  <2>1. i \in 1..size /\ 1 \in 1..i-1
    BY <1>1
  <2> QED BY <1>1, <2>1 DEF Smallest, Stops
<1> QED BY <1>1, <1>2, <1>3, LargestOf

LEMMA InsertStep ==
  ASSUME SortInv, Insert
  PROVE  SortInv' /\ SortStep
<1>0. /\ spc = "insert"
      /\ size' = size /\ bits' = bits /\ stk' = stk /\ base' = base /\ end' = end
      /\ bit' = bit /\ a' = a /\ b' = b
  BY DEF Insert, radix
<1>1. /\ Array(dents, size) /\ dents \in Seq(Entry) /\ size \in Nat /\ size <= Len(dents)
      /\ Len(dents) \in Nat /\ size > 1 /\ stk = << >>
      /\ i \in 2..size+1 /\ Smallest(dents, size, 1) /\ Sorted(dents, i - 1)
  BY <1>0 DEF SortInv, SortTypes, Array, Inserting
<1>2. /\ Permuted(dents, dents', 1, size + 1)
      /\ i' \in Nat
      /\ \/ spc' = "sorted" /\ Sorted(dents', size)
         \/ /\ spc' = "insert" /\ i' \in 2..size+1
            /\ Smallest(dents', size, 1) /\ Sorted(dents', i' - 1)
  <2>1. CASE i > size
    <3>1. spc' = "sorted" /\ dents' = dents /\ i' = i
      BY <2>1, <1>1 DEF Insert
    <3>2. i - 1 = size
      BY <1>1, <2>1
    <3> QED BY <1>1, <3>1, <3>2, NothingPermuted
  <2>2. CASE i <= size
    <3> DEFINE j == Largest(Stops)
    <3>1. spc' = "insert" /\ i' = i + 1 /\ dents' = Inserted(dents, i, j)
      BY <1>0, <1>1, <2>2 DEF Insert, Inserted
    <3>2. j \in Stops /\ \A y \in Stops : y <= j
      BY <1>0, <2>2, LoopStops
    <3> HIDE DEF j
    <3>3. j \in 1..i-1 /\ ~Less(dents[i], dents[j]) /\ i \in 1..size
      BY <1>1, <2>2, <3>2 DEF Stops
    <3>4. \A k \in j+1..i-1 : Less(dents[i], dents[k])
      <4> SUFFICES ASSUME NEW k \in j+1..i-1, ~Less(dents[i], dents[k]) PROVE FALSE
        OBVIOUS
      <4>1. k \in Stops
        BY <3>3 DEF Stops
      <4>2. k <= j
        BY <3>2, <4>1
      <4> QED BY <3>3, <4>2
    <3>5. Permuted(dents, dents', 1, size + 1)
      BY <1>1, <3>1, <3>3, InsertedPermutes
    <3>6. Sorted(dents', i)
      BY <1>1, <3>1, <3>3, <3>4, InsertedSorts
    <3>7. Smallest(dents', size, 1)
      <4>1. dents'[1] = dents[1]
        <5>1. 1 \in 1..j
          BY <3>3
        <5> QED BY <1>1, <3>1, <3>3, <5>1, InsertedFacts
      <4>2. ASSUME NEW k \in 1..size PROVE ~Less(dents'[k], dents'[1])
        <5>1. (size + 1) - 1 = size
          BY <1>1
        <5>2. PICK l \in 1..size : dents'[k] = dents[l]
          BY <3>5, <5>1 DEF Permuted
        <5> QED BY <1>1, <4>1, <5>2 DEF Smallest
      <4>3. 1 \in 1..size
        BY <1>1
      <4> QED BY <4>2, <4>3 DEF Smallest
    <3>8. i' \in 2..size+1 /\ i' - 1 = i /\ i' \in Nat
      BY <1>1, <3>1, <3>3
    <3> QED BY <3>1, <3>5, <3>6, <3>7, <3>8
  <2> QED BY <1>1, <2>1, <2>2
<1>3. SortStep
  BY <1>0, <1>2 DEF SortStep
<1>4. Array(dents', size)
  BY <1>1, <1>2 DEF Array, Permuted
<1>5. SortTypes'
  BY <1>0, <1>2, <1>4 DEF SortInv, SortTypes, SortPc
<1>6. size > Fast => Keyed(dents', size, bits)
  BY <1>1, <1>2, KeyedKept DEF SortInv
<1>7. Radixing'
  <2>1. Stacked(dents', size, bits, stk)
    <3>1. Len(stk) = 0
      BY <1>1
    <3> QED BY <3>1 DEF Stacked
  <2> QED BY <1>0, <1>2, <2>1 DEF Radixing, AtHand, Halved
<1>8. Inserting'
  BY <1>0, <1>1, <1>2 DEF Inserting
<1> QED BY <1>0, <1>3, <1>5, <1>6, <1>7, <1>8 DEF SortInv

(* The sort keeps its invariant and only moves the entries it was given.   *)
LEMMA SortNextInv ==
  ASSUME SortInv, SortNext
  PROVE  SortInv' /\ SortStep
BY PopStep, PartitionStep, SplitStep, NextBitStep, MoveMinStep, InsertStep DEF SortNext

-----------------------------------------------------------------------------
(* What has been read of a directory. *)
Space(d, k) == IF k > Len(d) \/ d[k].kind = "self" THEN 0 ELSE d[k].len

Sums(f, d, n) == f = [k \in 0..n |-> IF k = 0 THEN 0 ELSE f[k - 1] + Space(d, k)]

LEMMA SumsExist == ASSUME NEW d PROVE \E f : Sums(f, d, MaxEntries)
<1> DEFINE T == {n \in Nat : ~\E f : Sums(f, d, n)}
<1>1. CASE T = {}
  BY <1>1, ScandirAssumption
<1>2. CASE T # {}
  <2>1. PICK n \in T : \A m \in T : n <= m
    <3> HIDE DEF T
    <3>1. T \in SUBSET Nat
      BY DEF T
    <3> QED BY <1>2, <3>1, LeastNat
  <2>2. CASE n = 0
    <3>1. Sums([k \in 0..0 |-> 0], d, 0)
      BY DEF Sums
    <3> QED BY <2>1, <2>2, <3>1
  <2>3. CASE n # 0
    <3>1. PICK f : Sums(f, d, n - 1)
      BY <2>1, <2>3
    <3> DEFINE g == [k \in 0..n |-> IF k = n THEN f[n - 1] + Space(d, n) ELSE f[k]]
    <3>2. Sums(g, d, n)
      <4> SUFFICES ASSUME NEW k \in 0..n
                   PROVE  g[k] = IF k = 0 THEN 0 ELSE g[k - 1] + Space(d, k)
        BY DEF Sums
      <4>1. CASE k = n
        BY <2>1, <2>3, <4>1
      <4>2. CASE k # n
        <5>1. k \in 0..n-1 /\ g[k] = f[k] /\ (k # 0 => g[k - 1] = f[k - 1])
          BY <2>1, <2>3, <4>2
        <5>2. f[k] = IF k = 0 THEN 0 ELSE f[k - 1] + Space(d, k)
          BY <3>1, <5>1 DEF Sums
        <5> QED BY <5>1, <5>2
      <4> QED BY <4>1, <4>2
    <3> QED BY <2>1, <3>2
  <2> QED BY <2>2, <2>3
<1> QED BY <1>1, <1>2

LEMMA OffsetIs == Sums(Offset, dir, MaxEntries)
BY SumsExist DEF Offset, Sums, Space

LEMMA OffsetIsNext == Sums(Offset', dir', MaxEntries)
BY SumsExist DEF Offset, Sums, Space

LEMMA SumsAre ==
  ASSUME NEW f, NEW d, Sums(f, d, MaxEntries)
  PROVE  f[0] = 0 /\ \A k \in 1..MaxEntries : f[k] = f[k - 1] + Space(d, k)
BY ScandirAssumption DEF Sums

(* Another entry changes no offset of those before it. *)
LEMMA SumsAgree ==
  ASSUME NEW d \in Seq(Entries), NEW e \in Entries, Len(d) < MaxEntries,
         NEW f, NEW g, Sums(f, d, MaxEntries), Sums(g, Append(d, e), MaxEntries)
  PROVE  \A k \in 0..Len(d) : g[k] = f[k]
<1> DEFINE T == {k \in 0..Len(d) : g[k] # f[k]}
<1> SUFFICES ASSUME T # {} PROVE FALSE
  OBVIOUS
<1>0. MaxEntries \in Nat /\ Len(d) \in Nat
  BY ScandirAssumption
<1>1. PICK k \in T : \A m \in T : k <= m
  <2>1. T \in SUBSET Nat
    BY <1>0
  <2> HIDE DEF T
  <2> QED BY <2>1, LeastNat
<1>2. k # 0
  BY <1>1, SumsAre
<1>3. k - 1 \in 0..Len(d) /\ k - 1 \notin T /\ k \in 1..Len(d) /\ k \in 1..MaxEntries
  BY <1>0, <1>1, <1>2
<1>4. Space(Append(d, e), k) = Space(d, k)
  <2>1. Append(d, e)[k] = d[k] /\ Len(Append(d, e)) = Len(d) + 1
    BY <1>3
  <2> QED BY <1>0, <1>3, <2>1 DEF Space
<1>5. g[k] = f[k]
  <2>1. f[k] = f[k - 1] + Space(d, k)
    BY <1>3, SumsAre
  <2>2. g[k] = g[k - 1] + Space(Append(d, e), k)
    BY <1>3, SumsAre
  <2> QED BY <1>3, <1>4, <2>1, <2>2
<1> QED BY <1>1, <1>5

(* The entries that are reported, and where their names are. *)
Listed == {k \in 1..Len(dir) : dir[k].kind # "self"}

Reported(x) == <<x.nameofs, x.type, x.inode>>

Told == {Reported(dents[j]) : j \in 1..Len(dents)}

ToTell == {<<Offset[k - 1], dir[k].type, dir[k].inode>> : k \in Listed}

Collected ==
  /\ dentoffs = Cardinality(Listed)
  /\ namesoffs = Offset[Len(dir)]
  /\ flags = {} => dents = << >>
  /\ flags # {} => Len(dents) = dentoffs /\ Told = ToTell

(* What the sort relies on: all bits of the inodes are known, and the      *)
(* score tells a directory where directories are to be first.              *)
Scored == \A j \in 1..Len(dents) :
  /\ \A k \in 0..InodeBits-1 : BitSet(dents[j].inode, k) => k \in inode_bits
  /\ IF "DIRS_FIRST" \in flags THEN dents[j].score = 0 <=> dents[j].type = "dir"
                               ELSE dents[j].score = 7

LEMMA AppendedEntry ==
  ASSUME dir \in Seq(Entries), Len(dir) < MaxEntries, NEW e \in Entries, dir' = Append(dir, e)
  PROVE  /\ Len(dir') = Len(dir) + 1 /\ dir'[Len(dir) + 1] = e /\ Len(dir) \in Nat
         /\ \A k \in 1..Len(dir) : dir'[k] = dir[k]
         /\ \A k \in 0..Len(dir) : Offset'[k] = Offset[k]
         /\ Offset'[Len(dir) + 1] = Offset[Len(dir)] + IF e.kind = "self" THEN 0 ELSE e.len
<1>0. MaxEntries \in Nat /\ Len(dir) \in Nat
  BY ScandirAssumption
<1>1. /\ Len(dir') = Len(dir) + 1 /\ dir'[Len(dir) + 1] = e
      /\ \A k \in 1..Len(dir) : dir'[k] = dir[k]
  OBVIOUS
<1>2. \A k \in 0..Len(dir) : Offset'[k] = Offset[k]
  <2>1. Sums(Offset', Append(dir, e), MaxEntries)
    BY OffsetIsNext
  <2> QED BY <2>1, OffsetIs, SumsAgree
<1>3. Offset'[Len(dir) + 1] = Offset[Len(dir)] + IF e.kind = "self" THEN 0 ELSE e.len
  <2> DEFINE n == Len(dir) + 1
  <2>1. n \in 1..MaxEntries /\ n - 1 = Len(dir) /\ Len(dir) \in 0..Len(dir)
    BY <1>0
  <2>2. Offset'[n] = Offset'[n - 1] + Space(dir', n)
    BY <2>1, OffsetIsNext, SumsAre
  <2>3. Space(dir', n) = IF e.kind = "self" THEN 0 ELSE e.len
    BY <1>0, <1>1 DEF Space
  <2> QED BY <1>2, <2>1, <2>2, <2>3
<1> QED BY <1>0, <1>1, <1>2, <1>3

LEMMA ListedOf ==
  ASSUME dir \in Seq(Entries), Len(dir) < MaxEntries, NEW e \in Entries, dir' = Append(dir, e)
  PROVE  /\ Listed' = IF e.kind = "self" THEN Listed ELSE Listed \union {Len(dir) + 1}
         /\ Len(dir) + 1 \notin Listed
         /\ IsFiniteSet(Listed) /\ Cardinality(Listed) \in Nat
         /\ e.kind # "self" => Cardinality(Listed') = Cardinality(Listed) + 1
<1>1. Len(dir') = Len(dir) + 1 /\ dir'[Len(dir) + 1] = e /\ Len(dir) \in Nat
      /\ \A k \in 1..Len(dir) : dir'[k] = dir[k]
  BY AppendedEntry
<1>2. Listed' = IF e.kind = "self" THEN Listed ELSE Listed \union {Len(dir) + 1}
  <2>1. \A k : k \in 1..Len(dir)+1 <=> k \in 1..Len(dir) \/ k = Len(dir) + 1
    BY <1>1
  <2> QED BY <1>1, <2>1 DEF Listed
<1>3. Len(dir) + 1 \notin Listed
  BY <1>1 DEF Listed
<1>4. IsFiniteSet(Listed) /\ Cardinality(Listed) \in Nat
  <2>1. IsFiniteSet(1..Len(dir))
    BY <1>1, FS_Interval
  <2>2. Listed \subseteq 1..Len(dir)
    BY DEF Listed
  <2> QED BY <2>1, <2>2, FS_Subset, FS_CardinalityType
<1>5. e.kind # "self" => Cardinality(Listed') = Cardinality(Listed) + 1
  BY <1>2, <1>3, <1>4, FS_AddElement
<1> QED BY <1>2, <1>3, <1>4, <1>5

(* An entry as it is added: the score is a number of three bits. *)
LEMMA DentFacts ==
  ASSUME NEW e \in Entries, namesoffs \in Nat
  PROVE  /\ Dent(e) \in Entry
         /\ Dent(e).inode = e.inode
         /\ Reported(Dent(e)) = <<namesoffs, e.type, e.inode>>
         /\ IF "DIRS_FIRST" \in flags THEN Dent(e).score = 0 <=> Dent(e).type = "dir"
                                      ELSE Dent(e).score = 7
<1>1. e.len \in 2..256 /\ e.type \in {"dir", "unknown", "other"}
      /\ e.kind \in {"self", "hidden", "dotted", "plain"}
  BY ScandirAssumption
<1>2. e.inode \in 1..Shifted[InodeBits]-1
  BY ScandirAssumption
<1>3. /\ Score(e) \in 0..7
      /\ IF "DIRS_FIRST" \in flags THEN Score(e) = 0 <=> e.type = "dir" ELSE Score(e) = 7
  BY <1>1 DEF Score
<1>4. /\ Dent(e).nameofs = namesoffs /\ Dent(e).type = e.type
      /\ Dent(e).score = Score(e) /\ Dent(e).inode = e.inode
  BY DEF Dent
<1>5. Dent(e) \in Entry
  BY <1>1, <1>2, <1>3 DEF Dent, Entry
<1> QED BY <1>3, <1>4, <1>5 DEF Reported

(* Reading an entry, whatever becomes of its memory. *)
Adds(e) ==
  /\ dir' = Append(dir, e)
  /\ \/ /\ e.kind = "self" /\ UNCHANGED <<dents, flags, namesoffs, dentoffs, inode_bits>>
     \/ /\ e.kind # "self" /\ flags = {} /\ UNCHANGED <<dents, flags, inode_bits>>
        /\ namesoffs' = namesoffs + e.len /\ dentoffs' = dentoffs + 1
     \/ /\ e.kind # "self" /\ flags # {}
        /\ dents' = Append(dents, Dent(e))
        /\ inode_bits' = inode_bits \union {k \in 0..InodeBits-1 : BitSet(e.inode, k)}
        /\ flags' = IF e.type = "unknown" THEN flags \union {"FOUND_UNKNOWN"} ELSE flags
        /\ namesoffs' = namesoffs + e.len /\ dentoffs' = dentoffs + 1

LEMMA ToldGrows ==
  ASSUME NEW s \in Seq(Entry), NEW x \in Entry
  PROVE  {Reported(Append(s, x)[j]) : j \in 1..Len(Append(s, x))}
         = {Reported(s[j]) : j \in 1..Len(s)} \union {Reported(x)}
<1> DEFINE t == Append(s, x)
<1>1. /\ Len(t) = Len(s) + 1 /\ Len(s) \in Nat /\ t[Len(s) + 1] = x
      /\ \A j \in 1..Len(s) : t[j] = s[j]
  OBVIOUS
<1>2. \A j : j \in 1..Len(t) <=> j \in 1..Len(s) \/ j = Len(s) + 1
  BY <1>1
<1> HIDE DEF t
<1>3. {Reported(t[j]) : j \in 1..Len(t)} = {Reported(s[j]) : j \in 1..Len(s)} \union {Reported(x)}
  BY <1>1, <1>2
<1> QED BY <1>3 DEF t

LEMMA ToTellGrows ==
  ASSUME dir \in Seq(Entries), Len(dir) < MaxEntries, NEW e \in Entries, dir' = Append(dir, e)
  PROVE  ToTell' = IF e.kind = "self" THEN ToTell
                   ELSE ToTell \union {<<Offset[Len(dir)], e.type, e.inode>>}
<1> DEFINE n == Len(dir) + 1
<1>1. /\ n - 1 = Len(dir) /\ dir'[n] = e
      /\ \A k \in 1..Len(dir) : dir'[k] = dir[k]
      /\ \A k \in 0..Len(dir) : Offset'[k] = Offset[k]
      /\ Len(dir) \in Nat
  BY AppendedEntry
<1>2. \A k \in Listed : k \in 1..Len(dir) /\ k - 1 \in 0..Len(dir)
  BY <1>1 DEF Listed
<1>3. \A k \in Listed : <<Offset'[k - 1], dir'[k].type, dir'[k].inode>>
                        = <<Offset[k - 1], dir[k].type, dir[k].inode>>
  BY <1>1, <1>2
<1>4. Offset'[n - 1] = Offset[Len(dir)] /\ dir'[n] = e
  BY <1>1
<1>5. Listed' = IF e.kind = "self" THEN Listed ELSE Listed \union {n}
  BY ListedOf
<1> HIDE DEF n
<1>6. ToTell' = {<<Offset'[k - 1], dir'[k].type, dir'[k].inode>> : k \in Listed'}
  BY DEF ToTell
<1> DEFINE P(k) == <<Offset[k - 1], dir[k].type, dir[k].inode>>
           Q(k) == <<Offset'[k - 1], dir'[k].type, dir'[k].inode>>
           x == <<Offset[Len(dir)], e.type, e.inode>>
<1>7. ToTell = {P(k) : k \in Listed} /\ ToTell' = {Q(k) : k \in Listed'}
  BY <1>6 DEF ToTell
<1>8. (\A k \in Listed : Q(k) = P(k)) /\ Q(n) = x
  BY <1>3, <1>4
<1> HIDE DEF P, Q, x
<1>9. ToTell' = IF e.kind = "self" THEN ToTell ELSE ToTell \union {x}
  <2>1. CASE e.kind = "self"
    BY <1>5, <1>7, <1>8, <2>1
  <2>2. CASE e.kind # "self"
    <3>1. ToTell' = {Q(k) : k \in Listed \union {n}}
      BY <1>5, <1>7, <2>2
    <3>2. ToTell' = {P(k) : k \in Listed} \union {x}
      BY <1>8, <3>1
    <3> QED BY <1>7, <2>2, <3>2
  <2> QED BY <2>1, <2>2
<1> QED BY <1>9 DEF x

LEMMA CollectedGrows ==
  ASSUME dir \in Seq(Entries), Len(dir) < MaxEntries, dents \in Seq(Entry),
         namesoffs \in Nat, dentoffs \in Nat, NEW e \in Entries, Adds(e), Collected
  PROVE  /\ Collected' /\ dents' \in Seq(Entry)
         /\ dir' \in Seq(Entries) /\ Len(dir') <= MaxEntries
<1>0. dir' = Append(dir, e)
  BY DEF Adds
<1>1. /\ Len(dir') = Len(dir) + 1 /\ Len(dir) \in Nat
      /\ Offset'[Len(dir) + 1] = Offset[Len(dir)] + IF e.kind = "self" THEN 0 ELSE e.len
  BY <1>0, AppendedEntry
<1>2. /\ e.kind = "self" => Listed' = Listed
      /\ e.kind # "self" => Cardinality(Listed') = Cardinality(Listed) + 1
  BY <1>0, ListedOf
<1>3. ToTell' = IF e.kind = "self" THEN ToTell
                ELSE ToTell \union {<<Offset[Len(dir)], e.type, e.inode>>}
  BY <1>0, ToTellGrows
<1>4. MaxEntries \in Nat
  BY ScandirAssumption
<1>5. dir' \in Seq(Entries) /\ Len(dir') <= MaxEntries
  BY <1>0, <1>1, <1>4
<1>6. Dent(e) \in Entry /\ Reported(Dent(e)) = <<namesoffs, e.type, e.inode>>
  BY DentFacts
<1>7. CASE e.kind = "self"
  <2>1. UNCHANGED <<dents, flags, namesoffs, dentoffs, inode_bits>>
    BY <1>7 DEF Adds
  <2>2. Offset'[Len(dir')] = Offset[Len(dir)]
    <3>1. Offset'[Len(dir')] = Offset[Len(dir)] + 0
      BY <1>1, <1>7
    <3> QED BY <3>1 DEF Collected
  <2>3. Told' = Told
    BY <2>1 DEF Told
  <2>4. ToTell' = ToTell /\ Listed' = Listed
    BY <1>2, <1>3, <1>7
  <2> QED BY <1>5, <2>1, <2>2, <2>3, <2>4 DEF Collected
<1>8. CASE e.kind # "self"
  <2>1. namesoffs' = namesoffs + e.len /\ dentoffs' = dentoffs + 1
    BY <1>8 DEF Adds
  <2>2. namesoffs' = Offset'[Len(dir')]
    BY <1>1, <1>8, <2>1 DEF Collected
  <2>3. dentoffs' = Cardinality(Listed')
    BY <1>2, <1>8, <2>1 DEF Collected
  <2>4. CASE flags = {}
    <3>1. UNCHANGED <<dents, flags>>
      BY <1>8, <2>4 DEF Adds
    <3> QED BY <1>5, <2>2, <2>3, <2>4, <3>1 DEF Collected
  <2>5. CASE flags # {}
    <3>1. dents' = Append(dents, Dent(e)) /\ flags' # {}
      BY <1>8, <2>5 DEF Adds
    <3>2. Len(dents') = Len(dents) + 1 /\ dents' \in Seq(Entry)
      BY <1>6, <3>1
    <3>3. Told' = Told \union {Reported(Dent(e))}
      <4> DEFINE x == Dent(e)
                 t == Append(dents, x)
      <4>1. x \in Entry /\ dents' = t
        BY <1>6, <3>1
      <4> HIDE DEF x
      <4>2. {Reported(t[j]) : j \in 1..Len(t)}
            = {Reported(dents[j]) : j \in 1..Len(dents)} \union {Reported(x)}
        BY <4>1, ToldGrows
      <4> HIDE DEF t
      <4>3. Told' = {Reported(t[j]) : j \in 1..Len(t)}
        BY <4>1 DEF Told
      <4>4. Told' = Told \union {Reported(x)}
        BY <4>2, <4>3 DEF Told
      <4> QED BY <4>4 DEF x
    <3>4. ToTell' = ToTell \union {<<namesoffs, e.type, e.inode>>}
      BY <1>3, <1>8 DEF Collected
    <3>5. Told' = ToTell' /\ Len(dents') = dentoffs'
      BY <1>6, <2>1, <2>5, <3>2, <3>3, <3>4 DEF Collected
    <3> QED BY <1>5, <2>2, <2>3, <3>1, <3>2, <3>5 DEF Collected
  <2> QED BY <2>4, <2>5
<1> QED BY <1>7, <1>8

LEMMA ScoredGrows ==
  ASSUME dents \in Seq(Entry), namesoffs \in Nat, NEW e \in Entries, Adds(e), Scored,
         inode_bits \subseteq 0..InodeBits-1,
         flags \subseteq {"DENTS", "DIRS_FIRST", "STAT_ORDER", "FOUND_UNKNOWN"}
  PROVE  /\ Scored' /\ inode_bits' \subseteq 0..InodeBits-1
         /\ flags' \subseteq {"DENTS", "DIRS_FIRST", "STAT_ORDER", "FOUND_UNKNOWN"}
<1>1. CASE UNCHANGED <<dents, flags, inode_bits>>
  BY <1>1 DEF Scored
<1>2. CASE /\ dents' = Append(dents, Dent(e))
           /\ inode_bits' = inode_bits \union {k \in 0..InodeBits-1 : BitSet(e.inode, k)}
           /\ flags' = IF e.type = "unknown" THEN flags \union {"FOUND_UNKNOWN"} ELSE flags
  <2>1. /\ Dent(e) \in Entry /\ Dent(e).inode = e.inode
        /\ IF "DIRS_FIRST" \in flags THEN Dent(e).score = 0 <=> Dent(e).type = "dir"
                                     ELSE Dent(e).score = 7
    BY DentFacts
  <2>2. "DIRS_FIRST" \in flags' <=> "DIRS_FIRST" \in flags
    BY <1>2
  <2>3. /\ Len(dents') = Len(dents) + 1 /\ Len(dents) \in Nat
        /\ dents'[Len(dents) + 1] = Dent(e)
        /\ \A j \in 1..Len(dents) : dents'[j] = dents[j]
    BY <1>2, <2>1
  <2>4. ASSUME NEW j \in 1..Len(dents')
        PROVE  /\ \A k \in 0..InodeBits-1 : BitSet(dents'[j].inode, k) => k \in inode_bits'
               /\ IF "DIRS_FIRST" \in flags' THEN dents'[j].score = 0 <=> dents'[j].type = "dir"
                                             ELSE dents'[j].score = 7
    <3>1. CASE j \in 1..Len(dents)
      <4>1. dents'[j] = dents[j]
        BY <2>3, <3>1
      <4> QED BY <1>2, <2>2, <3>1, <4>1 DEF Scored
    <3>2. CASE j = Len(dents) + 1
      <4>1. dents'[j] = Dent(e)
        BY <2>3, <3>2
      <4> QED BY <1>2, <2>1, <2>2, <4>1
    <3> QED BY <2>3, <3>1, <3>2
  <2> QED BY <1>2, <2>4 DEF Scored
<1> QED BY <1>1, <1>2 DEF Adds

(* What is sorted by score and inode; or only the directories, once they   *)
(* are in front.                                                           *)
ByScore == "STAT_ORDER" \in flags \/ {"DIRS_FIRST", "FOUND_UNKNOWN"} \subseteq flags

ByType == "DIRS_FIRST" \in flags /\ ~ByScore

Splitting ==
  /\ ByType
  /\ 1 <= a /\ a <= b /\ b <= Len(dents) + 1
  /\ \A j \in 1..a-1 : dents[j].type = "dir"
  /\ \A j \in b..Len(dents) : dents[j].type # "dir"

Ordering ==
  /\ SortInv
  /\ \/ ByScore /\ size = Len(dents)
     \/ ByType /\ \A j \in 1..Len(dents) : dents[j].type = "dir" <=> j <= size

LEMMA UnmovedKeeps ==
  ASSUME UNCHANGED <<dents, flags, dir, namesoffs, dentoffs, inode_bits>>
  PROVE  (Collected' <=> Collected) /\ (Scored' <=> Scored)
BY DEF Collected, Scored, Listed, Told, ToTell, Offset

(* Steps that only move entries keep what is known of all of them. *)
LEMMA MovedKeeps ==
  ASSUME dents \in Seq(Entry), Permuted(dents, dents', 1, Len(dents) + 1),
         Collected, Scored, UNCHANGED <<flags, dir, namesoffs, dentoffs, inode_bits>>
  PROVE  Collected' /\ Scored'
<1>1. /\ Len(dents') = Len(dents) /\ Len(dents) \in Nat
      /\ (Len(dents) + 1) - 1 = Len(dents)
  BY DEF Permuted
<1>2. /\ \A j \in 1..Len(dents) : \E k \in 1..Len(dents) : dents'[j] = dents[k]
      /\ \A k \in 1..Len(dents) : \E j \in 1..Len(dents) : dents'[j] = dents[k]
  BY <1>1 DEF Permuted
<1>3. Told' = Told
  <2>1. Told' = {Reported(dents'[j]) : j \in 1..Len(dents')}
    BY DEF Told
  <2> QED BY <1>1, <1>2, <2>1 DEF Told
<1>4. ToTell' = ToTell /\ Listed' = Listed
  BY DEF ToTell, Listed, Offset
<1>5. Offset'[Len(dir')] = Offset[Len(dir)]
  BY DEF Offset
<1>6. Collected'
  <2>1. flags = {} => dents' = << >>
    <3>1. flags = {} => Len(dents') = 0 /\ dents' \in Seq(Entry)
      BY <1>1 DEF Collected, Permuted
    <3> QED BY <3>1, EmptySeq
  <2> QED BY <1>1, <1>3, <1>4, <1>5, <2>1 DEF Collected
<1>7. Scored'
  <2> SUFFICES ASSUME NEW j \in 1..Len(dents)
               PROVE  /\ \A k \in 0..InodeBits-1 : BitSet(dents'[j].inode, k) => k \in inode_bits
                      /\ IF "DIRS_FIRST" \in flags
                           THEN dents'[j].score = 0 <=> dents'[j].type = "dir"
                           ELSE dents'[j].score = 7
    BY <1>1 DEF Scored
  <2>1. PICK k \in 1..Len(dents) : dents'[j] = dents[k]
    BY <1>2
  <2> QED BY <2>1 DEF Scored
<1> QED BY <1>6, <1>7

LEMMA SplitDirsStep ==
  ASSUME dents \in Seq(Entry), a \in Nat, b \in Nat, Splitting, SplitDirs
  PROVE  /\ Splitting' /\ Permuted(dents, dents', 1, Len(dents) + 1)
         /\ a' \in Nat /\ b' \in Nat
<1> DEFINE n == Len(dents) + 1
<1>1. /\ n \in Nat /\ n - 1 = Len(dents) /\ 1 <= n /\ n <= Len(dents) + 1 /\ 1 \in Nat
      /\ 1 <= a /\ a < b /\ b <= n
  BY DEF Splitting, SplitDirs
<1>2. \A j \in 1..n-1 : j \in IsDir <=> dents[j].type = "dir"
  BY DEF IsDir
<1>3. (\A j \in 1..a-1 : j \in IsDir) /\ (\A j \in b..n-1 : j \notin IsDir)
  <2>1. \A j \in 1..a-1 : j \in 1..n-1
    BY <1>1
  <2>2. \A j \in b..n-1 : j \in 1..n-1
    BY <1>1
  <2> QED BY <1>1, <1>2, <2>1, <2>2 DEF Splitting
<1>4. SplitRound(IsDir) /\ UNCHANGED flags
  BY DEF SplitDirs
<1>5. /\ Permuted(dents, dents', 1, n)
      /\ a' \in Nat /\ b' \in Nat /\ 1 <= a' /\ a' <= b' /\ b' <= n
      /\ \A j \in 1..a'-1 : \E k \in 1..n-1 : k \in IsDir /\ dents'[j] = dents[k]
      /\ \A j \in b'..n-1 : \E k \in 1..n-1 : k \notin IsDir /\ dents'[j] = dents[k]
  <2>1. \A lo, hi \in Nat :
          /\ 1 <= lo /\ hi <= Len(dents) + 1 /\ lo <= a /\ a < b /\ b <= hi
          /\ \A j \in lo..a-1 : j \in IsDir
          /\ \A j \in b..hi-1 : j \notin IsDir
          => /\ Permuted(dents, dents', lo, hi)
             /\ a' \in Nat /\ b' \in Nat /\ lo <= a' /\ a' <= b' /\ b' <= hi
             /\ \A j \in lo..a'-1 : \E k \in lo..hi-1 : k \in IsDir /\ dents'[j] = dents[k]
             /\ \A j \in b'..hi-1 : \E k \in lo..hi-1 : k \notin IsDir /\ dents'[j] = dents[k]
    BY <1>4, RoundFacts
  <2> HIDE DEF n
  <2> QED BY <1>1, <1>3, <2>1
<1>6. Len(dents') = Len(dents)
  BY <1>5 DEF Permuted
<1>7. ASSUME NEW j \in 1..a'-1 PROVE dents'[j].type = "dir"
  BY <1>2, <1>5
<1>8. ASSUME NEW j \in b'..n-1 PROVE dents'[j].type # "dir"
  BY <1>2, <1>5
<1> QED BY <1>1, <1>4, <1>5, <1>6, <1>7, <1>8 DEF Splitting, ByType, ByScore

(* A sort begins as its invariant asks: there is a bit to begin with, and  *)
(* all that tells two entries apart is among the bits.                     *)
LEMMA SortStarts ==
  ASSUME dents \in Seq(Entry), {base, end, bit, a, b, i} \subseteq Nat,
         NEW n \in 0..Len(dents), NEW score_bits \in SUBSET AllScores,
         inode_bits \subseteq 0..InodeBits-1,
         \A j \in 1..n, k \in 0..InodeBits-1 : BitSet(dents[j].inode, k) => k \in inode_bits,
         \/ \A j, k \in 1..n : dents[j].score = dents[k].score
         \/ score_bits = AllScores,
         Sort(n, score_bits, inode_bits), UNCHANGED <<dents, a, b>>
  PROVE  SortInv' /\ size' = n
<1> DEFINE B == BitsOf(score_bits, inode_bits)
<1>1. B \subseteq 1..Top /\ Top \in Nat
  <2>1. \A k \in 0..InodeBits-1 : k + 1 \in 1..Top
    BY TopFacts
  <2>2. \A k \in AllScores : InodeBits + 1 + k \in 1..Top
    BY TopFacts DEF AllScores, ScoreBits
  <2> QED BY <2>1, <2>2, TopFacts DEF BitsOf
<1>2. Keyed(dents, n, B)
  <2>1. \A j \in 1..n, k \in 0..InodeBits-1 : BitSet(dents[j].inode, k) => k + 1 \in B
    BY DEF BitsOf
  <2>2. CASE score_bits = AllScores
    <3>1. ASSUME NEW l \in InodeBits+1..Top PROVE l \in B
      <4>1. l - (InodeBits + 1) \in AllScores /\ InodeBits + 1 + (l - (InodeBits + 1)) = l
        BY TopFacts DEF AllScores, ScoreBits
      <4> QED BY <2>2, <4>1 DEF BitsOf
    <3> QED BY <2>1, <3>1 DEF Keyed
  <2>3. CASE \A j, k \in 1..n : dents[j].score = dents[k].score
    BY <2>1, <2>3 DEF Keyed
  <2> QED BY <2>2, <2>3
<1> DEFINE top == Largest(B)
<1>3. n > Fast => top \in B /\ top \in Nat /\ \A y \in B : y <= top /\ ~(y > top)
  <2> SUFFICES ASSUME n > Fast PROVE top \in B /\ top \in Nat /\ \A y \in B : y <= top /\ ~(y > top)
    OBVIOUS
  <2>1. 1 \in 1..n /\ 1 \in 1..Len(dents)
    BY SortAssumption
  <2>2. dents[1] \in Entry
    BY <2>1
  <2>3. Narrow(dents[1].inode, InodeBits) /\ dents[1].inode # 0 /\ InodeBits \in 0..Top
    BY <2>2, EntryFacts, TopFacts
  <2>4. \E l \in 0..InodeBits-1 : BitSet(dents[1].inode, l)
    BY <2>3, SomeBit
  <2>5. B # {}
    BY <1>2, <2>1, <2>4 DEF Keyed
  <2>6. B \in SUBSET (0..Top)
    BY <1>1
  <2>7. top \in B /\ \A y \in B : y <= top
    <3> HIDE DEF B
    <3> QED BY <1>1, <2>5, <2>6, LargestOf
  <2> HIDE DEF B, top
  <2>8. B \subseteq Nat
    BY <1>1
  <2> QED BY <2>7, <2>8
<1>4. /\ size' = n /\ bits' = (IF n > Fast THEN B ELSE {})
      /\ stk' = (IF n > Fast THEN << [base |-> 1, end |-> n + 1, bit |-> top] >>
                             ELSE << >>)
      /\ spc' = (IF n <= 1 THEN "sorted" ELSE IF n > Fast THEN "pop" ELSE "min")
      /\ UNCHANGED <<dents, base, end, bit, a, b, i>>
  BY DEF Sort
<1> HIDE DEF B, top
<1>5. Array(dents, n) /\ n \in Nat
  BY DEF Array
<1>6. SortTypes'
  <2>1. stk' \in Seq([base : Nat, end : Nat, bit : Nat])
    <3>1. CASE n > Fast
      <4>2. [base |-> 1, end |-> n + 1, bit |-> top] \in [base : Nat, end : Nat, bit : Nat]
        BY <1>3, <1>5, <3>1
      <4> QED BY <1>4, <3>1, <4>2
    <3>2. CASE ~(n > Fast)
      BY <1>4, <3>2
    <3> QED BY <3>1, <3>2
  <2>2. bits' \subseteq 1..Top
    BY <1>1, <1>4
  <2> QED BY <1>4, <1>5, <2>1, <2>2 DEF SortTypes, SortPc
<1>7. (size > Fast => Keyed(dents, size, bits))'
  BY <1>2, <1>4
<1>8. Radixing'
  <2>1. Stacked(dents, n, bits', stk')
    <3>1. CASE n > Fast
      <4>1. /\ Len(stk') = 1 /\ stk'[1].base = 1 /\ stk'[1].end = n + 1
            /\ stk'[1].bit = top /\ bits' = B
        BY <1>4, <3>1
      <4>2. Parted(dents, n, B, 1, n + 1, top)
        <5>1. \A x, y \in 1..n : Same(B, dents[x], dents[y], top)
          BY <1>3, <3>1 DEF Same
        <5>2. 1 \in 1..n+1 /\ n + 1 \in 1..n+1 /\ (n + 1) - 1 = n
          BY <1>5
        <5>3. n+1..n = {}
          BY <1>5
        <5> QED BY <1>3, <3>1, <5>1, <5>2, <5>3 DEF Parted
      <4>3. Above(stk', n, 0) = n + 1 /\ \A k \in 1..1 : k = 1 /\ k - 1 = 0
        BY DEF Above
      <4>4. ASSUME NEW k \in 1..Len(stk')
            PROVE  /\ stk'[k].end = Above(stk', n, k - 1)
                   /\ Parted(dents, n, bits', stk'[k].base, stk'[k].end, stk'[k].bit)
        <5>1. k = 1 /\ k - 1 = 0
          BY <4>1, <4>3
        <5> QED BY <4>1, <4>2, <4>3, <5>1
      <4>5. \A j, k \in 1..Len(stk') : j < k => stk'[k].end <= stk'[j].base
        BY <4>1, <4>3
      <4> QED BY <4>4, <4>5 DEF Stacked
    <3>2. CASE ~(n > Fast)
      <4>1. Len(stk') = 0
        BY <1>4, <3>2
      <4> QED BY <4>1 DEF Stacked
    <3> QED BY <3>1, <3>2
  <2>2. spc' = "pop" => n > Fast /\ Settled(dents, n, Above(stk', n, Len(stk')))
    <3> SUFFICES ASSUME spc' = "pop" PROVE n > Fast /\ Settled(dents, n, Above(stk', n, Len(stk')))
      OBVIOUS
    <3>1. n > Fast
      BY <1>4
    <3>2. Len(stk') = 1 /\ stk'[1].base = 1
      BY <1>4, <3>1
    <3> QED BY <3>1, <3>2 DEF Above, Settled
  <2>3. spc' \in {"sorted", "pop", "min"}
    BY <1>4
  <2> QED BY <1>4, <2>1, <2>2, <2>3 DEF Radixing, AtHand, Halved
<1>9. Inserting'
  <2>1. spc' = "sorted" => Sorted(dents, n)
    BY <1>4, <1>5 DEF Sorted
  <2>2. spc' = "min" => n > 1 /\ stk' = << >> /\ ~(n > Fast)
    BY <1>4, <1>5
  <2> QED BY <1>4, <2>1, <2>2 DEF Inserting
<1> QED BY <1>4, <1>6, <1>7, <1>8, <1>9 DEF SortInv

-----------------------------------------------------------------------------
(* The invariant of a directory that is read and sorted.                   *)
Early == {"new", "queued", "scandir"}

(* Where a request may be that is not eio_readdir.                         *)
Elsewhere == {"new", "queued", "execute", "alloc", "alloced", "call", "emulate", "copy", "write"}

Plain ==
  /\ dir \in Seq(Entries) /\ Len(dir) <= MaxEntries
  /\ dents \in Seq(Entry)
  /\ spc \in SortPc /\ {size, base, end, bit, a, b, i} \subseteq Nat
  /\ bits \subseteq 1..Top /\ inode_bits \subseteq 0..InodeBits-1
  /\ flags \subseteq {"DENTS", "DIRS_FIRST", "STAT_ORDER", "FOUND_UNKNOWN"}

Unread == pc \in Early =>
  dir = << >> /\ dents = << >> /\ namesoffs = 0 /\ dentoffs = 0 /\ inode_bits = {}

Reading == pc \in {"read", "added"} => Collected /\ Scored

Arranging == pc \in {"dirs", "sorting"} =>
  /\ Collected /\ Scored /\ result = dentoffs
  /\ pc = "dirs" => Splitting
  /\ pc = "sorting" => Ordering

Arranged == Read => Collected /\ result = dentoffs /\ DirsFirst /\ StatOrder

OwnNames == ptr2[1] = "names" => pc \notin Elsewhere

Quiet == pc # "sorting" => spc \in {"none", "sorted"}

DirInv == Plain /\ Unread /\ Reading /\ Arranging /\ Arranged /\ OwnNames /\ Quiet

(* Most steps leave the directory alone. *)
Idle == UNCHANGED <<sortvars, dir, flags, locals>>

LEMMA IdleKeeps ==
  ASSUME DirInv, Idle,
         pc' \in Early => pc \in Early,
         pc = "sorting" => pc' = "sorting",
         pc' \in {"read", "added", "dirs", "sorting"} =>
           result' = result /\ (pc' = pc \/ (pc = "added" /\ pc' = "read")),
         ptr2'[1] = "names" => pc' \notin Elsewhere,
         Read' => Read /\ result' = result
  PROVE  DirInv'
<1>1. /\ UNCHANGED <<dents, size, bits, stk, base, end, bit, a, b, i, spc, dir, flags>>
      /\ UNCHANGED <<namesoffs, dentoffs, inode_bits>>
  BY DEF Idle, sortvars, radix, locals
<1>2. Plain' /\ Unread'
  BY <1>1 DEF DirInv, Plain, Unread
<1>3. /\ Collected' <=> Collected
      /\ Scored' <=> Scored
      /\ Splitting' <=> Splitting
  BY <1>1, UnmovedKeeps DEF Splitting, ByType, ByScore
<1>4. Ordering' <=> Ordering
  BY <1>1 DEF Ordering, ByType, ByScore, SortInv, SortTypes, Radixing, AtHand, Halved, Inserting
<1>5. Reading' /\ Arranging'
  BY <1>1, <1>3, <1>4 DEF DirInv, Reading, Arranging
<1>6. Arranged'
  <2> SUFFICES ASSUME Read' PROVE Collected' /\ result' = dentoffs' /\ DirsFirst' /\ StatOrder'
    BY DEF Arranged
  <2>1. Collected /\ result = dentoffs /\ DirsFirst /\ StatOrder /\ Read /\ result' = result
    BY DEF DirInv, Arranged
  <2>2. DirsFirst' /\ StatOrder'
    BY <1>1, <2>1 DEF DirsFirst, StatOrder
  <2> QED BY <1>1, <1>3, <2>1, <2>2
<1>7. OwnNames' /\ Quiet'
  BY <1>1 DEF DirInv, OwnNames, Quiet
<1> QED BY <1>2, <1>5, <1>6, <1>7 DEF DirInv

LEMMA NotNames ==
  /\ \A p \in {Null, NewPath, Buffer, Caller} : p[1] # "names"
  /\ \A n : Block("names", n)[1] = "names"
BY Kind, Kinds

(* What a request of another kind does, or one that is not executed yet.   *)
LEMMA ElsewhereKeeps ==
  ASSUME DirInv, Idle, pc \in Elsewhere, ptr2' = ptr2 \/ ptr2' \in {Null, NewPath, Buffer, Caller},
         pc' \in Early => pc \in Early,
         pc' \notin {"read", "added", "dirs", "sorting"}
  PROVE  DirInv'
<1>1. ptr2'[1] # "names"
  BY NotNames DEF DirInv, OwnNames
<1>2. ~Read'
  BY <1>1 DEF Read
<1> QED BY <1>1, <1>2, IdleKeeps DEF Elsewhere

LEMMA IdleSteps ==
  ASSUME IInv, DirInv,
         \/ Make \/ Refuse \/ SendfileSync \/ Begin \/ AllocFlag \/ AllocMemory \/ AllocStore
         \/ Call \/ CallOnArea \/ Mtouch \/ DBuf \/ Readahead \/ Sendfile \/ SendRead \/ SendWrite
  PROVE  DirInv'
<1> USE DEF Idle, locals, Elsewhere, Early, memory
<1>1. CASE Make
  <2>1. ptr2' \in {Null, NewPath, Caller}
    BY <1>1 DEF Make
  <2> QED BY <1>1, <2>1, ElsewhereKeeps DEF Make
<1>2. CASE Refuse \/ SendfileSync \/ Begin
  BY <1>2, ElsewhereKeeps DEF Refuse, SendfileSync, Begin
<1>3. CASE AllocFlag \/ AllocMemory
  BY <1>3, ElsewhereKeeps DEF AllocFlag, AllocMemory
<1>4. CASE AllocStore
  <2>1. ptr2' \in {Null, Buffer}
    BY <1>4 DEF AllocStore, IInv, Typed
  <2> QED BY <1>4, <2>1, ElsewhereKeeps DEF AllocStore
<1>5. CASE Call \/ CallOnArea \/ Mtouch
  BY <1>5, ElsewhereKeeps DEF Call, CallOnArea, Mtouch
<1>6. CASE DBuf \/ Readahead
  BY <1>6, ElsewhereKeeps DEF DBuf, Readahead
<1>7. CASE Sendfile \/ SendRead \/ SendWrite
  BY <1>7, ElsewhereKeeps DEF Sendfile, SendRead, SendWrite
<1> QED BY <1>1, <1>2, <1>3, <1>4, <1>5, <1>6, <1>7

LEMMA LeavingSteps ==
  ASSUME IInv, DirInv,
         \/ Cancel \/ ReadError \/ CheckCancelled \/ Post \/ SendfileSyncReturn \/ Finish
         \/ Destroy \/ UNCHANGED vars
  PROVE  DirInv'
<1> USE DEF Idle, locals, Elsewhere, Early, memory
<1>1. CASE Cancel
  BY <1>1, IdleKeeps DEF Cancel, Read, DirInv, OwnNames
<1>2. CASE ReadError \/ CheckCancelled
  <2>1. result = -1 /\ result' = result /\ Idle /\ pc' \in {"executed", "read"}
        /\ pc \in {"read", "added"} /\ (pc' = "read" => pc = "added")
    BY <1>2 DEF ReadError, CheckCancelled, IInv, Scanning
  <2>2. ~Read'
    BY <2>1 DEF Read
  <2> QED BY <2>1, <2>2, IdleKeeps
<1>3. CASE Post
  BY <1>3, IdleKeeps DEF Post, Read, DirInv, OwnNames
<1>4. CASE SendfileSyncReturn \/ Finish
  BY <1>4, IdleKeeps DEF SendfileSyncReturn, Finish, Read
<1>5. CASE Destroy
  BY <1>5, IdleKeeps DEF Destroy, Free, Read
<1>6. CASE UNCHANGED vars
  BY <1>6, IdleKeeps DEF vars, scanvars, Read, DirInv, OwnNames
<1> QED BY <1>1, <1>2, <1>3, <1>4, <1>5, <1>6

(* Before the first entry. *)
LEMMA OpenStep ==
  ASSUME DirInv, Open
  PROVE  DirInv'
<1>1. /\ dir = << >> /\ dents = << >> /\ namesoffs = 0 /\ dentoffs = 0 /\ inode_bits = {}
      /\ pc' \in {"read", "executed"} /\ result' = -1
      /\ UNCHANGED <<sortvars, dir, locals>> /\ flags' = Effective(flags)
  BY DEF Open, DirInv, Unread, Early
<1>2. /\ UNCHANGED <<dents, size, bits, stk, base, end, bit, a, b, i, spc>>
      /\ UNCHANGED <<namesoffs, dentoffs, inode_bits>>
  BY <1>1 DEF sortvars, radix, locals
<1>3. flags' \subseteq {"DENTS", "DIRS_FIRST", "STAT_ORDER", "FOUND_UNKNOWN"}
  BY <1>1 DEF Effective, DirInv, Plain
<1>4. Plain'
  BY <1>1, <1>2, <1>3 DEF DirInv, Plain
<1>5. Len(dir') = 0 /\ Len(dents') = 0 /\ dents' = << >> /\ dir' = << >> /\ 1..0 = {}
  BY <1>1, <1>2
<1>6. Scored'
  BY <1>5 DEF Scored
<1>7. Collected'
  <2>1. Listed' = {} /\ Told' = {}
    BY <1>5 DEF Listed, Told
  <2>2. ToTell' = {}
    BY <2>1 DEF ToTell
  <2>3. Offset'[0] = 0
    BY OffsetIsNext, SumsAre
  <2> QED BY <1>1, <1>2, <1>5, <2>1, <2>2, <2>3, FS_EmptySet DEF Collected
<1>8. ~Read'
  BY <1>1 DEF Read
<1>9. Quiet'
  BY <1>1, <1>2 DEF Open, DirInv, Quiet
<1> QED BY <1>1, <1>4, <1>6, <1>7, <1>8, <1>9
       DEF DirInv, Unread, Early, Reading, Arranging, Arranged, OwnNames, Elsewhere

LEMMA ReadEntryStep ==
  ASSUME IInv, Room, DirInv, ReadEntry
  PROVE  DirInv'
<1>1. PICK e \in Entries :
        /\ dir' = Append(dir, e)
        /\ \/ pc' = "added" /\ Adds(e)
           \/ pc' \in {"executed", "crashed"}
              /\ UNCHANGED <<dents, flags, namesoffs, dentoffs, inode_bits>>
  BY DEF ReadEntry, Adds, locals
<1>2. /\ Len(dir) < MaxEntries /\ pc = "read" /\ result' = result
      /\ UNCHANGED <<size, bits, stk, base, end, bit, a, b, i, spc>>
  BY DEF ReadEntry, radix
<1>3. result = -1 /\ Collected /\ Scored /\ Plain
  BY <1>2 DEF IInv, Scanning, DirInv, Reading
<1>4. ~Read'
  BY <1>2, <1>3 DEF Read
<1>5. namesoffs \in Nat /\ dentoffs \in Nat
  BY DEF Room
<1>6. Quiet'
  BY <1>2 DEF DirInv, Quiet
<1>7. CASE pc' = "added" /\ Adds(e)
  <2>1. /\ Collected' /\ dents' \in Seq(Entry) /\ dir' \in Seq(Entries) /\ Len(dir') <= MaxEntries
    BY <1>2, <1>3, <1>5, <1>7, CollectedGrows DEF Plain
  <2>2. /\ Scored' /\ inode_bits' \subseteq 0..InodeBits-1
        /\ flags' \subseteq {"DENTS", "DIRS_FIRST", "STAT_ORDER", "FOUND_UNKNOWN"}
    BY <1>3, <1>5, <1>7, ScoredGrows DEF Plain
  <2>3. Plain'
    BY <1>2, <1>3, <2>1, <2>2 DEF Plain
  <2> QED BY <1>4, <1>6, <1>7, <2>1, <2>2, <2>3
          DEF DirInv, Unread, Early, Reading, Arranging, Arranged, OwnNames, Elsewhere
<1>8. CASE /\ pc' \in {"executed", "crashed"}
           /\ UNCHANGED <<dents, flags, namesoffs, dentoffs, inode_bits>>
  <2>1. dir' \in Seq(Entries) /\ Len(dir') <= MaxEntries
    <3>1. dir \in Seq(Entries) /\ MaxEntries \in Nat
      BY <1>3, ScandirAssumption DEF Plain
    <3> QED BY <1>1, <1>2, <3>1
  <2>2. Plain'
    BY <1>2, <1>3, <1>8, <2>1 DEF Plain
  <2> QED BY <1>4, <1>6, <1>8, <2>2
          DEF DirInv, Unread, Early, Reading, Arranging, Arranged, OwnNames, Elsewhere
<1> QED BY <1>1, <1>7, <1>8

(* The end of the directory. *)
LEMMA SortBegins ==
  ASSUME DirInv, Collected, Scored, flags # {},
         NEW n \in 0..Len(dents), NEW score_bits \in SUBSET AllScores,
         \/ \A j, k \in 1..n : dents[j].score = dents[k].score
         \/ score_bits = AllScores,
         Sort(n, score_bits, inode_bits),
         UNCHANGED <<dents, a, b, dir, flags, locals>>,
         pc' = "sorting", result' = dentoffs,
         \/ ByScore /\ n = Len(dents)
         \/ ByType /\ \A j \in 1..Len(dents) : dents[j].type = "dir" <=> j <= n
  PROVE  DirInv'
<1>1. /\ dents \in Seq(Entry) /\ {base, end, bit, a, b, i} \subseteq Nat
      /\ inode_bits \subseteq 0..InodeBits-1
  BY DEF DirInv, Plain
<1>2. \A j \in 1..n, k \in 0..InodeBits-1 : BitSet(dents[j].inode, k) => k \in inode_bits
  <2>1. \A j \in 1..n : j \in 1..Len(dents)
    BY <1>1
  <2> QED BY <2>1 DEF Scored
<1>3. SortInv' /\ size' = n
  BY <1>1, <1>2, SortStarts
<1>4. UNCHANGED <<dents, dir, flags, namesoffs, dentoffs, inode_bits>>
  BY DEF locals
<1>5. Collected' /\ Scored'
  BY <1>4, UnmovedKeeps
<1>6. Ordering'
  BY <1>3, <1>4 DEF Ordering, ByScore, ByType
<1>7. Plain'
  BY <1>3, <1>4 DEF DirInv, Plain, SortInv, SortTypes
<1>8. ~Read'
  BY DEF Read
<1> QED BY <1>4, <1>5, <1>6, <1>7, <1>8
       DEF DirInv, Unread, Early, Reading, Arranging, Arranged, OwnNames, Elsewhere, Quiet

LEMMA ReadEndStep ==
  ASSUME DirInv, Room, ReadEnd
  PROVE  DirInv'
<1>1. /\ Collected /\ Scored /\ pc = "read" /\ result' = dentoffs
      /\ UNCHANGED <<dents, dir, flags, memory, locals>>
      /\ dents \in Seq(Entry) /\ Len(dents) \in Nat
  BY DEF DirInv, Reading, ReadEnd, Plain
<1>2. flags # {} => Len(dents) = dentoffs /\ dentoffs \in 0..Len(dents)
  BY <1>1 DEF Collected
<1>3. {} \in SUBSET AllScores /\ AllScores \in SUBSET AllScores
  OBVIOUS
<1>4. CASE /\ "STAT_ORDER" \in flags
           /\ Sort(dentoffs, IF "DIRS_FIRST" \in flags THEN AllScores ELSE {}, inode_bits)
           /\ pc' = "sorting" /\ UNCHANGED <<a, b>>
  <2>1. ByScore /\ flags # {}
    BY <1>4 DEF ByScore
  <2>2. CASE "DIRS_FIRST" \in flags
    <3>1. Sort(dentoffs, AllScores, inode_bits)
      BY <1>4, <2>2
    <3> QED BY <1>1, <1>2, <1>3, <1>4, <2>1, <3>1, SortBegins
  <2>3. CASE "DIRS_FIRST" \notin flags
    <3>1. Sort(dentoffs, {}, inode_bits)
      BY <1>4, <2>3
    <3>2. \A j, k \in 1..dentoffs : dents[j].score = dents[k].score
      BY <1>1, <1>2, <2>1, <2>3 DEF Scored
    <3> QED BY <1>1, <1>2, <1>3, <1>4, <2>1, <3>1, <3>2, SortBegins
  <2> QED BY <2>2, <2>3
<1>5. CASE /\ "STAT_ORDER" \notin flags /\ {"DIRS_FIRST", "FOUND_UNKNOWN"} \subseteq flags
           /\ Sort(dentoffs, AllScores, inode_bits)
           /\ pc' = "sorting" /\ UNCHANGED <<a, b>>
  <2>1. ByScore /\ flags # {}
    BY <1>5 DEF ByScore
  <2> QED BY <1>1, <1>2, <1>3, <1>5, <2>1, SortBegins
<1>6. CASE /\ "STAT_ORDER" \notin flags /\ "DIRS_FIRST" \in flags
           /\ "FOUND_UNKNOWN" \notin flags
           /\ a' = 1 /\ b' = dentoffs + 1
           /\ pc' = "dirs" /\ UNCHANGED <<size, radix, i, spc>>
  <2>1. ByType /\ flags # {}
    BY <1>6 DEF ByType, ByScore
  <2>2. /\ UNCHANGED <<dents, dir, flags, namesoffs, dentoffs, inode_bits>>
        /\ UNCHANGED <<size, bits, stk, base, end, bit, i, spc>>
    BY <1>1, <1>6 DEF locals, radix
  <2>3. a' = 1 /\ b' = Len(dents) + 1 /\ a' \in Nat /\ b' \in Nat
    BY <1>1, <1>2, <1>6, <2>1
  <2>4. Splitting'
    <3>1. \A j \in 1..1-1 : FALSE
      OBVIOUS
    <3>2. \A j \in Len(dents)+1..Len(dents) : FALSE
      BY <1>1
    <3> QED BY <1>1, <2>1, <2>2, <2>3, <3>1, <3>2 DEF Splitting, ByType, ByScore
  <2>5. Collected' /\ Scored'
    BY <1>1, <2>2, UnmovedKeeps
  <2>6. Plain'
    BY <2>2, <2>3 DEF DirInv, Plain
  <2>7. ~Read'
    BY <1>6 DEF Read
  <2> QED BY <1>1, <1>6, <2>2, <2>4, <2>5, <2>6, <2>7
          DEF DirInv, Unread, Early, Reading, Arranging, Arranged, OwnNames, Elsewhere, Quiet
<1>7. CASE /\ {"STAT_ORDER", "DIRS_FIRST"} \intersect flags = {}
           /\ pc' = "executed" /\ UNCHANGED <<size, radix, a, b, i, spc>>
  <2>1. /\ UNCHANGED <<dents, dir, flags, namesoffs, dentoffs, inode_bits>>
        /\ UNCHANGED <<size, bits, stk, base, end, bit, a, b, i, spc>>
    BY <1>1, <1>7 DEF locals, radix
  <2>2. Collected'
    BY <1>1, <2>1, UnmovedKeeps
  <2>3. DirsFirst' /\ StatOrder'
    BY <1>7, <2>1 DEF DirsFirst, StatOrder
  <2>4. Plain'
    BY <2>1 DEF DirInv, Plain
  <2> QED BY <1>1, <1>7, <2>1, <2>2, <2>3, <2>4
          DEF DirInv, Unread, Early, Reading, Arranging, Arranged, OwnNames, Elsewhere, Quiet
<1> QED BY <1>4, <1>5, <1>6, <1>7 DEF ReadEnd

(* Directories go to the front, and are sorted. *)
LEMMA SplitDirsKeeps ==
  ASSUME DirInv, SplitDirs
  PROVE  DirInv'
<1>1. /\ Collected /\ Scored /\ Splitting /\ result = dentoffs /\ pc = "dirs" /\ pc' = "dirs"
      /\ Plain /\ dents \in Seq(Entry) /\ a \in Nat /\ b \in Nat
      /\ UNCHANGED <<size, bits, stk, base, end, bit, i, spc, result, dir, flags>>
      /\ UNCHANGED <<namesoffs, dentoffs, inode_bits>>
  BY DEF DirInv, Plain, Arranging, SplitDirs, radix, locals
<1>2. /\ Splitting' /\ Permuted(dents, dents', 1, Len(dents) + 1)
      /\ a' \in Nat /\ b' \in Nat
  BY <1>1, SplitDirsStep
<1>3. Collected' /\ Scored'
  BY <1>1, <1>2, MovedKeeps
<1>4. Plain'
  BY <1>1, <1>2 DEF Plain, Permuted
<1>5. ~Read'
  BY <1>1 DEF Read
<1> QED BY <1>1, <1>2, <1>3, <1>4, <1>5
       DEF DirInv, Unread, Early, Reading, Arranging, Arranged, OwnNames, Elsewhere, Quiet

LEMMA SortDirsStep ==
  ASSUME DirInv, SortDirs
  PROVE  DirInv'
<1>1. /\ Collected /\ Scored /\ Splitting /\ result = dentoffs /\ pc = "dirs"
      /\ dents \in Seq(Entry) /\ Len(dents) \in Nat /\ a \in Nat /\ b \in Nat
  BY DEF DirInv, Plain, Arranging, SortDirs
<1> DEFINE n == a - 1
<1>2. /\ 1 <= a /\ a = b /\ b <= Len(dents) + 1 /\ n \in 0..Len(dents)
  BY <1>1 DEF Splitting, SortDirs
<1>3. \A j \in 1..Len(dents) : dents[j].type = "dir" <=> j <= n
  <2> SUFFICES ASSUME NEW j \in 1..Len(dents) PROVE dents[j].type = "dir" <=> j <= n
    OBVIOUS
  <2>1. CASE j <= n
    <3>1. j \in 1..a-1
      BY <1>1, <1>2, <2>1
    <3> QED BY <1>1, <2>1, <3>1 DEF Splitting
  <2>2. CASE ~(j <= n)
    <3>1. j \in b..Len(dents)
      BY <1>1, <1>2, <2>2
    <3> QED BY <1>1, <2>2, <3>1 DEF Splitting
  <2> QED BY <2>1, <2>2
<1>4. \A j, k \in 1..n : dents[j].score = dents[k].score
  <2>1. \A j \in 1..n : j \in 1..Len(dents) /\ j <= n
    BY <1>1, <1>2
  <2>2. \A j \in 1..n : dents[j].score = 0
    BY <1>1, <1>3, <2>1 DEF Scored, Splitting, ByType
  <2> QED BY <2>2
<1>5. /\ Sort(n, {}, inode_bits) /\ pc' = "sorting" /\ result' = dentoffs
      /\ UNCHANGED <<dents, a, b, dir, flags, locals>> /\ flags # {} /\ ByType
  BY <1>1 DEF SortDirs, DirsSplit, Splitting, ByType
<1>6. {} \in SUBSET AllScores
  OBVIOUS
<1> HIDE DEF n
<1> QED BY <1>1, <1>2, <1>3, <1>4, <1>5, <1>6, SortBegins

(* What the sort leaves is in the order asked for.                         *)
InFront == "DIRS_FIRST" \in flags =>
  \A j, k \in 1..Len(dents) : j < k /\ dents[k].type = "dir" => dents[j].type = "dir"

InOrder == \A j, k \in 1..Len(dents) :
  j < k /\ (ByScore \/ ("DIRS_FIRST" \in flags /\ dents[k].type = "dir"))
    => ~Less(dents[k], dents[j])

LEMMA SortedArranged ==
  ASSUME Plain, Scored, Ordering, spc = "sorted"
  PROVE  InFront /\ InOrder
<1>1. dents \in Seq(Entry) /\ Len(dents) \in Nat /\ Sorted(dents, size) /\ size \in 0..Len(dents)
  BY DEF Plain, Ordering, SortInv, SortTypes, Array, Inserting
<1>2. CASE ByScore /\ size = Len(dents)
  <2>1. \A j, k \in 1..Len(dents) : j < k => ~Less(dents[k], dents[j])
    BY <1>1, <1>2 DEF Sorted
  <2>2. InOrder
    BY <2>1 DEF InOrder
  <2>3. InFront
    <3> SUFFICES ASSUME "DIRS_FIRST" \in flags, NEW j \in 1..Len(dents), NEW k \in 1..Len(dents),
                        j < k, dents[k].type = "dir"
                 PROVE  dents[j].type = "dir"
      BY DEF InFront
    <3>1. dents[k].score = 0 /\ dents[j].score \in Nat
      BY <1>1, EntryFacts DEF Scored
    <3>2. ~(dents[k].score < dents[j].score)
      BY <2>1 DEF Less
    <3>3. dents[j].score = 0
      BY <3>1, <3>2
    <3> QED BY <3>3 DEF Scored
  <2> QED BY <2>2, <2>3
<1>3. CASE ByType /\ \A j \in 1..Len(dents) : dents[j].type = "dir" <=> j <= size
  <2>1. ASSUME NEW j \in 1..Len(dents), NEW k \in 1..Len(dents), j < k, dents[k].type = "dir"
        PROVE  dents[j].type = "dir" /\ ~Less(dents[k], dents[j])
    <3>1. k <= size
      BY <1>3, <2>1
    <3>2. j \in 1..size /\ k \in 1..size
      BY <1>1, <2>1, <3>1
    <3> QED BY <1>1, <1>3, <2>1, <3>2 DEF Sorted
  <2> QED BY <1>3, <2>1 DEF ByType, InFront, InOrder
<1> QED BY <1>2, <1>3 DEF Ordering

LEMMA SortingStep ==
  ASSUME DirInv, Room, Sorting
  PROVE  DirInv'
<1>1. /\ Collected /\ Scored /\ Ordering /\ result = dentoffs /\ pc = "sorting" /\ Plain
      /\ UNCHANGED <<dir, flags, result, memory, namesoffs, dentoffs, inode_bits>>
  BY DEF DirInv, Arranging, Sorting, locals
<1>2. CASE SortNext /\ UNCHANGED pc
  <2>1. SortInv' /\ size' = size /\ Permuted(dents, dents', 1, size + 1)
    BY <1>1, <1>2, SortNextInv DEF Ordering, SortStep
  <2>2. /\ dents \in Seq(Entry) /\ size \in 0..Len(dents) /\ Len(dents) \in Nat
        /\ size \in Nat /\ 1 \in Nat /\ size + 1 \in Nat /\ size + 1 <= size + 1
    BY <1>1 DEF Ordering, SortInv, SortTypes, Array
  <2>3. Permuted(dents, dents', 1, Len(dents) + 1)
    <3> DEFINE n == Len(dents)
               h == size + 1
    <3>1. n \in 0..Len(dents) /\ h <= n + 1 /\ h \in Nat /\ 1 <= 1
      BY <2>2
    <3> HIDE DEF n, h
    <3>2. Permuted(dents, dents', 1, h)
      BY <2>1 DEF h
    <3>3. Permuted(dents, dents', 1, n + 1)
      BY <2>2, <3>1, <3>2, PermutedWider
    <3> QED BY <3>3 DEF n
  <2>4. Collected' /\ Scored'
    BY <1>1, <2>2, <2>3, MovedKeeps
  <2>5. Len(dents') = Len(dents) /\ dents' \in Seq(Entry)
    BY <2>1 DEF Permuted
  <2>6. Ordering'
    <3>1. CASE ByScore /\ size = Len(dents)
      BY <1>1, <2>1, <2>5, <3>1 DEF Ordering, ByScore
    <3>2. CASE ByType /\ \A j \in 1..Len(dents) : dents[j].type = "dir" <=> j <= size
      <4>1. ASSUME NEW j \in 1..Len(dents) PROVE dents'[j].type = "dir" <=> j <= size
        <5>1. (size + 1) - 1 = size
          BY <2>2
        <5>2. CASE j <= size
          <6>1. j \in 1..size
            BY <2>2, <5>2
          <6>2. PICK k \in 1..size : dents'[j] = dents[k]
            BY <2>1, <5>1, <6>1 DEF Permuted
          <6>3. k \in 1..Len(dents) /\ k <= size
            BY <2>2, <6>2
          <6> QED BY <3>2, <5>2, <6>2, <6>3
        <5>3. CASE ~(j <= size)
          <6>1. j \notin 1..size
            BY <5>3
          <6>2. dents'[j] = dents[j]
            BY <2>1, <5>1, <6>1 DEF Permuted
          <6> QED BY <3>2, <5>3, <6>2
        <5> QED BY <5>2, <5>3
      <4> QED BY <1>1, <2>1, <2>5, <3>2, <4>1 DEF Ordering, ByType, ByScore
    <3> QED BY <1>1, <3>1, <3>2 DEF Ordering
  <2>7. Plain'
    BY <1>1, <2>1, <2>5 DEF Plain, SortInv, SortTypes
  <2>8. ~Read'
    BY <1>1, <1>2 DEF Read
  <2> QED BY <1>1, <1>2, <2>4, <2>6, <2>7, <2>8
          DEF DirInv, Unread, Early, Reading, Arranging, Arranged, OwnNames, Elsewhere, Quiet
<1>3. CASE spc = "sorted" /\ pc' = "executed" /\ UNCHANGED sortvars
  <2>1. UNCHANGED <<dents, size, bits, stk, base, end, bit, a, b, i, spc>>
    BY <1>3 DEF sortvars, radix
  <2>2. Collected'
    BY <1>1, <2>1, UnmovedKeeps
  <2>3. InFront /\ InOrder
    BY <1>1, <1>3, SortedArranged
  <2>4. InFront' /\ InOrder'
    <3>1. dents' = dents /\ flags' = flags
      BY <1>1, <2>1
    <3>2. InFront' <=> InFront
      BY <3>1 DEF InFront
    <3>3. InOrder' <=> InOrder
      BY <3>1 DEF InOrder, ByScore
    <3> QED BY <2>3, <3>2, <3>3
  <2>5. DirsFirst' /\ StatOrder'
    BY <2>4 DEF InFront, InOrder, ByScore, DirsFirst, StatOrder
  <2> QED BY <1>1, <1>3, <2>1, <2>2, <2>5
          DEF DirInv, Plain, Unread, Early, Reading, Arranging, Arranged, OwnNames, Elsewhere, Quiet
<1> QED BY <1>2, <1>3 DEF Sorting

LEMMA ForkChildStep ==
  ASSUME DirInv, ForkChild
  PROVE  DirInv'
<1>1. /\ pc' = "child" /\ dir' = << >> /\ dents' = << >> /\ inode_bits' = {} /\ spc' = "none"
      /\ size' = 0 /\ bits' = {} /\ base' = 0 /\ end' = 0 /\ bit' = 0
      /\ a' = 0 /\ b' = 0 /\ i' = 0 /\ flags' = flags
  BY DEF ForkChild
<1>2. Len(dir') <= MaxEntries
  BY <1>1, ScandirAssumption
<1>3. Plain'
  BY <1>1, <1>2 DEF DirInv, Plain, SortPc
<1>4. ~Read'
  BY <1>1 DEF Read
<1> QED BY <1>1, <1>3, <1>4
       DEF DirInv, Unread, Early, Reading, Arranging, Arranged, OwnNames, Elsewhere, Quiet

LEMMA InitDir == Init => DirInv
<1> SUFFICES ASSUME Init PROVE DirInv
  OBVIOUS
<1>1. /\ pc = "new" /\ dir = << >> /\ dents = << >> /\ inode_bits = {} /\ spc = "none"
      /\ size = 0 /\ bits = {} /\ base = 0 /\ end = 0 /\ bit = 0
      /\ a = 0 /\ b = 0 /\ i = 0 /\ namesoffs = 0 /\ dentoffs = 0 /\ ptr2 = Null
  BY DEF Init, ScandirInit, SortInit
<1>2. flags \subseteq {"DENTS", "DIRS_FIRST", "STAT_ORDER", "FOUND_UNKNOWN"}
  BY ScandirAssumption DEF Init
<1>3. Len(dir) <= MaxEntries
  BY <1>1, ScandirAssumption
<1>4. Plain
  BY <1>1, <1>2, <1>3 DEF Plain, SortPc
<1>5. ~Read
  BY <1>1 DEF Read
<1> QED BY <1>1, <1>4, <1>5, NotNames
       DEF DirInv, Unread, Early, Reading, Arranging, Arranged, OwnNames, Elsewhere, Quiet

LEMMA StepDir ==
  ASSUME IInv, Room, DirInv, [Next]_vars
  PROVE  DirInv'
<1>1. CASE \/ Make \/ Refuse \/ SendfileSync \/ Begin \/ AllocFlag \/ AllocMemory \/ AllocStore
           \/ Call \/ CallOnArea \/ Mtouch \/ DBuf \/ Readahead \/ Sendfile \/ SendRead \/ SendWrite
  BY <1>1, IdleSteps
<1>2. CASE \/ Cancel \/ ReadError \/ CheckCancelled \/ Post \/ SendfileSyncReturn \/ Finish
           \/ Destroy \/ UNCHANGED vars
  BY <1>2, LeavingSteps
<1>3. CASE Open \/ ReadEntry \/ ReadEnd
  BY <1>3, OpenStep, ReadEntryStep, ReadEndStep
<1>4. CASE SplitDirs \/ SortDirs \/ Sorting
  BY <1>4, SplitDirsKeeps, SortDirsStep, SortingStep
<1>5. CASE ForkChild
  BY <1>5, ForkChildStep
<1> QED BY <1>1, <1>2, <1>3, <1>4, <1>5 DEF Next, WorkerNext, Scandir, ScandirNext

(* The invariant behind the theorems below, of every request. *)
THEOREM DirInvariance == Spec => [](IInv /\ Room /\ DirInv)
<1>1. Init => IInv /\ Room /\ DirInv
  BY InitInv, InitDir, Pointers DEF Init, ScandirInit, Room
<1>2. IInv /\ Room /\ DirInv /\ [Next]_vars => (IInv /\ Room /\ DirInv)'
  BY StepInv, RoomInv, StepDir
<1> QED BY <1>1, <1>2, PTL DEF Spec

(* The inner loop of the insertion sort, which checks no bounds, always    *)
(* stops within the array: for every directory, width of inodes, cutoff    *)
(* and size from which the radix pass runs.                                *)
THEOREM InsertionStopsAlways == Spec => []InsertionStops
<1>1. DirInv => InsertionStops
  <2> SUFFICES ASSUME DirInv, spc = "insert", i <= size PROVE Stops # {}
    BY DEF InsertionStops
  <2>1. SortInv
    BY DEF DirInv, Quiet, Arranging, Ordering
  <2>2. 1 \in Stops
    BY <2>1, LoopStops
  <2> QED BY <2>2
<1> QED BY DirInvariance, <1>1, PTL

(* EIO_READDIR_STAT_ORDER gets entries by score and inode, and directories *)
(* are by inode where only they are sorted, whatever the directory.        *)
THEOREM StatOrderKept == Spec => []StatOrder
<1>1. DirInv => StatOrder
  BY DEF DirInv, Arranged, StatOrder
<1> QED BY DirInvariance, <1>1, PTL

(* EIO_READDIR_DIRS_FIRST puts nothing before a known directory, whether   *)
(* all types are known or not.                                             *)
THEOREM DirsFirstKept == Spec => []DirsFirst
<1>1. DirInv => DirsFirst
  BY DEF DirInv, Arranged, DirsFirst
<1> QED BY DirInvariance, <1>1, PTL

(* Every entry but . and .. is reported once, with the offset of its name, *)
(* its type and inode, however the list was sorted.                        *)
THEOREM EverythingKept == Spec => []Everything
<1>1. DirInv => Everything
  <2> SUFFICES ASSUME DirInv, Read PROVE Everything
    BY DEF Everything
  <2>1. Collected /\ result = dentoffs
    BY DEF DirInv, Arranged
  <2>2. {<<d.nameofs, d.type, d.inode>> : d \in {dents[j] : j \in 1..Len(dents)}} = Told
    BY DEF Told, Reported
  <2> QED BY <2>1, <2>2 DEF Everything, Collected, ToTell, Listed
<1> QED BY DirInvariance, <1>1, PTL

-----------------------------------------------------------------------------
(* The types of the other variables: what is left of a transfer is never   *)
(* below 0, however it ends.                                               *)
Amounts == arg \in Nat \X Nat /\ {offset, count} \subseteq Nat /\ result \in Int

LEMMA InitAmounts == Init => Amounts
<1> SUFFICES ASSUME Init PROVE Amounts
  OBVIOUS
<1>1. arg \in Nat \X Nat
  BY ExecuteAssumption DEF Init, Args
<1> QED BY <1>1 DEF Init, Amounts

LEMMA StepAmounts ==
  ASSUME IInv, Room, Progress, Progress', Amounts, [Next]_vars
  PROVE  Amounts'
<1> USE DEF Amounts, transfer
<1>1. CASE \/ Make \/ Refuse \/ SendfileSync \/ Cancel \/ Begin
           \/ AllocFlag \/ AllocMemory \/ AllocStore
  BY <1>1 DEF Make, Refuse, SendfileSync, Cancel, Begin, AllocFlag, AllocMemory, AllocStore
<1>2. CASE Call \/ CallOnArea \/ Mtouch \/ DBuf
  BY <1>2 DEF Call, CallOnArea, Mtouch, DBuf
<1>3. CASE Readahead
  <2>1. arg' = arg /\ (result' = result \/ result' = arg[2])
    BY <1>3 DEF Readahead
  <2>2. UNCHANGED <<offset, count>> \/ Under'
    BY <1>3 DEF Readahead, Progress, Sends, Runs
  <2> QED BY <2>1, <2>2 DEF Under
<1>4. CASE Sendfile
  <2>1. \A n \in Transferred(count) : n \in Int
    BY DEF Transferred
  <2> QED BY <1>4, <2>1 DEF Sendfile
<1>5. CASE SendRead
  BY <1>5 DEF SendRead, Broken
<1>6. CASE SendWrite
  <2>1. CASE pc' = "copy"
    <3>1. Runs("sendfile")' /\ Under' /\ arg' = arg
      BY <1>6, <2>1 DEF SendWrite, Progress, Sends, Runs
    <3> QED BY <3>1 DEF Under
  <2>2. CASE pc' # "copy"
    BY <1>6, <2>2 DEF SendWrite, Broken
  <2> QED BY <2>1, <2>2
<1>7. CASE Scandir
  <2>1. ScandirNext /\ UNCHANGED <<arg, offset, count>>
    BY <1>7 DEF Scandir
  <2>2. CASE ReadEnd
    BY <2>1, <2>2 DEF Room, ReadEnd
  <2>3. CASE Open
    BY <2>1, <2>3 DEF Open
  <2>4. CASE ReadEntry \/ ReadError \/ CheckCancelled
    BY <2>1, <2>4 DEF ReadEntry, ReadError, CheckCancelled
  <2>5. CASE SplitDirs \/ SortDirs \/ Sorting
    BY <2>1, <2>5 DEF SplitDirs, SortDirs, Sorting
  <2> QED BY <2>1, <2>2, <2>3, <2>4, <2>5 DEF ScandirNext
<1>8. CASE Post \/ SendfileSyncReturn \/ Finish \/ Destroy \/ ForkChild
  BY <1>8 DEF Post, SendfileSyncReturn, Finish, Destroy, ForkChild
<1>9. CASE UNCHANGED vars
  BY <1>9 DEF vars, scanvars
<1> QED BY <1>1, <1>2, <1>3, <1>4, <1>5, <1>6, <1>7, <1>8, <1>9 DEF Next, WorkerNext

(* The variables of the library's emulations and of the sort have their    *)
(* types in every reachable state.                                         *)
THEOREM TypeCorrect == Spec => []TypeOK
<1> DEFINE All == IInv /\ Room /\ DirInv /\ Progress /\ Amounts
<1>1. Init => All
  BY InitInv, InitDir, InitProgress, InitAmounts, Pointers DEF Init, ScandirInit, Room
<1>2. All /\ [Next]_vars => All'
  BY StepInv, RoomInv, StepDir, StepProgress, StepAmounts
<1>3. All => TypeOK
  <2> SUFFICES ASSUME All PROVE TypeOK
    OBVIOUS
  <2>1. pc \in {"new", "queued", "execute", "alloc", "alloced", "call", "emulate", "copy",
                "write", "executed", "posted", "finishing"} \union ScandirPc \union Over
    BY DEF IInv, Phases, OfRequest, OfTransfer, NoRequest, Over
  <2>2. ScandirTypeOK
    BY DEF DirInv, Plain, ScandirTypeOK, Room, IInv, Typed, Top
  <2>3. {offset, count} \subseteq Nat /\ result \in Int
    BY DEF Amounts
  <2>4. ptr1 \in {Null, Path} \/ ptr1 \in {"dents"} \X Nat
    BY DEF IInv, Typed, Room, IsBlock, Block
  <2>5. ptr2 \in {Null, NewPath, Buffer, Caller} \/ ptr2 \in {"names"} \X Nat
    BY DEF IInv, Typed, Room, IsBlock, Block
  <2> QED BY <2>1, <2>2, <2>3, <2>4, <2>5 DEF TypeOK, IInv, Typed
<1> HIDE DEF All
<1>4. Spec => []All
  BY <1>1, <1>2, PTL DEF Spec
<1> QED BY <1>3, <1>4, PTL

=============================================================================
