----------------------------- MODULE EioScandir -----------------------------
(***************************************************************************)
(* eio__scandir of ext/libeio/eio.c, as a worker runs it: it collects the  *)
(* entries of a directory in memory that grows, scores and sorts them.     *)
(* What hangs on the request and the worker (ptr1, ptr2, dirp) is shared   *)
(* with the child of a fork, which starts while wrklock is held by nobody  *)
(* else.  How the request comes here and where it goes is in EioExecute.   *)
(***************************************************************************)
EXTENDS DentSort

CONSTANTS
  Entries,       \* what may be in a directory, as readdir returns it
  MaxEntries,    \* how many of them at most: a bound of the model
  FlagSets,      \* the flags a client may ask for
  DentAlloc0,    \* the first dentalloc, 128 in the code
  NamesAlloc0,   \* the first namesalloc, 4096 in the code
  Failing        \* what may fail: memory, or a system call

(* An entry is of a kind (its name starts with a dot, or holds one, or     *)
(* does not; or it is . or ..), has a name of len bytes with the final 0,  *)
(* a type and an inode, which is never 0 where readdir returns it.         *)
ASSUME ScandirAssumption ==
  /\ Entries \subseteq [kind : {"self", "hidden", "dotted", "plain"}, len : 2..256,
                        type : {"dir", "unknown", "other"}, inode : 1..Shifted[InodeBits] - 1]
  /\ MaxEntries \in Nat
  /\ FlagSets \subseteq SUBSET {"DENTS", "DIRS_FIRST", "STAT_ORDER"}
  /\ DentAlloc0 \in Nat \ {0} /\ NamesAlloc0 \in Nat \ {0}
  /\ Failing \subseteq {"opendir", "readdir", "malloc", "realloc", "call"}

VARIABLES
  pc,               \* how far the request and its worker are
  dir,              \* the entries readdir has returned, in its order
  flags,            \* req->int1, then the local of that name
  result,           \* req->result
  ptr1, ptr2,       \* req->ptr1, req->ptr2: a block of memory, or Null
  free1, free2,     \* EIO_FLAG_PTR1_FREE, EIO_FLAG_PTR2_FREE
  namesoffs, dentoffs, inode_bits,
  opened,           \* self->dirp is set
  heap,             \* the blocks allocated for this request
  cancelled         \* EIO_FLAG_CANCELLED

memory == <<ptr1, ptr2, free1, free2, heap>>
locals == <<namesoffs, dentoffs, inode_bits>>
scanvars == <<sortvars, pc, dir, flags, result, memory, locals, opened, cancelled>>

(* A block is known by what it is for and by its size: one that realloc    *)
(* has moved is another one.                                               *)
Block(what, n) == <<what, n>>
Null == Block("null", 0)
Path == Block("path", 0)

(* What the locals of eio__scandir are before it is called. *)
ScandirInit ==
  /\ SortInit /\ dents = << >>
  /\ dir = << >>
  /\ namesoffs = 0 /\ dentoffs = 0 /\ inode_bits = {}

-----------------------------------------------------------------------------
(* The flags that sort have no meaning without EIO_READDIR_DENTS.          *)
Effective(f) == IF "DENTS" \in f THEN f ELSE f \ {"DIRS_FIRST", "STAT_ORDER"}

(* The critical section of wrklock: opendir, and ptr1 and ptr2 get memory  *)
(* of their own.  The copy of the path that ptr1 pointed to is forgotten.  *)
Open ==
  /\ pc = "scandir"
  /\ flags' = Effective(flags)
  /\ opened' \in {TRUE} \union {f \in {FALSE} : "opendir" \in Failing}
  /\ LET null == {n \in {Null} : "malloc" \in Failing}
     IN  /\ ptr1' \in IF flags' = {} THEN {Null}
                                     ELSE {Block("dents", DentAlloc0)} \union null
         /\ ptr2' \in {Block("names", NamesAlloc0)} \union null
  /\ free1' = TRUE /\ free2' = TRUE
  /\ heap' = heap \union ({ptr1', ptr2'} \ {Null})
  /\ result' = -1
  /\ pc' = IF opened' /\ ptr2' # Null /\ (flags' = {} \/ ptr1' # Null)
             THEN "read" ELSE "executed"
  /\ UNCHANGED <<sortvars, dir, locals, cancelled>>

(* Memory doubles until it is large enough for one name or entry more.     *)
Grown_late(n, need) == IF need <= n + 1 THEN n ELSE 2 * n    \* mutant of Grown
Grown(n, need) == CHOOSE m \in {n * 2^k : k \in 0..9} :
                    need <= m /\ (m = n \/ m \div 2 < need)

(* realloc, under wrklock: the request points to the new block.            *)
Moved_not(p, q) == p                                \* mutant of Moved
Moved(p, q) == q

Score_guess(e) ==                                   \* mutant of Score
  IF "DIRS_FIRST" \in flags /\ e.type = "unknown" THEN 1 ELSE 7
Score(e) ==
  IF "DIRS_FIRST" \notin flags THEN 7
  ELSE CASE e.type = "dir" -> 0
         [] e.type = "other" -> 7
         [] e.type = "unknown" /\ e.kind = "hidden" -> 1
         [] e.type = "unknown" /\ e.kind = "dotted" -> 7
         [] OTHER -> IF e.len <= 2 THEN 4 - e.len
                     ELSE IF e.len <= 4 THEN 4
                     ELSE IF e.len <= 7 THEN 5 ELSE 6

Dent(e) == [nameofs |-> namesoffs, type |-> e.type, score |-> Score(e), inode |-> e.inode]

(* readdir returns an entry, which is added to the lists. *)
ReadEntry ==
  /\ pc = "read" /\ Len(dir) < MaxEntries
  /\ \E e \in Entries :
     LET names == Block("names", Grown(ptr2[2], namesoffs + e.len))
         room == Block("dents", Grown(ptr1[2], dentoffs + 1))
     IN
      /\ dir' = Append(dir, e)
      /\ \/ /\ e.kind = "self"
            /\ pc' = "added"
            /\ UNCHANGED <<dents, flags, memory, locals>>
         \/ /\ e.kind # "self" /\ flags = {}
            /\ ptr2' = Moved(ptr2, names)
            /\ heap' = (heap \ {ptr2}) \union {names}
            /\ namesoffs' = namesoffs + e.len /\ dentoffs' = dentoffs + 1
            /\ pc' = "added"
            /\ UNCHANGED <<dents, flags, ptr1, free1, free2, inode_bits>>
         \/ /\ e.kind # "self" /\ flags # {}
            /\ ptr2' = Moved(ptr2, names) /\ ptr1' = Moved(ptr1, room)
            /\ heap' = (heap \ {ptr1, ptr2}) \union {names, room}
            /\ dents' = Append(dents, Dent(e))
            /\ inode_bits' = inode_bits \union {k \in 0..InodeBits-1 : BitSet(e.inode, k)}
            /\ flags' = IF e.type = "unknown" THEN flags \union {"FOUND_UNKNOWN"} ELSE flags
            /\ namesoffs' = namesoffs + e.len /\ dentoffs' = dentoffs + 1
            /\ pc' = "added"
            /\ UNCHANGED <<free1, free2>>
         \/ (* realloc of the entries fails: the old block is lost *)
            /\ "realloc" \in Failing
            /\ e.kind # "self" /\ flags # {} /\ dentoffs = ptr1[2]
            /\ ptr2' = names /\ ptr1' = Null
            /\ heap' = (heap \ {ptr2}) \union {names}
            /\ pc' = "executed"
            /\ UNCHANGED <<dents, flags, locals, free1, free2>>
         \/ (* realloc of the names fails: only the loop around it is left,  *)
            (* and the name is copied to address 0                           *)
            /\ "realloc" \in Failing
            /\ e.kind # "self" /\ names # ptr2
            /\ pc' = "crashed"
            /\ UNCHANGED <<dents, flags, memory, locals>>
  /\ UNCHANGED <<size, radix, a, b, i, spc, result, opened, cancelled>>

(* readdir fails. *)
ReadError ==
  /\ pc = "read" /\ "readdir" \in Failing
  /\ pc' = "executed"
  /\ UNCHANGED <<sortvars, dir, flags, result, memory, locals, opened, cancelled>>

(* After each entry, the flag is read without a lock. *)
CheckCancelled ==
  /\ pc = "added"
  /\ pc' = IF cancelled THEN "executed" ELSE "read"
  /\ UNCHANGED <<sortvars, dir, flags, result, memory, locals, opened, cancelled>>

AllScores == 0..ScoreBits-1

(* The end of the directory: what is sorted by what depends on the flags.  *)
ReadEnd ==
  /\ pc = "read"
  /\ result' = dentoffs
  /\ \/ /\ "STAT_ORDER" \in flags
        /\ Sort(dentoffs, IF "DIRS_FIRST" \in flags THEN AllScores ELSE {}, inode_bits)
        /\ pc' = "sorting" /\ UNCHANGED <<a, b>>
     \/ /\ "STAT_ORDER" \notin flags /\ {"DIRS_FIRST", "FOUND_UNKNOWN"} \subseteq flags
        /\ Sort(dentoffs, AllScores, inode_bits)
        /\ pc' = "sorting" /\ UNCHANGED <<a, b>>
     \/ /\ "STAT_ORDER" \notin flags /\ "DIRS_FIRST" \in flags
        /\ "FOUND_UNKNOWN" \notin flags
        /\ a' = 1 /\ b' = dentoffs + 1
        /\ pc' = "dirs" /\ UNCHANGED <<size, radix, i, spc>>
     \/ /\ {"STAT_ORDER", "DIRS_FIRST"} \intersect flags = {}
        /\ pc' = "executed" /\ UNCHANGED <<size, radix, a, b, i, spc>>
  /\ UNCHANGED <<dents, dir, flags, memory, locals, opened, cancelled>>

(* All types are known: directories go to the front, and only they are     *)
(* sorted.                                                                 *)
IsDir == {j \in 1..Len(dents) : dents[j].type = "dir"}

SplitDirs ==
  /\ pc = "dirs" /\ b > a
  /\ SplitRound(IsDir)
  /\ UNCHANGED <<size, radix, i, spc, pc, dir, flags, result, memory, locals,
                 opened, cancelled>>

DirsSplit_short == a - 2                            \* mutant of DirsSplit
DirsSplit == a - 1

SortDirs ==
  /\ pc = "dirs" /\ b <= a
  /\ Sort(DirsSplit, {}, inode_bits)
  /\ pc' = "sorting"
  /\ UNCHANGED <<dents, a, b, dir, flags, result, memory, locals, opened, cancelled>>

Sorting ==
  /\ pc = "sorting"
  /\ \/ SortNext /\ UNCHANGED pc
     \/ spc = "sorted" /\ pc' = "executed" /\ UNCHANGED sortvars
  /\ UNCHANGED <<dir, flags, result, memory, locals, opened, cancelled>>

ScandirNext == \/ Open \/ ReadEntry \/ ReadError \/ ReadEnd \/ CheckCancelled
               \/ SplitDirs \/ SortDirs \/ Sorting

-----------------------------------------------------------------------------
ScandirPc == {"scandir", "read", "added", "dirs", "sorting"}

ScandirTypeOK ==
  /\ spc \in SortPc /\ {size, base, end, bit, a, b, i} \subseteq Nat
  /\ bits \subseteq 1..InodeBits + ScoreBits
  /\ Len(dir) <= MaxEntries
  /\ {namesoffs, dentoffs} \subseteq Nat /\ inode_bits \subseteq 0..InodeBits-1
  /\ flags \subseteq {"DENTS", "DIRS_FIRST", "STAT_ORDER", "FOUND_UNKNOWN"}
  /\ {free1, free2, opened, cancelled} \subseteq BOOLEAN

(* Nothing is written beyond the memory that ptr1 and ptr2 point to, which *)
(* grows while the directory is read.                                      *)
Capacity ==
  /\ ptr2[1] = "names" => namesoffs <= ptr2[2]
  /\ ptr1[1] = "dents" => dentoffs <= ptr1[2]

(* The order eio.h announces, whichever way the request took through the   *)
(* sorts and whatever readdir could tell of the types.                     *)
Read == pc \in {"executed", "posted"} /\ ptr2[1] = "names" /\ result >= 0

(* EIO_READDIR_DIRS_FIRST: nothing precedes what is known to be a directory. *)
DirsFirst ==
  Read /\ "DIRS_FIRST" \in flags =>
    \A j, k \in 1..Len(dents) :
       j < k /\ dents[k].type = "dir" => dents[j].type = "dir"

(* EIO_READDIR_STAT_ORDER: by score and inode; directories by inode also   *)
(* where only they are sorted.                                             *)
StatOrder ==
  Read => \A j, k \in 1..Len(dents) :
     j < k /\ ( \/ "STAT_ORDER" \in flags
                \/ {"DIRS_FIRST", "FOUND_UNKNOWN"} \subseteq flags
                \/ "DIRS_FIRST" \in flags /\ dents[k].type = "dir" )
       => ~Less(dents[k], dents[j])

(* Every entry of the directory but . and .. is reported, once, with the   *)
(* offset of its own name, its own type and inode; result is their number. *)
Offset[k \in 0..MaxEntries] ==
  IF k = 0 THEN 0
  ELSE Offset[k - 1] + IF k > Len(dir) \/ dir[k].kind = "self" THEN 0 ELSE dir[k].len

Everything ==
  Read => LET listed == {k \in 1..Len(dir) : dir[k].kind # "self"}
          IN  /\ result = Cardinality(listed)
              /\ flags # {} =>
                   {<<d.nameofs, d.type, d.inode>> : d \in {dents[j] : j \in 1..Len(dents)}}
                   = {<<Offset[k - 1], dir[k].type, dir[k].inode>> : k \in listed}

=============================================================================
