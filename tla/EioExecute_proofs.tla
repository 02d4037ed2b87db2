--------------------------- MODULE EioExecute_proofs ---------------------------
(***************************************************************************)
(* Proofs about EioExecute, for every request, every length of a file, a   *)
(* buffer, a directory and its names, and every failure: what a fork or    *)
(* the end of a request frees is allocated; nothing else stays behind; and *)
(* the request goes through the stages of EioService.                      *)
(***************************************************************************)
EXTENDS EioExecute, TLAPS

IsBlock(p, what) == p = Block(what, p[2])

Typed ==
  /\ type \in AllWrappers
  /\ ptr1 \in {Null, Path} \/ IsBlock(ptr1, "dents")
  /\ ptr2 \in {Null, NewPath, Buffer, Caller} \/ IsBlock(ptr2, "names")
  /\ dbuf \in {Null, Dbuf} /\ reg \in {Null, Buffer}
  /\ {free1, free2, opened, cancelled} \subseteq BOOLEAN
  /\ Null \notin heap

(* The steps of a request that belongs to a queue, a worker or eio_poll;   *)
(* of a transfer, which eio_sendfile_sync makes without one; and where     *)
(* there is no request yet, or none any more.                              *)
OfRequest == {"queued", "alloc", "alloced", "call", "posted", "finishing", "crashed"}
             \union ScandirPc
OfTransfer == {"execute", "emulate", "copy", "write", "executed"}
NoRequest == {"new", "refused", "returned", "destroyed", "child"}

Phases ==
  /\ pc \in OfRequest \union OfTransfer \union NoRequest
  /\ pc \in OfRequest => ~Synchronous
  /\ pc \in NoRequest => Synchronous /\ ~free1 /\ ~free2
  /\ pc \in OfTransfer /\ Synchronous => Runs("sendfile") /\ ~free1 /\ ~free2
  /\ pc \in ScandirPc => Runs("scandir")
  /\ pc = "new" => ~cancelled

(* eio__scandir replaces the path, which only ptr1 points to, by blocks of *)
(* its own.                                                                *)
Scanning ==
  /\ pc \in {"queued", "scandir"} /\ Runs("scandir") => ptr1 = Path /\ ptr2 = Null
  /\ pc \in {"read", "added"} =>
       /\ free1 /\ free2 /\ result = -1
       /\ IsBlock(ptr2, "names")
       /\ IF flags = {} THEN ptr1 = Null ELSE IsBlock(ptr1, "dents")

(* What a worker holds beyond the request. *)
Holding ==
  /\ dbuf # Null => pc \in {"copy", "write", "executed"}
  /\ reg # Null => pc \in {"alloced", "child"}
  /\ pc = "alloced" => reg \in heap
  /\ pc \in {"alloc", "alloced"} => free2 /\ ptr2 = Null
  /\ opened => /\ Runs("scandir")
               /\ pc \in {"read", "added", "dirs", "sorting", "executed", "crashed"}

After == {"executed", "posted", "finishing"} \union Over

(* All that is allocated has an owner, or is one of the blocks that the    *)
(* code forgets.                                                           *)
Forgotten ==
  {m \in {Path} : Runs("scandir") \/ (pc = "refused" /\ type.paths = 2)}
  \union {m \in {Block("dents", dentoffs)} : result = -1 /\ "realloc" \in Failing /\ pc \in After}

Books ==
  /\ Given \subseteq heap
  /\ heap \subseteq Given \union {Request, dbuf, reg} \union Forgotten
                    \union {m \in {ptr1} : free1} \union {m \in {ptr2} : free2}

IInv == Typed /\ Phases /\ Scanning /\ Holding /\ Owned /\ Books

-----------------------------------------------------------------------------
(* Blocks for different purposes are different blocks. *)
LEMMA Kind == \A what, n : Block(what, n)[1] = what /\ Block(what, n)[2] = n
BY DEF Block

LEMMA BlockKind == ASSUME NEW p, NEW what, IsBlock(p, what) PROVE p[1] = what
<1>1. p = Block(what, p[2])
  BY DEF IsBlock
<1>2. Block(what, p[2])[1] = what
  BY Kind
<1> QED BY <1>1, <1>2

LEMMA AnyBlock == \A what, n : IsBlock(Block(what, n), what)
BY Kind DEF IsBlock

LEMMA Kinds ==
  /\ Null[1] = "null" /\ Request[1] = "request" /\ Path[1] = "path"
  /\ NewPath[1] = "new path" /\ Buffer[1] = "buffer" /\ Dbuf[1] = "dbuf"
  /\ Caller[1] = "caller"
BY Kind DEF Null, Request, Path, NewPath, Buffer, Dbuf, Caller

LEMMA Pointers ==
  /\ \A p : IsBlock(p, "dents") => p \notin {Null, Request, Path, NewPath, Buffer, Dbuf, Caller}
  /\ \A p : IsBlock(p, "names") => p \notin {Null, Request, Path, NewPath, Buffer, Dbuf, Caller}
  /\ \A p, q : IsBlock(p, "dents") /\ IsBlock(q, "names") => p # q
BY BlockKind, Kinds

LEMMA Named ==
  /\ Null \notin {Request, Path, NewPath, Buffer, Dbuf, Caller}
  /\ Request \notin {Path, NewPath, Buffer, Dbuf, Caller}
  /\ Path \notin {NewPath, Buffer, Dbuf, Caller}
  /\ NewPath \notin {Buffer, Dbuf, Caller}
  /\ Buffer \notin {Dbuf, Caller}
  /\ Dbuf # Caller
BY Kinds

(* eio_readdir copies one path and gets no memory from the client. *)
LEMMA ReaddirWrapper ==
  \A t \in AllWrappers : t.runs = "scandir" => t.paths = 1 /\ t.buf = "none"
<1> DEFINE Fits(t) == t.runs = "scandir" => t.paths = 1 /\ t.buf = "none"
<1>1. ASSUME NEW p, NEW m, NEW r, r # "scandir" PROVE Fits(Wrapper(p, m, r))
  BY <1>1 DEF Wrapper
<1>2. Fits(Wrapper(1, "none", "scandir"))
  BY DEF Wrapper
<1> HIDE DEF Fits
<1>3. /\ Fits(eio_nop) /\ Fits(eio_busy) /\ Fits(eio_sync) /\ Fits(eio_fsync)
      /\ Fits(eio_msync) /\ Fits(eio_mtouch) /\ Fits(eio_mlock) /\ Fits(eio_mlockall)
      /\ Fits(eio_sync_file_range) /\ Fits(eio_fdatasync) /\ Fits(eio_close)
      /\ Fits(eio_readahead)
  BY <1>1 DEF eio_nop, eio_busy, eio_sync, eio_fsync, eio_msync, eio_mtouch, eio_mlock,
              eio_mlockall, eio_sync_file_range, eio_fdatasync, eio_close, eio_readahead
<1>4. /\ Fits(eio_read("none")) /\ Fits(eio_read("given")) /\ Fits(eio_write)
      /\ Fits(eio_fstat) /\ Fits(eio_fstatvfs) /\ Fits(eio_futime) /\ Fits(eio_ftruncate)
      /\ Fits(eio_fchmod) /\ Fits(eio_fchown) /\ Fits(eio_dup2) /\ Fits(eio_sendfile)
      /\ Fits(eio_open) /\ Fits(eio_utime)
  BY <1>1 DEF eio_read, eio_write, eio_fstat, eio_fstatvfs, eio_futime, eio_ftruncate,
              eio_fchmod, eio_fchown, eio_dup2, eio_sendfile, eio_open, eio_utime
<1>5. /\ Fits(eio_truncate) /\ Fits(eio_chown) /\ Fits(eio_chmod) /\ Fits(eio_mkdir)
      /\ Fits(eio_readlink) /\ Fits(eio_stat) /\ Fits(eio_lstat) /\ Fits(eio_statvfs)
      /\ Fits(eio_unlink) /\ Fits(eio_rmdir) /\ Fits(eio_mknod) /\ Fits(eio_link)
      /\ Fits(eio_symlink) /\ Fits(eio_rename) /\ Fits(eio_custom)
  BY <1>1 DEF eio_truncate, eio_chown, eio_chmod, eio_mkdir, eio__1path, eio_readlink,
              eio_stat, eio_lstat, eio_statvfs, eio_unlink, eio_rmdir, eio_mknod, eio__2path,
              eio_link, eio_symlink, eio_rename, eio_custom
<1>6. Fits(eio_readdir)
  BY <1>2 DEF eio_readdir
<1>7. \A t \in AllWrappers : Fits(t)
  BY <1>3, <1>4, <1>5, <1>6 DEF AllWrappers
<1> QED BY <1>7 DEF Fits

LEMMA InitInv == Init => IInv
<1> SUFFICES ASSUME Init PROVE IInv
  OBVIOUS
<1>1. Typed
  BY WrappersAssumption, Named DEF Init, Typed, Given
<1>2. Phases /\ Scanning /\ Holding /\ Owned
  BY Named DEF Init, Phases, Scanning, Holding, Owned, Given, Synchronous, OfRequest,
               OfTransfer, NoRequest, ScandirPc
<1>3. Books
  BY DEF Init, Books
<1> QED BY <1>1, <1>2, <1>3 DEF IInv

-----------------------------------------------------------------------------
(* Most steps only lead from one place of the code to another: they leave  *)
(* what is allocated, and who owns it.                                     *)
Passage ==
  \/ pc = "new" /\ pc' = "execute" /\ Runs("sendfile")
  \/ pc = "queued" /\ pc' = "executed" /\ cancelled
  \/ pc = "queued" /\ pc' = "execute" /\ ~cancelled
  \/ pc = "queued" /\ pc' = "scandir" /\ ~cancelled /\ Runs("scandir")
  \/ pc = "execute" /\ pc' = "emulate"
  \/ pc \in {"execute", "call", "copy", "write"} /\ pc' \in {"copy", "write", "executed"}
       /\ (pc' # "executed" => pc # "execute" /\ pc # "call")
  \/ pc = "added" /\ pc' = "read" /\ UNCHANGED <<flags, result>>
  \/ pc \in {"read", "added", "dirs", "sorting"} /\ pc' \in {"dirs", "sorting", "executed"}
  \/ pc = "posted" /\ pc' = "finishing" /\ ~cancelled /\ UNCHANGED result

Passes == Passage /\ UNCHANGED <<type, memory, dbuf, reg, opened, cancelled, dentoffs>>

Passing ==
  \/ SendfileSync \/ Begin \/ Call \/ CallOnArea \/ Mtouch \/ Readahead
  \/ Sendfile \/ SendRead \/ SendWrite \/ Finish
  \/ /\ ReadError \/ CheckCancelled \/ ReadEnd \/ SplitDirs \/ SortDirs \/ Sorting
     /\ UNCHANGED <<type, arg, transfer, dbuf, reg>>

LEMMA PassingPasses == Passing => Passes
<1> SUFFICES ASSUME Passing PROVE Passes
  OBVIOUS
<1> USE DEF Passes, Passage, memory, locals, transfer, scanvars, sortvars
<1>1. CASE SendfileSync
  BY <1>1 DEF SendfileSync
<1>2. CASE Begin
  BY <1>2 DEF Begin, Skips
<1>3. CASE Call
  BY <1>3 DEF Call
<1>4. CASE CallOnArea \/ Mtouch
  BY <1>4 DEF CallOnArea, Mtouch
<1>5. CASE Readahead
  BY <1>5 DEF Readahead
<1>6. CASE Sendfile
  BY <1>6 DEF Sendfile
<1>7. CASE SendRead
  BY <1>7 DEF SendRead
<1>8. CASE SendWrite
  BY <1>8 DEF SendWrite
<1>9. CASE Finish
  BY <1>9 DEF Finish
<1>10. ASSUME UNCHANGED <<type, arg, transfer, dbuf, reg>>,
              ReadError \/ CheckCancelled \/ SplitDirs \/ SortDirs
       PROVE  Passes
  BY <1>10 DEF ReadError, CheckCancelled, SplitDirs, SortDirs
<1>11. ASSUME UNCHANGED <<type, arg, transfer, dbuf, reg>>, ReadEnd \/ Sorting
       PROVE  Passes
  BY <1>11 DEF ReadEnd, Sorting
<1> QED BY <1>1, <1>2, <1>3, <1>4, <1>5, <1>6, <1>7, <1>8, <1>9, <1>10, <1>11 DEF Passing

LEMMA PassesInv == IInv /\ Passes => IInv'
<1> SUFFICES ASSUME IInv, Passes PROVE IInv'
  OBVIOUS
<1> USE DEF IInv, Passes, memory
<1>1. Typed'
  BY DEF Typed
<1>2. Phases'
  BY DEF Phases, Passage, Synchronous, Runs, OfRequest, OfTransfer, NoRequest, ScandirPc
<1>3. Scanning' /\ Holding' /\ Owned'
  BY DEF Phases, Scanning, Holding, Owned, Passage, Runs, OfRequest, OfTransfer, NoRequest,
         ScandirPc
<1>4. Forgotten \subseteq Forgotten'
  BY DEF Forgotten, Passage, Runs, After, Over
<1>5. Books'
  BY <1>4 DEF Books, Given
<1> QED BY <1>1, <1>2, <1>3, <1>5

(* A client makes the request, and may cancel it. *)
LEMMA MakeInv == IInv /\ Make => IInv'
<1> SUFFICES ASSUME IInv, Make PROVE IInv'
  OBVIOUS
<1> USE DEF IInv, Make, transfer, locals
<1>0. Given # {} => Caller \in Given
  BY DEF Given
<1>1. /\ ptr1' = IF type.paths > 0 THEN Path ELSE Null
      /\ ptr2' \in {Null, NewPath, Caller}
      /\ free2' => ptr2' = NewPath
      /\ ptr2' = Caller => Caller \in Given
      /\ dbuf = Null /\ reg = Null /\ ~opened
  BY <1>0, Named DEF Holding
<1>2. Typed'
  BY <1>1, Named DEF Typed
<1>3. Phases'
  BY DEF Phases, Synchronous, OfRequest, OfTransfer, NoRequest, ScandirPc
<1>4. Scanning'
  BY ReaddirWrapper DEF Typed, Scanning, Runs, Given
<1>5. Holding' /\ Owned'
  BY <1>1, Named DEF Holding, Owned
<1>6. Forgotten \subseteq Forgotten'
  BY DEF Forgotten, Runs, After, Over
<1>7. Books'
  <2>1. heap \subseteq Given \union {Request} \union Forgotten'
    BY <1>1, <1>6 DEF Books, Typed, Phases, NoRequest
  <2>2. {ptr1'} \ {Null} \subseteq {m \in {ptr1'} : free1'}
    BY <1>1
  <2>3. {ptr2'} \ {Null} \subseteq Given \union {m \in {ptr2'} : free2'}
    BY <1>0 
  <2>4. Given' = Given /\ Given \subseteq heap
    BY DEF Given, Books
  <2> HIDE DEF Given
  <2> QED BY <2>1, <2>2, <2>3, <2>4 DEF Books
<1> QED BY <1>2, <1>3, <1>4, <1>5, <1>7

LEMMA RefuseInv == IInv /\ Refuse => IInv'
<1> SUFFICES ASSUME IInv, Refuse PROVE IInv'
  OBVIOUS
<1> USE DEF IInv, Refuse, transfer, locals
<1>1. PICK lost \in {{}} \union {s \in {{Path}} : type.paths = 2} : heap' = heap \union lost
  OBVIOUS
<1>2. Typed'
  BY <1>1, Named DEF Typed
<1>3. Phases'
  BY <1>1, Named DEF Phases, Synchronous, OfRequest, OfTransfer, NoRequest, ScandirPc
<1>4. Scanning' /\ Holding' /\ Owned'
  BY <1>1 DEF Scanning, Holding, Owned, Phases, NoRequest
<1>5. Forgotten \subseteq Forgotten' /\ lost \subseteq Forgotten'
  BY <1>1 DEF Forgotten, Runs, After, Over
<1>6. Books'
  BY <1>1, <1>5, Named DEF Books, Given
<1> QED BY <1>2, <1>3, <1>4, <1>6

LEMMA CancelInv == IInv /\ Cancel => IInv'
<1> SUFFICES ASSUME IInv, Cancel PROVE IInv'
  OBVIOUS
<1> USE DEF IInv, Cancel, memory, transfer, locals, scanvars
<1>1. Typed' /\ Scanning' /\ Holding' /\ Owned'
  BY DEF Typed, Scanning, Holding, Owned, Runs
<1>2. Phases'
  BY DEF Phases, Synchronous, Runs, NoRequest
<1>3. Books'
  BY DEF Books, Forgotten, Given, Runs
<1> QED BY <1>1, <1>2, <1>3

(* ALLOC: from the flag to the store the request has no memory to free,    *)
(* and the worker holds what malloc returned.                              *)
LEMMA AllocFlagInv == IInv /\ AllocFlag => IInv'
<1> SUFFICES ASSUME IInv, AllocFlag PROVE IInv'
  OBVIOUS
<1> USE DEF IInv, AllocFlag, transfer, locals
<1>1. Typed'
  BY DEF Typed
<1>2. Phases'
  BY DEF Phases, Synchronous, Runs, OfRequest, OfTransfer, NoRequest, ScandirPc
<1>3. Scanning' /\ Holding' /\ Owned'
  BY DEF Scanning, Holding, Owned, NeedsMemory, Runs
<1>4. Forgotten \subseteq Forgotten'
  BY DEF Forgotten, Runs, After, Over
<1>5. Books'
  BY <1>4 DEF Books, Given
<1> QED BY <1>1, <1>2, <1>3, <1>5

LEMMA AllocMemoryInv == IInv /\ AllocMemory => IInv'
<1> SUFFICES ASSUME IInv, AllocMemory PROVE IInv'
  OBVIOUS
<1> USE DEF IInv, AllocMemory, transfer, locals
<1>1. Typed'
  BY Named DEF Typed
<1>2. Phases'
  BY Named DEF Phases, Synchronous, Runs, OfRequest, OfTransfer, NoRequest, ScandirPc
<1>3. Scanning' /\ Holding' /\ Owned'
  BY DEF Scanning, Holding, Owned, Runs
<1>4. Forgotten \subseteq Forgotten'
  BY DEF Forgotten, Runs, After, Over
<1>5. Books'
  BY <1>4 DEF Books, Given, Holding
<1> QED BY <1>1, <1>2, <1>3, <1>5

LEMMA AllocStoreInv == IInv /\ AllocStore => IInv'
<1> SUFFICES ASSUME IInv, AllocStore PROVE IInv'
  OBVIOUS
<1> USE DEF IInv, AllocStore, transfer, locals
<1>1. Typed'
  BY DEF Typed
<1>2. Phases'
  BY DEF Phases, Synchronous, Runs, OfRequest, OfTransfer, NoRequest, ScandirPc
<1>3. Scanning' /\ Holding' /\ Owned'
  BY Named DEF Typed, Scanning, Holding, Owned, Runs
<1>4. Forgotten \subseteq Forgotten'
  BY DEF Forgotten, Runs, After, Over
<1>5. Books'
  BY <1>4 DEF Books, Given, Holding, Typed
<1> QED BY <1>1, <1>2, <1>3, <1>5

(* dBUF: the buffer hangs on the worker. *)
LEMMA DBufInv == IInv /\ DBuf => IInv'
<1> SUFFICES ASSUME IInv, DBuf PROVE IInv'
  OBVIOUS
<1> USE DEF IInv, DBuf, transfer, locals
<1>1. dbuf = Null /\ pc \in {"execute", "emulate"}
  BY DEF Holding
<1>2. Typed'
  BY Named DEF Typed
<1>3. Phases'
  BY <1>1, Named DEF Phases, Synchronous, Runs, OfRequest, OfTransfer, NoRequest, ScandirPc
<1>4. Scanning' /\ Holding' /\ Owned'
  BY <1>1 DEF Scanning, Holding, Owned, Runs
<1>5. Forgotten \subseteq Forgotten'
  BY <1>1 DEF Forgotten, Runs, After, Over
<1>6. Books'
  BY <1>1, <1>5 DEF Books, Given, Typed
<1> QED BY <1>2, <1>3, <1>4, <1>6

(* eio__scandir: what the worker does to the request while it reads a      *)
(* directory.                                                              *)
ByWorker == UNCHANGED <<type, arg, transfer, dbuf, reg>>

LEMMA OpenInv == IInv /\ Open /\ ByWorker => IInv'
<1> SUFFICES ASSUME IInv, Open, ByWorker PROVE IInv'
  OBVIOUS
<1> USE DEF IInv, Open, ByWorker, transfer, locals
<1>1. /\ ptr1' = Null \/ (flags' # {} /\ IsBlock(ptr1', "dents"))
      /\ ptr2' = Null \/ IsBlock(ptr2', "names")
      /\ pc' = "read" => ptr2' # Null /\ (flags' = {} \/ ptr1' # Null)
      /\ flags' = {} => ptr1' = Null
      /\ pc' \in {"read", "executed"}
      /\ ptr1 = Path /\ ptr2 = Null /\ dbuf = Null /\ reg = Null
      /\ Runs("scandir") /\ Runs("scandir")'
  BY AnyBlock, Named DEF Holding, Scanning, Phases, ScandirPc, Runs
<1>2. Typed'
  BY <1>1, Named DEF Typed
<1>3. Phases'
  BY <1>1, Pointers
     DEF Phases, Synchronous, OfRequest, OfTransfer, NoRequest, ScandirPc
<1>4. Scanning' /\ Holding'
  BY <1>1 DEF Scanning, Holding
<1>5. Owned'
  BY <1>1, Pointers DEF Owned
<1>6. Forgotten \subseteq Forgotten' /\ Path \in Forgotten'
  BY <1>1 DEF Forgotten, After, Over
<1>7. Books'
  BY <1>1, <1>6 DEF Books, Given, Typed
<1> QED BY <1>2, <1>3, <1>4, <1>5, <1>7

ReadEntryEffect ==
  /\ pc = "read" /\ pc' \in {"added", "executed", "crashed"}
  /\ UNCHANGED <<result, opened, cancelled, free1, free2>>
  /\ free1 /\ free2 /\ result = -1
  /\ IsBlock(ptr2, "names") /\ dbuf = Null /\ reg = Null
  /\ IF flags = {} THEN ptr1 = Null ELSE IsBlock(ptr1, "dents")
  /\ Runs("scandir") /\ Runs("scandir")'
  /\ \/ UNCHANGED <<flags, memory, dentoffs>>
     \/ /\ IsBlock(ptr2', "names") /\ ptr1' = ptr1 /\ flags' = flags
        /\ heap' = (heap \ {ptr2}) \union {ptr2'}
        /\ pc' = "added" /\ flags = {}
     \/ /\ IsBlock(ptr2', "names") /\ IsBlock(ptr1', "dents") /\ flags # {} /\ flags' # {}
        /\ heap' = (heap \ {ptr1, ptr2}) \union {ptr1', ptr2'}
        /\ pc' = "added"
     \/ /\ IsBlock(ptr2', "names") /\ ptr1' = Null /\ flags' = flags
        /\ heap' = (heap \ {ptr2}) \union {ptr2'}
        /\ ptr1 = Block("dents", dentoffs) /\ dentoffs' = dentoffs
        /\ pc' = "executed" /\ "realloc" \in Failing

LEMMA ReadEntryDoes == IInv /\ ReadEntry /\ ByWorker => ReadEntryEffect
<1> SUFFICES ASSUME IInv, ReadEntry, ByWorker PROVE ReadEntryEffect
  OBVIOUS
<1>1. /\ pc = "read" /\ pc' \in {"added", "executed", "crashed"}
      /\ UNCHANGED <<result, opened, cancelled, free1, free2>>
      /\ free1 /\ free2 /\ result = -1
      /\ IsBlock(ptr2, "names") /\ dbuf = Null /\ reg = Null
      /\ IF flags = {} THEN ptr1 = Null ELSE IsBlock(ptr1, "dents")
      /\ Runs("scandir") /\ Runs("scandir")'
  BY DEF IInv, ByWorker, ReadEntry, memory, locals, Scanning, Holding, Phases, ScandirPc, Runs
<1> QED BY <1>1, AnyBlock DEF ReadEntryEffect, ReadEntry, Moved, IsBlock, memory, locals

LEMMA ReadEntryInv == IInv /\ ReadEntry /\ ByWorker => IInv'
<1> SUFFICES ASSUME IInv, ReadEntry, ByWorker PROVE IInv'
  OBVIOUS
<1> USE DEF IInv, ByWorker, transfer, ReadEntryEffect
<1>1. ReadEntryEffect
  BY ReadEntryDoes
<1>3. Typed'
  BY <1>1, Pointers DEF Typed, memory
<1>4. Phases'
  BY <1>1, Pointers
     DEF Phases, Synchronous, OfRequest, OfTransfer, NoRequest, ScandirPc, memory
<1>5. Scanning' /\ Holding'
  BY <1>1 DEF Scanning, Holding, memory
<1>6. Owned'
  BY <1>1, Pointers DEF Owned, memory
<1>7. Path \in Forgotten' /\ Forgotten = {Path}
  BY <1>1 DEF Forgotten, After, Over
<1>8. Given' = Given /\ Given \subseteq {Caller}
  BY DEF Given
<1>9. heap \subseteq Given \union {Request, Null, ptr1, ptr2, Path} /\ Given \subseteq heap
  BY <1>1, <1>7 DEF Books
<1>10. Given' \subseteq heap'
  BY <1>1, <1>8, <1>9, Pointers, Named DEF memory
<1>11. heap' \subseteq Given \union {Request, Null, Path, ptr1', ptr2'} \union Forgotten'
  BY <1>1, <1>9 DEF memory, Forgotten, After
<1>12. Books'
  BY <1>1, <1>3, <1>7, <1>8, <1>10, <1>11 DEF Books, Typed
<1> QED BY <1>3, <1>4, <1>5, <1>6, <1>12

(* What is freed: the worker's buffer, and with the request what it owns.  *)
LEMMA ClearedInv ==
  ASSUME IInv, Post \/ SendfileSyncReturn
  PROVE  IInv'
<1> USE DEF IInv, transfer, locals
<1>1. /\ heap' = heap \ {dbuf} /\ dbuf' = Null
      /\ UNCHANGED <<type, result, dentoffs, reg, cancelled, ptr1, ptr2, free1, free2>>
      /\ pc = "executed" /\ pc' = IF Synchronous THEN "returned" ELSE "posted"
      /\ opened' = FALSE /\ reg = Null
  <2>1. CASE Post
    BY <2>1 DEF Post, Clear, Holding
  <2>2. CASE SendfileSyncReturn
    <3>1. opened = FALSE /\ reg = Null
      BY <2>2 DEF Typed, SendfileSyncReturn, Holding, Phases, OfTransfer, Runs
    <3> QED BY <2>2, <3>1 DEF SendfileSyncReturn
  <2> QED BY <2>1, <2>2
<1>2. Typed'
  BY <1>1 DEF Typed
<1>3. Phases'
  <2>1. Request # dbuf
    BY Named DEF Typed
  <2>2. Synchronous' = Synchronous
    BY <1>1, <2>1 DEF Synchronous
  <2>3. Synchronous => ~free1 /\ ~free2
    BY <1>1 DEF Phases, OfTransfer
  <2> QED BY <1>1, <2>2, <2>3 DEF Phases, OfRequest, OfTransfer, NoRequest, ScandirPc
<1>4. Scanning' /\ Holding'
  BY <1>1 DEF Scanning, Holding
<1>5. Owned'
  BY <1>1, Named, Pointers DEF Typed, Owned
<1>6. Forgotten \subseteq Forgotten'
  BY <1>1 DEF Forgotten, Runs, After, Over
<1>7. Books'
  BY <1>1, <1>6, Named DEF Books, Given, Typed
<1> QED BY <1>2, <1>3, <1>4, <1>5, <1>7

LEMMA FreedInv ==
  ASSUME IInv, Destroy \/ ForkChild
  PROVE  IInv'
<1> USE DEF IInv, transfer, locals
<1>1. /\ heap' = heap \ ({Request, dbuf} \union {m \in {ptr1} : free1}
                                         \union {m \in {ptr2} : free2})
      /\ ptr1' = Null /\ ptr2' = Null /\ free1' = FALSE /\ free2' = FALSE
      /\ dbuf' = Null /\ opened' = FALSE /\ cancelled' \in BOOLEAN
      /\ UNCHANGED <<type, result, dentoffs, reg>>
      /\ pc' \in {"destroyed", "child"}
      /\ pc' = "destroyed" => reg = Null
      /\ pc # "new" /\ pc # "refused"
  <2>1. CASE Destroy
    <3>1. dbuf = Null /\ reg = Null /\ opened = FALSE /\ Null \notin heap
      BY <2>1 DEF Destroy, Holding, Typed
    <3> QED BY <2>1, <3>1 DEF Destroy, Free, Typed
  <2>2. CASE ForkChild
    BY <2>2 DEF ForkChild, Free, Over, Phases, NoRequest
  <2> QED BY <2>1, <2>2
<1>2. Typed'
  BY <1>1 DEF Typed
<1>3. Phases'
  BY <1>1 DEF Phases, Synchronous, Runs, OfRequest, OfTransfer, NoRequest, ScandirPc
<1>4. Scanning' /\ Holding' /\ Owned'
  BY <1>1 DEF Scanning, Holding, Owned
<1>5. Forgotten \subseteq Forgotten'
  BY <1>1 DEF Forgotten, Runs, After, Over
<1>6. Given' = Given /\ Given \subseteq {Caller}
  BY <1>1 DEF Given
<1>7. Given' \subseteq heap'
  BY <1>1, <1>6, Named, Pointers DEF Books, Typed, Owned
<1>8. Books'
  BY <1>1, <1>5, <1>6, <1>7 DEF Books
<1> QED BY <1>2, <1>3, <1>4, <1>8

-----------------------------------------------------------------------------
LEMMA StepInv == IInv /\ [Next]_vars => IInv'
<1> SUFFICES ASSUME IInv, [Next]_vars PROVE IInv'
  OBVIOUS
<1>1. CASE Passing
  BY <1>1, PassingPasses, PassesInv
<1>2. CASE Make \/ Refuse \/ Cancel
  BY <1>2, MakeInv, RefuseInv, CancelInv
<1>3. CASE AllocFlag \/ AllocMemory \/ AllocStore \/ DBuf
  BY <1>3, AllocFlagInv, AllocMemoryInv, AllocStoreInv, DBufInv
<1>4. ASSUME ByWorker, Open \/ ReadEntry PROVE IInv'
  BY <1>4, OpenInv, ReadEntryInv
<1>5. CASE Post \/ SendfileSyncReturn \/ Destroy \/ ForkChild
  BY <1>5, ClearedInv, FreedInv
<1>6. CASE UNCHANGED vars
  <2>1. UNCHANGED <<type, pc, flags, result, memory, dbuf, reg, opened, cancelled, dentoffs>>
    BY <1>6 DEF vars, scanvars, locals
  <2>2. Typed' /\ Phases' /\ Scanning' /\ Holding' /\ Owned'
    BY <2>1 DEF memory, IInv, Typed, Phases, Scanning, Holding, Owned, Synchronous, Runs
  <2>3. Books'
    BY <2>1 DEF memory, IInv, Books, Forgotten, Given, Runs
  <2> QED BY <2>2, <2>3 DEF IInv
<1> QED BY <1>1, <1>2, <1>3, <1>4, <1>5, <1>6
       DEF Next, WorkerNext, Scandir, ScandirNext, Passing, ByWorker

THEOREM Invariant == Spec => []IInv
<1>1. IInv /\ [Next]_vars => IInv'
  BY StepInv
<1> QED BY InitInv, <1>1, PTL DEF Spec

(* Whenever a fork may come, what its child would free is allocated and    *)
(* none of the client's memory, for every request, directory and failure.  *)
THEOREM OwnedKept == Spec => []Owned
<1>1. IInv => Owned
  BY DEF IInv
<1> QED BY Invariant, <1>1, PTL

(* A request that has ended leaves behind what the code forgets, and       *)
(* nothing else.                                                           *)
THEOREM ReleasedKept == Spec => []Released
<1>1. IInv => Released
  <2> SUFFICES ASSUME IInv, pc \in NoRequest \ {"new"}
               PROVE  /\ ~opened /\ Given \subseteq heap
                      /\ heap \ Given \subseteq Forgotten \union {m \in {reg} : pc = "child"}
    BY DEF Released, Forgotten, NoRequest, Over
  <2>1. /\ ~opened /\ dbuf = Null /\ Request \notin heap /\ Null \notin heap
        /\ ~free1 /\ ~free2
        /\ reg # Null => pc = "child"
    BY DEF IInv, Holding, Phases, Typed, NoRequest, Synchronous
  <2> QED BY <2>1 DEF IInv, Books
<1> QED BY Invariant, <1>1, PTL

-----------------------------------------------------------------------------
(* The memory a directory is read into. *)

(* Memory that doubled is large enough: no name is longer than 256 bytes.  *)
LEMMA GrownEnough ==
  ASSUME NEW n \in Nat \ {0}, NEW need \in Nat, need <= n + 256
  PROVE  Grown(n, need) \in Nat \ {0} /\ need <= Grown(n, need)
<1> DEFINE sizes == {n * 2^k : k \in 0..9}
           Fits(m) == need <= m /\ (m = n \/ m \div 2 < need)
<1>1. \A m \in sizes : m \in Nat \ {0}
  <2> SUFFICES ASSUME NEW k \in 0..9 PROVE n * 2^k \in Nat \ {0}
    OBVIOUS
  <2>1. 2^k \in Nat \ {0}
    <3>1. k \in {0, 1, 2, 3, 4, 5, 6, 7, 8, 9}
      OBVIOUS
    <3>2. CASE k = 0
      BY <3>2
    <3>3. CASE k = 1
      BY <3>3
    <3>4. CASE k = 2
      BY <3>4
    <3>5. CASE k = 3
      BY <3>5
    <3>6. CASE k = 4
      BY <3>6
    <3>7. CASE k = 5
      BY <3>7
    <3>8. CASE k = 6
      BY <3>8
    <3>9. CASE k = 7
      BY <3>9
    <3>10. CASE k = 8
      BY <3>10
    <3>11. CASE k = 9
      BY <3>11
    <3> QED BY <3>1, <3>2, <3>3, <3>4, <3>5, <3>6, <3>7, <3>8, <3>9, <3>10, <3>11
  <2>2. \A m \in Nat \ {0} : n * m \in Nat \ {0}
    OBVIOUS
  <2> QED BY <2>1, <2>2
<1>2. \E m \in sizes : Fits(m)
  <2>1. /\ n * 2^0 = n /\ n * 2^1 = n * 2 /\ n * 2^2 = n * 4 /\ n * 2^3 = n * 8
        /\ n * 2^4 = n * 16 /\ n * 2^5 = n * 32 /\ n * 2^6 = n * 64 /\ n * 2^7 = n * 128
        /\ n * 2^8 = n * 256 /\ n * 2^9 = n * 512
    OBVIOUS
  <2>2. {n, n * 2, n * 4, n * 8, n * 16, n * 32, n * 64, n * 128, n * 256, n * 512}
          \subseteq sizes
    <3>1. ASSUME NEW k \in 0..9 PROVE n * 2^k \in sizes
      OBVIOUS
    <3>2. n * 2^0 \in sizes
      <4>1. 0 \in 0..9
        OBVIOUS
      <4> HIDE DEF sizes
      <4> QED BY <3>1, <4>1
    <3>3. n * 2^1 \in sizes
      <4>1. 1 \in 0..9
        OBVIOUS
      <4> HIDE DEF sizes
      <4> QED BY <3>1, <4>1
    <3>4. n * 2^2 \in sizes
      <4>1. 2 \in 0..9
        OBVIOUS
      <4> HIDE DEF sizes
      <4> QED BY <3>1, <4>1
    <3>5. n * 2^3 \in sizes
      <4>1. 3 \in 0..9
        OBVIOUS
      <4> HIDE DEF sizes
      <4> QED BY <3>1, <4>1
    <3>6. n * 2^4 \in sizes
      <4>1. 4 \in 0..9
        OBVIOUS
      <4> HIDE DEF sizes
      <4> QED BY <3>1, <4>1
    <3>7. n * 2^5 \in sizes
      <4>1. 5 \in 0..9
        OBVIOUS
      <4> HIDE DEF sizes
      <4> QED BY <3>1, <4>1
    <3>8. n * 2^6 \in sizes
      <4>1. 6 \in 0..9
        OBVIOUS
      <4> HIDE DEF sizes
      <4> QED BY <3>1, <4>1
    <3>9. n * 2^7 \in sizes
      <4>1. 7 \in 0..9
        OBVIOUS
      <4> HIDE DEF sizes
      <4> QED BY <3>1, <4>1
    <3>10. n * 2^8 \in sizes
      <4>1. 8 \in 0..9
        OBVIOUS
      <4> HIDE DEF sizes
      <4> QED BY <3>1, <4>1
    <3>11. n * 2^9 \in sizes
      <4>1. 9 \in 0..9
        OBVIOUS
      <4> HIDE DEF sizes
      <4> QED BY <3>1, <4>1
    <3> HIDE DEF sizes
    <3> QED BY <2>1, <3>2, <3>3, <3>4, <3>5, <3>6, <3>7, <3>8, <3>9, <3>10, <3>11
  <2>3. \E m \in {n, n * 2, n * 4, n * 8, n * 16, n * 32, n * 64, n * 128, n * 256, n * 512} :
           Fits(m)
    <3>1. CASE need <= n
      BY <3>1
    <3>2. CASE n < need /\ need <= n * 2
      BY <3>2
    <3>3. CASE n * 2 < need /\ need <= n * 4
      BY <3>3
    <3>4. CASE n * 4 < need /\ need <= n * 8
      BY <3>4
    <3>5. CASE n * 8 < need /\ need <= n * 16
      BY <3>5
    <3>6. CASE n * 16 < need /\ need <= n * 32
      BY <3>6
    <3>7. CASE n * 32 < need /\ need <= n * 64
      BY <3>7
    <3>8. CASE n * 64 < need /\ need <= n * 128
      BY <3>8
    <3>9. CASE n * 128 < need /\ need <= n * 256
      BY <3>9
    <3>10. CASE n * 256 < need /\ need <= n * 512
      BY <3>10
    <3> QED BY <3>1, <3>2, <3>3, <3>4, <3>5, <3>6, <3>7, <3>8, <3>9, <3>10
  <2> HIDE DEF sizes, Fits
  <2> QED BY <2>2, <2>3
<1>3. Grown(n, need) = CHOOSE m \in sizes : Fits(m)
  BY DEF Grown
<1>4. Grown(n, need) \in sizes /\ Fits(Grown(n, need))
  <2> HIDE DEF sizes, Fits
  <2> QED BY <1>2, <1>3
<1>5. Grown(n, need) \in Nat \ {0}
  <2> HIDE DEF sizes, Fits
  <2> QED BY <1>1, <1>4
<1> QED BY <1>4, <1>5

(* The blocks hold what was written to them, before the first and after    *)
(* the last time they grow.                                                *)
Room ==
  /\ namesoffs \in Nat /\ dentoffs \in Nat
  /\ pc \in {"new", "queued", "scandir"} => namesoffs = 0 /\ dentoffs = 0
  /\ IsBlock(ptr2, "names") => ptr2[2] \in Nat \ {0} /\ namesoffs <= ptr2[2]
  /\ IsBlock(ptr1, "dents") => ptr1[2] \in Nat \ {0} /\ dentoffs <= ptr1[2]

(* A step that only moves on, or gives up what the request points to. *)
LEMMA RoomStays ==
  ASSUME Room, namesoffs' \in {namesoffs, 0}, dentoffs' = dentoffs,
         ptr1' = ptr1 \/ ~IsBlock(ptr1', "dents"),
         ptr2' = ptr2 \/ ~IsBlock(ptr2', "names"),
         pc' \in {"new", "queued", "scandir"} => pc \in {"new", "queued", "scandir"}
  PROVE  Room'
BY DEF Room

LEMMA OpenRoom ==
  ASSUME Room, Open
  PROVE  Room'
<1>1. /\ namesoffs' = 0 /\ dentoffs' = 0 /\ pc' \in {"read", "executed"}
      /\ ptr1' \in {Null, Block("dents", DentAlloc0)}
      /\ ptr2' \in {Null, Block("names", NamesAlloc0)}
  BY DEF Open, Room, locals
<1>2. Block("dents", DentAlloc0)[2] = DentAlloc0 /\ Block("names", NamesAlloc0)[2] = NamesAlloc0
  BY Kind
<1>3. DentAlloc0 \in Nat \ {0} /\ NamesAlloc0 \in Nat \ {0}
  BY ScandirAssumption
<1>4. ~IsBlock(Null, "dents") /\ ~IsBlock(Null, "names")
  BY Pointers
<1> QED BY <1>1, <1>2, <1>3, <1>4 DEF Room

LEMMA ReadEntryRoom ==
  ASSUME IInv, Room, ReadEntry
  PROVE  Room'
<1>1. PICK e \in Entries : ReadEntry!2!(e)
  BY DEF ReadEntry
<1>2. e.len \in 2..256
  BY ScandirAssumption
<1> DEFINE need == namesoffs + e.len
           names == Block("names", Grown(ptr2[2], need))
           room == Block("dents", Grown(ptr1[2], dentoffs + 1))
<1>3. /\ IsBlock(ptr2, "names") /\ ptr2[2] \in Nat \ {0} /\ namesoffs <= ptr2[2]
      /\ namesoffs \in Nat /\ dentoffs \in Nat /\ need \in Nat /\ need <= ptr2[2] + 256
  <2>1. IsBlock(ptr2, "names")
    BY DEF ReadEntry, IInv, Scanning
  <2>2. ptr2[2] \in Nat \ {0} /\ namesoffs <= ptr2[2] /\ namesoffs \in Nat /\ dentoffs \in Nat
    BY <2>1 DEF Room
  <2> QED BY <1>2, <2>1, <2>2
<1>4. /\ names[2] \in Nat \ {0} /\ need <= names[2] /\ namesoffs <= names[2]
  <2>1. Grown(ptr2[2], need) \in Nat \ {0} /\ need <= Grown(ptr2[2], need)
    BY <1>3, GrownEnough
  <2>2. names[2] = Grown(ptr2[2], need)
    BY Kind
  <2>3. namesoffs <= need
    BY <1>2, <1>3
  <2> HIDE DEF names, need
  <2> QED BY <1>3, <2>1, <2>2, <2>3
<1>5. flags # {} => /\ ptr1[2] \in Nat \ {0} /\ room[2] \in Nat \ {0}
                    /\ dentoffs + 1 <= room[2]
  <2> SUFFICES ASSUME flags # {}
               PROVE  /\ ptr1[2] \in Nat \ {0} /\ room[2] \in Nat \ {0}
                      /\ dentoffs + 1 <= room[2]
    OBVIOUS
  <2>1. ptr1[2] \in Nat \ {0} /\ dentoffs <= ptr1[2]
    BY DEF ReadEntry, IInv, Scanning, Room
  <2>2. dentoffs + 1 \in Nat /\ dentoffs + 1 <= ptr1[2] + 256
    BY <1>3, <2>1
  <2>3. Grown(ptr1[2], dentoffs + 1) \in Nat \ {0} /\ dentoffs + 1 <= Grown(ptr1[2], dentoffs + 1)
    BY <2>1, <2>2, GrownEnough
  <2>4. room[2] = Grown(ptr1[2], dentoffs + 1)
    BY Kind
  <2> HIDE DEF room
  <2> QED BY <2>1, <2>3, <2>4
<1>6. ~IsBlock(Null, "dents") /\ pc' \in {"added", "executed", "crashed"}
  BY <1>1, Pointers
<1>7. \/ UNCHANGED <<memory, locals>>
      \/ /\ flags = {} /\ ptr2' = names /\ ptr1' = ptr1
         /\ namesoffs' = need /\ dentoffs' = dentoffs + 1
      \/ /\ flags # {} /\ ptr2' = names /\ ptr1' = room
         /\ namesoffs' = need /\ dentoffs' = dentoffs + 1
      \/ /\ ptr2' = names /\ ptr1' = Null
         /\ namesoffs' = namesoffs /\ dentoffs' = dentoffs
  BY <1>1 DEF Moved, locals
<1>8. flags = {} => ptr1 = Null
  BY DEF ReadEntry, IInv, Scanning
<1>9. pc \in {"read"}
  BY DEF ReadEntry
<1> HIDE DEF names, room, need
<1>10. CASE UNCHANGED <<memory, locals>>
  BY <1>6, <1>10 DEF Room, memory, locals
<1>11. CASE /\ flags = {} /\ ptr2' = names /\ ptr1' = ptr1
            /\ namesoffs' = need /\ dentoffs' = dentoffs + 1
  BY <1>3, <1>4, <1>6, <1>8, <1>11 DEF Room
<1>12. CASE /\ flags # {} /\ ptr2' = names /\ ptr1' = room
            /\ namesoffs' = need /\ dentoffs' = dentoffs + 1
  BY <1>3, <1>4, <1>5, <1>6, <1>12 DEF Room
<1>13. CASE /\ ptr2' = names /\ ptr1' = Null
            /\ namesoffs' = namesoffs /\ dentoffs' = dentoffs
  BY <1>3, <1>4, <1>6, <1>13 DEF Room
<1> QED BY <1>7, <1>10, <1>11, <1>12, <1>13

LEMMA RoomInv ==
  ASSUME IInv, Room, [Next]_vars
  PROVE  Room'
<1> USE DEF memory, locals, scanvars
<1>0. /\ ~IsBlock(Null, "dents") /\ ~IsBlock(Path, "dents")
      /\ \A p \in {Null, NewPath, Buffer, Caller} : ~IsBlock(p, "names")
  BY Pointers
<1>1. CASE UNCHANGED <<ptr1, ptr2, locals>>
           /\ (pc' \in {"new", "queued", "scandir"} => pc \in {"new", "queued", "scandir"})
  BY <1>1, RoomStays
<1>2. CASE Make
  <2>1. ptr1' \in {Null, Path} /\ ptr2' \in {Null, NewPath, Caller}
    BY <1>2 DEF Make
  <2> QED BY <1>0, <1>2, <2>1, RoomStays DEF Make
<1>3. CASE Refuse \/ Cancel
  BY <1>1, <1>3 DEF Refuse, Cancel
<1>4. CASE Passing
  <2>1. Passes
    BY <1>4, PassingPasses
  <2>2. UNCHANGED locals
    BY <1>4 DEF Passing, SendfileSync, Begin, Call, CallOnArea, Mtouch, Readahead, Sendfile,
       SendRead, SendWrite, Finish, ReadError, CheckCancelled, ReadEnd, SplitDirs, SortDirs,
       Sorting
  <2> QED BY <1>1, <2>1, <2>2 DEF Passes, Passage
<1>5. CASE AllocFlag \/ AllocMemory \/ DBuf \/ Post \/ SendfileSyncReturn
  BY <1>1, <1>5 DEF AllocFlag, AllocMemory, DBuf, Post, SendfileSyncReturn
<1>6. CASE AllocStore
  <2>1. ptr2' \in {Null, Buffer}
    BY <1>6 DEF AllocStore, IInv, Typed
  <2> QED BY <1>0, <1>6, <2>1, RoomStays DEF AllocStore
<1>7. CASE Destroy \/ ForkChild
  BY <1>0, <1>7, RoomStays DEF Destroy, ForkChild, Free
<1>8. CASE Open \/ ReadEntry
  BY <1>8, OpenRoom, ReadEntryRoom
<1>9. CASE UNCHANGED vars
  BY <1>1, <1>9 DEF vars
<1> QED BY <1>2, <1>3, <1>4, <1>5, <1>6, <1>7, <1>8, <1>9
       DEF Next, WorkerNext, Scandir, ScandirNext, Passing, ByWorker

(* eio__scandir writes no name and no entry beyond the memory it is to be  *)
(* in, for every directory, every first size and every failure: that the   *)
(* size doubles is enough, and what realloc could not move is not used.    *)
THEOREM CapacityKept == Spec => []Capacity
<1>1. Init => Room
  BY Pointers DEF Init, ScandirInit, Room
<1>2. IInv /\ Room /\ [Next]_vars => Room'
  BY RoomInv
<1>3. IInv /\ Room => Capacity
  <2> SUFFICES ASSUME IInv, Room PROVE Capacity
    OBVIOUS
  <2>1. ptr2[1] = "names" => IsBlock(ptr2, "names")
    BY Kinds DEF IInv, Typed
  <2>2. ptr1[1] = "dents" => IsBlock(ptr1, "dents")
    BY Kinds DEF IInv, Typed
  <2> QED BY <2>1, <2>2 DEF Room, Capacity
<1> QED BY <1>1, <1>2, <1>3, Invariant, PTL DEF Spec

-----------------------------------------------------------------------------
(* The refinement mapping, and its values where the request may be.        *)
stages == [r \in {Request} |-> Stage]
revocable == {r \in {Request} : cancelled /\ Stage # "free"}

Running == {"execute", "alloc", "alloced", "call", "emulate", "copy", "write"}
           \union ScandirPc

StageTable ==
  /\ pc \in NoRequest \union {"crashed"} => Stage = "free"
  /\ Synchronous => Stage = "free"
  /\ ~Synchronous => /\ pc = "queued" => Stage = "queued"
                     /\ pc \in Running => Stage = "running"
                     /\ pc \in {"executed", "posted"} => Stage = "done"
                     /\ pc = "finishing" => Stage = "finishing"

LEMMA StageFacts == IInv => StageTable
<1> SUFFICES ASSUME IInv PROVE StageTable
  OBVIOUS
<1>1. CASE pc \in NoRequest \union {"crashed"}
  BY <1>1 DEF IInv, Phases, StageTable, Stage, NoRequest, Running, ScandirPc
<1>2. CASE pc \notin NoRequest \union {"crashed"} /\ Synchronous
  BY <1>2 DEF StageTable, Stage
<1>3. CASE pc \notin NoRequest \union {"crashed"} /\ ~Synchronous
  <2>1. pc \in Running => pc \notin {"queued", "executed", "posted", "finishing"}
    BY DEF Running, ScandirPc
  <2> QED BY <1>3, <2>1 DEF StageTable, Stage
<1> QED BY <1>1, <1>2, <1>3

LEMMA StageFactsNext == IInv' => StageTable'
BY StageFacts, PTL

Simulated == [Service!Next]_(Service!vars)

LEMMA Stays ==
  ASSUME Stage' = Stage, Stage = "free" \/ cancelled' = cancelled
  PROVE  Simulated
<1>1. stages' = stages
  BY DEF stages
<1>2. revocable' = revocable
  BY DEF revocable
<1> QED BY <1>1, <1>2 DEF Simulated, Service!vars, stages, revocable

LEMMA Moves ==
  ASSUME NEW from, NEW to, Stage = from, Stage' = to
  PROVE  Service!Move(Request, from, to)
<1>1. stages[Request] = from /\ stages' = [stages EXCEPT ![Request] = to]
  BY DEF stages
<1> QED BY <1>1 DEF Service!Move, stages

LEMMA RevocableStays ==
  ASSUME Stage # "free", Stage' # "free", cancelled' = cancelled
  PROVE  revocable' = revocable
BY DEF revocable

LEMMA RevocableGoes ==
  ASSUME Stage' = "free"
  PROVE  revocable' = revocable \ {Request}
BY DEF revocable

(* The worker goes on with the request, or is done with it. *)
LEMMA WorkSim ==
  ASSUME IInv, IInv', pc \in Running, pc' \in Running \union {"executed"},
         Synchronous' = Synchronous, cancelled' = cancelled
  PROVE  Simulated
<1>1. StageTable /\ StageTable'
  BY StageFacts, StageFactsNext
<1>2. CASE Synchronous \/ pc' \in Running
  <2>1. Stage' = Stage
    BY <1>1, <1>2 DEF StageTable
  <2> QED BY <2>1, Stays
<1>3. CASE ~Synchronous /\ pc' = "executed"
  <2>1. Stage = "running" /\ Stage' = "done"
    BY <1>1, <1>3 DEF StageTable
  <2>2. Service!Move(Request, "running", "done") /\ revocable' = revocable
    BY <2>1, Moves, RevocableStays
  <2>3. Service!Complete(Request)
    BY <2>2 DEF Service!Complete, revocable
  <2> QED BY <2>3 DEF Simulated, Service!Next
<1> QED BY <1>2, <1>3

LEMMA PassesSim ==
  ASSUME IInv, IInv', Passes
  PROVE  Simulated
<1>1. StageTable /\ StageTable'
  BY StageFacts, StageFactsNext
<1>2. Synchronous' = Synchronous /\ cancelled' = cancelled
  BY DEF Passes, memory, Synchronous
<1>3. CASE pc = "new"
  <2>1. Stage' = Stage
    BY <1>1, <1>2, <1>3 DEF StageTable, IInv, Phases, NoRequest
  <2> QED BY <1>2, <2>1, Stays
<1>4. CASE pc = "queued"
  <2>1. ~Synchronous
    BY <1>4 DEF IInv, Phases, OfRequest
  <2>2. CASE cancelled
    <3>1. Stage = "queued" /\ Stage' = "done"
      BY <1>1, <1>2, <1>4, <2>1, <2>2 DEF StageTable, Passes, Passage
    <3>2. Service!Move(Request, "queued", "done") /\ revocable' = revocable
      BY <1>2, <3>1, Moves, RevocableStays
    <3>3. Request \in revocable
      BY <2>2, <3>1 DEF revocable
    <3>4. Service!Skip(Request)
      BY <3>2, <3>3 DEF Service!Skip, revocable
    <3> QED BY <3>4 DEF Simulated, Service!Next
  <2>3. CASE ~cancelled
    <3>1. Stage = "queued" /\ Stage' = "running"
      BY <1>1, <1>2, <1>4, <2>1, <2>3 DEF StageTable, Passes, Passage, Running, ScandirPc
    <3>2. Service!Move(Request, "queued", "running") /\ revocable' = revocable
      BY <1>2, <3>1, Moves, RevocableStays
    <3>3. Request \notin revocable
      BY <2>3 DEF revocable
    <3>4. Service!Execute(Request)
      BY <3>2, <3>3 DEF Service!Execute, revocable
    <3> QED BY <3>4 DEF Simulated, Service!Next
  <2> QED BY <2>2, <2>3
<1>5. CASE pc = "posted"
  <2>1. ~Synchronous /\ ~cancelled /\ pc' = "finishing"
    BY <1>5 DEF IInv, Phases, OfRequest, Passes, Passage
  <2>2. Stage = "done" /\ Stage' = "finishing"
    BY <1>1, <1>2, <1>5, <2>1 DEF StageTable
  <2>3. Service!Move(Request, "done", "finishing") /\ revocable' = revocable
    BY <1>2, <2>2, Moves, RevocableStays
  <2>4. Request \notin revocable /\ \A s \in {Request} : stages[s] # "finishing"
    BY <2>1, <2>2 DEF revocable, stages
  <2>5. Service!Finish(Request)
    BY <2>3, <2>4 DEF Service!Finish, revocable, stages
  <2> QED BY <2>5 DEF Simulated, Service!Next
<1>6. CASE pc \notin {"new", "queued", "posted"}
  <2>1. pc \in Running /\ pc' \in Running \union {"executed"}
    BY <1>6 DEF Passes, Passage, Running, ScandirPc
  <2> QED BY <1>2, <2>1, WorkSim
<1> QED BY <1>3, <1>4, <1>5, <1>6

(* Steps that allocate. *)
LEMMA AllocSim ==
  ASSUME IInv, IInv', AllocFlag \/ AllocMemory \/ AllocStore \/ DBuf
  PROVE  Simulated
<1>1. /\ pc \in Running /\ pc' \in Running \union {"executed"} /\ cancelled' = cancelled
      /\ heap' \in {heap, heap \union {Buffer}, heap \union {Dbuf}}
  BY DEF AllocFlag, AllocMemory, AllocStore, DBuf, Running
<1>2. Synchronous' = Synchronous
  BY <1>1, Named DEF Synchronous
<1> QED BY <1>1, <1>2, WorkSim

LEMMA ReadSim ==
  ASSUME IInv, IInv', Open \/ ReadEntry, ByWorker
  PROVE  Simulated
<1>1. pc \in Running /\ pc \in ScandirPc /\ cancelled' = cancelled
  BY DEF Open, ReadEntry, Running, ScandirPc
<1>2. ~Synchronous
  BY <1>1 DEF IInv, Phases, OfRequest
<1>3. ~Synchronous'
  <2>1. CASE Open
    BY <1>2, <2>1 DEF Open, Synchronous
  <2>2. CASE ReadEntry
    BY <1>2, <2>2, ReadEntryDoes, Pointers DEF ReadEntryEffect, Synchronous, memory
  <2> QED BY <2>1, <2>2
<1>4. CASE pc' # "crashed"
  <2>1. pc' \in Running \union {"executed"}
    BY <1>4 DEF Open, ReadEntry, Running, ScandirPc
  <2>2. Synchronous' = Synchronous
    BY <1>2, <1>3 DEF Synchronous
  <2> QED BY <1>1, <2>1, <2>2, WorkSim
<1>5. CASE pc' = "crashed"
  <2>1. Stage = "running" /\ Stage' = "free"
    BY <1>1, <1>2, <1>5, StageFacts, StageFactsNext DEF StageTable
  <2>2. /\ stages = [r \in {Request} |-> "running"]
        /\ stages' = [r \in {Request} |-> "free"]
        /\ revocable' = {}
    BY <2>1 DEF stages, revocable
  <2>3. Service!ForkChild
    BY <2>2 DEF Service!ForkChild, stages, revocable
  <2> QED BY <2>3 DEF Simulated, Service!Next
<1> QED BY <1>4, <1>5

LEMMA ClientSim ==
  ASSUME IInv, IInv', Make \/ Refuse \/ Cancel
  PROVE  Simulated
<1>1. StageTable /\ StageTable'
  BY StageFacts, StageFactsNext
<1>2. CASE Make
  <2>1. Stage = "free" /\ Stage' = "queued" /\ ~cancelled /\ ~cancelled'
    BY <1>1, <1>2 DEF Make, StageTable, Synchronous, NoRequest, IInv, Phases
  <2>2. Service!Move(Request, "free", "queued")
    BY <2>1, Moves
  <2>3. revocable' = revocable
    BY <2>1 DEF revocable
  <2>4. Service!Submit(Request)
    BY <2>2, <2>3 DEF Service!Submit, revocable
  <2> QED BY <2>4 DEF Simulated, Service!Next
<1>3. CASE Refuse
  <2>1. Stage = "free" /\ Stage' = "free"
    BY <1>1, <1>3 DEF Refuse, StageTable, NoRequest
  <2> QED BY <2>1, Stays
<1>4. CASE Cancel
  <2>1. /\ pc' = pc /\ Synchronous' = Synchronous /\ ~Synchronous /\ cancelled'
        /\ pc \in {"queued", "executed", "posted", "finishing"} \union Running
    BY <1>4 DEF Cancel, memory, Synchronous, IInv, Phases, OfRequest, OfTransfer, NoRequest,
                Over, Running
  <2>2. Stage' = Stage /\ Stage # "free"
    BY <1>1, <2>1 DEF StageTable
  <2>3. stages' = stages /\ stages[Request] # "free" /\ revocable' = revocable \union {Request}
    BY <2>1, <2>2 DEF stages, revocable
  <2>4. Service!Cancel(Request)
    BY <2>3 DEF Service!Cancel, stages, revocable
  <2> QED BY <2>4 DEF Simulated, Service!Next
<1> QED BY <1>2, <1>3, <1>4

LEMMA EndSim ==
  ASSUME IInv, IInv', Post \/ SendfileSyncReturn \/ Destroy \/ ForkChild
  PROVE  Simulated
<1>1. StageTable /\ StageTable'
  BY StageFacts, StageFactsNext
<1>2. CASE Post
  <2>1. ~Synchronous /\ pc = "executed" /\ pc' = "posted" /\ cancelled' = cancelled
    BY <1>2 DEF Post
  <2>2. ~Synchronous'
    BY <2>1 DEF IInv, Phases, OfRequest
  <2>3. Stage' = Stage
    BY <1>1, <2>1, <2>2 DEF StageTable
  <2> QED BY <2>1, <2>3, Stays
<1>3. CASE SendfileSyncReturn
  <2>1. Stage = "free" /\ Stage' = "free"
    BY <1>1, <1>3 DEF SendfileSyncReturn, StageTable, NoRequest
  <2> QED BY <2>1, Stays
<1>4. CASE Destroy
  <2>1. /\ ~Synchronous /\ pc' = "destroyed"
        /\ pc = "finishing" \/ (pc = "posted" /\ cancelled)
    BY <1>4 DEF Destroy, IInv, Phases, OfRequest
  <2>2. /\ Stage' = "free"
        /\ Stage = "finishing" \/ (Stage = "done" /\ cancelled)
    BY <1>1, <2>1 DEF StageTable, NoRequest
  <2>3. /\ revocable' = revocable \ {Request}
        /\ Stage = "done" => Request \in revocable
    BY <2>2, RevocableGoes DEF revocable
  <2>4. CASE Stage = "finishing"
    <3>1. Service!Move(Request, "finishing", "free")
      BY <2>2, <2>4, Moves
    <3>2. Service!Destroy(Request)
      BY <2>3, <3>1 DEF Service!Destroy, revocable
    <3> QED BY <3>2 DEF Simulated, Service!Next
  <2>5. CASE Stage = "done"
    <3>1. Service!Move(Request, "done", "free")
      BY <2>2, <2>5, Moves
    <3>2. Service!Destroy(Request)
      BY <2>3, <2>5, <3>1 DEF Service!Destroy, revocable
    <3> QED BY <3>2 DEF Simulated, Service!Next
  <2> QED BY <2>2, <2>4, <2>5
<1>5. CASE ForkChild
  <2>1. ~Synchronous /\ pc # "finishing" /\ pc \notin Over /\ pc' = "child"
    BY <1>5 DEF ForkChild
  <2>2. Stage # "finishing" /\ Stage' = "free"
    BY <1>1, <2>1 DEF StageTable, IInv, Phases, OfRequest, OfTransfer, NoRequest, Running, Over
  <2>3. /\ stages = [r \in {Request} |-> Stage]
        /\ stages' = [r \in {Request} |-> "free"]
        /\ revocable' = {}
    BY <2>2 DEF stages, revocable
  <2>4. /\ stages' = [r \in {Request} |->
                        IF stages[r] = "finishing" THEN "finishing" ELSE "free"]
        /\ revocable' = {r \in revocable : stages[r] = "finishing"}
    BY <2>2, <2>3 DEF revocable
  <2>5. Service!ForkChild
    BY <2>4 DEF Service!ForkChild, stages, revocable
  <2> QED BY <2>5 DEF Simulated, Service!Next
<1> QED BY <1>2, <1>3, <1>4, <1>5

LEMMA StepSim == IInv /\ IInv' /\ [Next]_vars => Simulated
<1> SUFFICES ASSUME IInv, IInv', [Next]_vars PROVE Simulated
  OBVIOUS
<1>1. CASE Passing
  BY <1>1, PassingPasses, PassesSim
<1>2. CASE Make \/ Refuse \/ Cancel
  BY <1>2, ClientSim
<1>3. CASE AllocFlag \/ AllocMemory \/ AllocStore \/ DBuf
  BY <1>3, AllocSim
<1>4. ASSUME ByWorker, Open \/ ReadEntry PROVE Simulated
  BY <1>4, ReadSim
<1>5. CASE Post \/ SendfileSyncReturn \/ Destroy \/ ForkChild
  BY <1>5, EndSim
<1>6. CASE UNCHANGED vars
  <2>1. Stage' = Stage /\ cancelled' = cancelled
    BY <1>6 DEF vars, scanvars, memory, Stage, Synchronous
  <2> QED BY <2>1, Stays
<1> QED BY <1>1, <1>2, <1>3, <1>4, <1>5, <1>6
       DEF Next, WorkerNext, Scandir, ScandirNext, Passing, ByWorker

(* One request of any type goes through the stages of EioService, which    *)
(* EtpPool assumes of all of them: it is executed once, not after it was   *)
(* found cancelled, called back once and freed last.                       *)
THEOREM RequestRefines == Spec => Implements
<1>1. Init => Service!Init
  <2> SUFFICES ASSUME Init PROVE stages = [r \in {Request} |-> "free"] /\ revocable = {}
    BY DEF Service!Init, stages, revocable
  <2>1. Stage = "free"
    BY InitInv, StageFacts DEF Init, StageTable, NoRequest
  <2> QED BY <2>1 DEF stages, revocable
<1>2. IInv /\ IInv' /\ [Next]_vars => [Service!Next]_(Service!vars)
  BY StepSim DEF Simulated
<1> QED BY <1>1, <1>2, Invariant, PTL DEF Spec, Implements, Service!Spec

=============================================================================
