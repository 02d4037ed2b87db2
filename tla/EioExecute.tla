----------------------------- MODULE EioExecute -----------------------------
(***************************************************************************)
(* The life of one request in ext/libeio/eio.c, of any type, seen from     *)
(* what belongs to it: the wrapper that makes it, eio_execute with its     *)
(* emulations of system calls, and eio_destroy; while the client may       *)
(* cancel it or fork at every step.  Other requests are in EtpPool: here   *)
(* it is the memory, and what the emulations transfer, that may go wrong.  *)
(***************************************************************************)
EXTENDS EioScandir, PageAlign

CONSTANTS
  Types,       \* the requests the client makes
  BufSize,     \* EIO_BUFSIZE, 65536 in the code
  FileLen,     \* the length of the file that is sent
  Ranges,      \* <<offset, count>>: what the client asks to be sent or read
  Areas        \* <<address, length>>: the memory it asks to be synced or locked

ASSUME ExecuteAssumption ==
  /\ BufSize \in Nat \ {0} /\ FileLen \in Nat
  /\ Ranges \subseteq Nat \X Nat /\ Areas \subseteq Nat \X Nat

VARIABLES
  type,            \* req->type, as the wrapper that made it
  arg,             \* the range or the area it was made for
  offset, count,   \* the locals of these names in the emulations
  buffer,          \* what eio_buf holds: positions in the file
  reached,         \* the positions an emulation has written, or asked for,
                   \* in this order; the addresses a system call was given
  dbuf,            \* self->dbuf
  reg              \* what malloc has returned to the worker and ALLOC not
                   \* yet stored

transfer == <<offset, count, buffer, reached>>
vars == <<scanvars, type, arg, transfer, dbuf, reg>>

Request == Block("request", 0)
NewPath == Block("new path", 0)
Buffer == Block("buffer", 0)     \* what ALLOC allocates
Dbuf == Block("dbuf", 0)
Caller == Block("caller", 0)     \* memory the client passes a pointer to

-----------------------------------------------------------------------------
(* The wrappers.  Each is known by the number of paths it copies, by       *)
(* whether it stores a pointer of the client's in ptr2, and by what        *)
(* eio_execute does for it: one system call ("call"), one into memory of   *)
(* its own if ptr2 is still 0 ("alloc"), nothing that can fail, or an      *)
(* emulation.                                                              *)
Wrapper(paths, buf, runs) == [paths |-> paths, buf |-> buf, runs |-> runs]

eio_nop == Wrapper(0, "none", "nothing")
eio_busy == Wrapper(0, "none", "call")
eio_sync == Wrapper(0, "none", "nothing")
eio_fsync == Wrapper(0, "none", "call")
eio_msync == Wrapper(0, "given", "area")
eio_mtouch == Wrapper(0, "given", "mtouch")
eio_mlock == Wrapper(0, "given", "area")
eio_mlockall == Wrapper(0, "none", "call")
eio_sync_file_range == Wrapper(0, "none", "call")
eio_fdatasync == Wrapper(0, "none", "call")
eio_close == Wrapper(0, "none", "call")
eio_readahead == Wrapper(0, "none", "readahead")
eio_read(buf) == Wrapper(0, buf, "alloc")
eio_write == Wrapper(0, "given", "call")
eio_fstat == Wrapper(0, "none", "alloc")
eio_fstatvfs == Wrapper(0, "none", "alloc")
eio_futime == Wrapper(0, "none", "call")
eio_ftruncate == Wrapper(0, "none", "call")
eio_fchmod == Wrapper(0, "none", "call")
eio_fchown == Wrapper(0, "none", "call")
eio_dup2 == Wrapper(0, "none", "call")
eio_sendfile == Wrapper(0, "none", "sendfile")
eio_open == Wrapper(1, "none", "call")
eio_utime == Wrapper(1, "none", "call")
eio_truncate == Wrapper(1, "none", "call")
eio_chown == Wrapper(1, "none", "call")
eio_chmod == Wrapper(1, "none", "call")
eio_mkdir == Wrapper(1, "none", "call")
eio__1path(runs) == Wrapper(1, "none", runs)
eio_readlink == eio__1path("alloc")
eio_stat == eio__1path("alloc")
eio_lstat == eio__1path("alloc")
eio_statvfs == eio__1path("alloc")
eio_unlink == eio__1path("call")
eio_rmdir == eio__1path("call")
eio_readdir == Wrapper(1, "none", "scandir")
eio_mknod == Wrapper(1, "none", "call")
eio__2path == Wrapper(2, "none", "call")
eio_link == eio__2path
eio_symlink == eio__2path
eio_rename == eio__2path
eio_custom == Wrapper(0, "none", "call")

AllWrappers == {eio_nop, eio_busy, eio_sync, eio_fsync, eio_msync, eio_mtouch, eio_mlock,
                eio_mlockall, eio_sync_file_range, eio_fdatasync, eio_close, eio_readahead,
                eio_read("none"), eio_read("given"), eio_write, eio_fstat, eio_fstatvfs,
                eio_futime, eio_ftruncate, eio_fchmod, eio_fchown, eio_dup2, eio_sendfile,
                eio_open, eio_utime, eio_truncate, eio_chown, eio_chmod, eio_mkdir,
                eio_readlink, eio_stat, eio_lstat, eio_statvfs, eio_unlink, eio_rmdir,
                eio_readdir, eio_mknod, eio_link, eio_symlink, eio_rename, eio_custom}

ASSUME WrappersAssumption == Types \subseteq AllWrappers

Runs(what) == type.runs = what

Given == {m \in {Caller} : type.buf = "given"}

Args == CASE type.runs \in {"readahead", "sendfile"} -> Ranges
          [] type.runs \in {"area", "mtouch"} -> Areas
          [] OTHER -> {<<0, 0>>}

Init ==
  /\ ScandirInit
  /\ type \in Types
  /\ arg \in Args /\ offset = arg[1] /\ count = arg[2]
  /\ flags \in IF Runs("scandir") THEN FlagSets ELSE {{}}
  /\ pc = "new" /\ result = 0 /\ cancelled = FALSE
  /\ ptr1 = Null /\ free1 = FALSE /\ ptr2 = Null /\ free2 = FALSE
  /\ heap = Given
  /\ opened = FALSE /\ dbuf = Null /\ reg = Null
  /\ buffer = << >> /\ reached = << >>

-----------------------------------------------------------------------------
(* The client: REQ and PATH, then eio_submit.                              *)
Make ==
  /\ pc = "new"
  /\ pc' = "queued"
  /\ free1' = (type.paths > 0) /\ ptr1' = IF type.paths > 0 THEN Path ELSE Null
  /\ free2' = (type.paths = 2)
  /\ ptr2' = IF type.paths = 2 THEN NewPath ELSE IF Given # {} THEN Caller ELSE Null
  /\ heap' = heap \union {Request} \union ({ptr1', ptr2'} \ {Null})
  /\ UNCHANGED <<sortvars, dir, flags, result, locals, opened, cancelled, type, arg,
                 transfer, dbuf, reg>>

(* calloc or strdup fails: the wrapper returns 0.  eio_api_destroy frees   *)
(* the request only, so that a first path stays behind when the second     *)
(* could not be copied.                                                    *)
Refuse ==
  /\ pc = "new" /\ "malloc" \in Failing
  /\ pc' = "refused"
  /\ \E lost \in {{}} \union {s \in {{Path}} : type.paths = 2} : heap' = heap \union lost
  /\ UNCHANGED <<sortvars, dir, flags, result, ptr1, ptr2, free1, free2, locals, opened,
                 cancelled, type, arg, transfer, dbuf, reg>>

(* eio_sendfile_sync: no request; the emulation's buffer hangs on a worker *)
(* structure on the stack of the caller, who waits.                        *)
Synchronous == Request \notin heap

SendfileSync ==
  /\ pc = "new" /\ Runs("sendfile")
  /\ pc' = "execute"
  /\ UNCHANGED <<sortvars, dir, flags, result, memory, locals, opened, cancelled, type,
                 arg, transfer, dbuf, reg>>

SendfileSyncReturn ==
  /\ pc = "executed" /\ Synchronous
  /\ pc' = "returned"
  /\ dbuf' = Null /\ heap' = heap \ {dbuf}
  /\ UNCHANGED <<sortvars, dir, flags, result, ptr1, ptr2, free1, free2, locals, opened,
                 cancelled, type, arg, transfer, reg>>

Over == {"refused", "returned", "destroyed", "child", "crashed"}

Cancel ==
  /\ pc \notin Over /\ ~Synchronous /\ ~cancelled
  /\ cancelled' = TRUE
  /\ UNCHANGED <<sortvars, pc, dir, flags, result, memory, locals, opened, type, arg,
                 transfer, dbuf, reg>>

-----------------------------------------------------------------------------
(* A worker takes the request.  One that is found cancelled goes on to     *)
(* res_queue unexecuted.                                                   *)
Skips_not == FALSE                                  \* mutant of Skips
Skips == cancelled

Begin ==
  /\ pc = "queued"
  /\ pc' = IF Skips THEN "executed" ELSE IF Runs("scandir") THEN "scandir" ELSE "execute"
  /\ UNCHANGED <<sortvars, dir, flags, result, memory, locals, opened, cancelled, type,
                 arg, transfer, dbuf, reg>>

(* ALLOC: the flag under wrklock, malloc and the store after it.  The      *)
(* client's memory is used if there is any, and never freed.               *)
NeedsMemory == ptr2 = Null

AllocFlag ==
  /\ pc = "execute" /\ Runs("alloc") /\ NeedsMemory
  /\ free2' = TRUE
  /\ pc' = "alloc"
  /\ UNCHANGED <<sortvars, dir, flags, result, ptr1, ptr2, free1, heap, locals, opened,
                 cancelled, type, arg, transfer, dbuf, reg>>

AllocMemory ==
  /\ pc = "alloc"
  /\ \/ /\ reg' = Buffer /\ heap' = heap \union {Buffer}
        /\ pc' = "alloced" /\ UNCHANGED result
     \/ /\ "malloc" \in Failing
        /\ result' = -1
        /\ pc' = "executed" /\ UNCHANGED <<reg, heap>>
  /\ UNCHANGED <<sortvars, dir, flags, ptr1, ptr2, free1, free2, locals, opened, cancelled,
                 type, arg, transfer, dbuf>>

AllocStore ==
  /\ pc = "alloced"
  /\ ptr2' = reg /\ reg' = Null
  /\ pc' = "call"
  /\ UNCHANGED <<sortvars, dir, flags, result, ptr1, free1, free2, heap, locals, opened,
                 cancelled, type, arg, transfer, dbuf>>

(* The system call, or the client's function in an eio_custom request.     *)
Fails == "call" \in Failing

Call ==
  /\ \/ pc = "call"
     \/ pc = "execute" /\ type.runs \in {"call", "nothing"}
     \/ pc = "execute" /\ Runs("alloc") /\ ~NeedsMemory
  /\ result' \in {0} \union {r \in {-1} : Fails /\ ~Runs("nothing")}
  /\ pc' = "executed"
  /\ UNCHANGED <<sortvars, dir, flags, memory, locals, opened, cancelled, type, arg,
                 transfer, dbuf, reg>>

-----------------------------------------------------------------------------
(* eio__msync, eio__mlock: the system call is made for whole pages.        *)
Positions(from, n) == [k \in 1..n |-> from + k - 1]

CallOnArea ==
  /\ pc = "execute" /\ Runs("area")
  /\ reached' = Positions(AlignedAddr(arg[1]), AlignedLen(arg[1], arg[2]))
  /\ result' \in {0} \union {r \in {-1} : Fails}
  /\ pc' = "executed"
  /\ UNCHANGED <<sortvars, dir, flags, memory, locals, opened, cancelled, type, arg, offset,
                 count, buffer, dbuf, reg>>

(* eio__mtouch: the first page is touched, and the next ones as long as    *)
(* their address is below the length of the area.                          *)
Mtouch ==
  /\ pc = "execute" /\ Runs("mtouch")
  /\ LET addr == AlignedAddr(arg[1])
         len == AlignedLen(arg[1], arg[2])
         pages == CHOOSE n \in 1..len+1 :
                     /\ n = 1 \/ addr + (n - 1) * PageSize < len
                     /\ addr + n * PageSize >= len
     IN  reached' = IF len = 0 THEN << >> ELSE [k \in 1..pages |-> addr + (k - 1) * PageSize]
  /\ result' = 0
  /\ pc' = "executed"
  /\ UNCHANGED <<sortvars, dir, flags, memory, locals, opened, cancelled, type, arg, offset,
                 count, buffer, dbuf, reg>>

(* dBUF, under wrklock. *)
DBuf ==
  /\ \/ pc = "execute" /\ Runs("readahead")
     \/ pc = "emulate"
  /\ \/ /\ dbuf' = Dbuf /\ heap' = heap \union {Dbuf}
        /\ pc' = "copy" /\ UNCHANGED result
     \/ /\ "malloc" \in Failing
        /\ result' = -1
        /\ pc' = "executed" /\ UNCHANGED <<dbuf, heap>>
  /\ UNCHANGED <<sortvars, dir, flags, ptr1, ptr2, free1, free2, locals, opened, cancelled,
                 type, arg, transfer, reg>>

AtMost(n, limit) == IF n < limit THEN n ELSE limit

(* eio__readahead: whether pread succeeds does not matter. *)
Readahead ==
  /\ pc = "copy" /\ Runs("readahead")
  /\ \/ /\ count > 0
        /\ LET len == AtMost(count, BufSize)
           IN  /\ reached' = reached \o Positions(offset, len)
               /\ offset' = offset + len /\ count' = count - len
        /\ UNCHANGED <<pc, result>>
     \/ /\ count = 0
        /\ result' = arg[2]
        /\ pc' = "executed"
        /\ UNCHANGED <<offset, count, reached>>
  /\ UNCHANGED <<sortvars, dir, flags, memory, locals, opened, cancelled, type, arg, buffer,
                 dbuf, reg>>

-----------------------------------------------------------------------------
(* eio__sendfile: how much a system call may transfer that could transfer  *)
(* n bytes, less only if the file ends.                                    *)
Transferred(n) ==
  IF n = 0 \/ offset >= FileLen THEN {0} ELSE 1..AtMost(n, FileLen - offset)

(* The system call.  Where it is not supported it is emulated.             *)
Sendfile ==
  /\ pc = "execute" /\ Runs("sendfile")
  /\ \/ /\ \E n \in Transferred(count) :
             result' = n /\ reached' = Positions(offset, n)
        /\ pc' = "executed"
     \/ /\ count > 0
        /\ pc' = "emulate"
        /\ UNCHANGED <<result, reached>>
     \/ /\ count > 0 /\ Fails
        /\ result' = -1
        /\ pc' = "executed"
        /\ UNCHANGED reached
  /\ UNCHANGED <<sortvars, dir, flags, memory, locals, opened, cancelled, type, arg, offset,
                 count, buffer, dbuf, reg>>

(* A call in the emulation failed: what was sent before still counts.      *)
(* (result is the local res, which eio_execute stores at the end.)         *)
Broken_lost == -1                                   \* mutant of Broken
Broken == IF result = 0 THEN -1 ELSE result

SendRead ==
  /\ pc = "copy" /\ Runs("sendfile")
  /\ \/ /\ count > 0
        /\ \E n \in Transferred(AtMost(count, BufSize)) :
             /\ buffer' = Positions(offset, n)
             /\ pc' = IF n = 0 THEN "executed" ELSE "write"
        /\ UNCHANGED result
     \/ /\ count > 0 /\ Fails
        /\ result' = Broken /\ pc' = "executed" /\ UNCHANGED buffer
     \/ /\ count = 0
        /\ pc' = "executed" /\ UNCHANGED <<buffer, result>>
  /\ UNCHANGED <<sortvars, dir, flags, memory, locals, opened, cancelled, type, arg, offset,
                 count, reached, dbuf, reg>>

(* write may take less than what was read; the rest is read again.         *)
Advance_read(n) == Len(buffer)                      \* mutant of Advance
Advance(n) == n

SendWrite ==
  /\ pc = "write"
  /\ \/ \E n \in 1..Len(buffer) :
          /\ reached' = reached \o SubSeq(buffer, 1, n)
          /\ offset' = offset + Advance(n)
          /\ result' = result + Advance(n)
          /\ count' = count - Advance(n)
          /\ pc' = "copy"
     \/ /\ result' \in {result} \union {r \in {Broken} : Fails}
        /\ pc' = "executed"
        /\ UNCHANGED <<reached, offset, count>>
  /\ UNCHANGED <<sortvars, dir, flags, memory, locals, opened, cancelled, type, arg, buffer,
                 dbuf, reg>>

Scandir == ScandirNext /\ UNCHANGED <<type, arg, transfer, dbuf, reg>>

-----------------------------------------------------------------------------
(* The worker hands the request over and clears what is its own.           *)
Clear_not == UNCHANGED opened                       \* mutant of Clear
Clear == opened' = FALSE

Post ==
  /\ pc = "executed" /\ ~Synchronous
  /\ pc' = "posted"
  /\ Clear
  /\ dbuf' = Null /\ heap' = heap \ {dbuf}
  /\ UNCHANGED <<sortvars, dir, flags, result, ptr1, ptr2, free1, free2, locals, cancelled,
                 type, arg, transfer, reg>>

(* eio_finish: the callback of a request that is not cancelled runs. *)
Finish ==
  /\ pc = "posted" /\ ~cancelled
  /\ pc' = "finishing"
  /\ UNCHANGED <<sortvars, dir, flags, result, memory, locals, opened, cancelled, type, arg,
                 transfer, dbuf, reg>>

(* eio_destroy, and what etp_worker_clear frees of a worker. *)
Free(cleared) ==
  /\ heap' = heap \ ({Request} \union cleared \union
                     {m \in {ptr1} : free1} \union {m \in {ptr2} : free2})
  /\ ptr1' = Null /\ ptr2' = Null /\ free1' = FALSE /\ free2' = FALSE

(* The callback has returned, or there was none. *)
Destroy ==
  /\ pc = "finishing" \/ (pc = "posted" /\ cancelled)
  /\ pc' = "destroyed"
  /\ Free({})
  /\ UNCHANGED <<sortvars, dir, flags, result, locals, opened, cancelled, type, arg,
                 transfer, dbuf, reg>>

(* The child of a fork: wherever the worker was, the request is destroyed  *)
(* and the worker cleared, whose locals end with its thread.  A request    *)
(* that is being called back is in neither queue and with no worker: it    *)
(* goes on in the child.  In the parent nothing happens.                   *)
ForkChild ==
  /\ pc \notin Over \union {"finishing"} /\ ~Synchronous
  /\ pc' = "child"
  /\ Free({dbuf})
  /\ opened' = FALSE /\ dbuf' = Null
  /\ size' = 0 /\ bits' = {} /\ stk' = << >> /\ base' = 0 /\ end' = 0 /\ bit' = 0
  /\ a' = 0 /\ b' = 0 /\ i' = 0 /\ spc' = "none" /\ dents' = << >> /\ dir' = << >>
  /\ namesoffs' = 0 /\ inode_bits' = {} /\ buffer' = << >>
  /\ cancelled' = FALSE
  /\ UNCHANGED <<flags, result, dentoffs, type, arg, offset, count, reached, reg>>

WorkerNext == \/ Begin \/ AllocFlag \/ AllocMemory \/ AllocStore \/ Call
              \/ CallOnArea \/ Mtouch \/ DBuf \/ Readahead
              \/ Sendfile \/ SendRead \/ SendWrite \/ Scandir \/ Post \/ SendfileSyncReturn

Next == \/ Make \/ Refuse \/ SendfileSync \/ Cancel
        \/ WorkerNext \/ Finish \/ Destroy \/ ForkChild

Spec == Init /\ [][Next]_vars

(* The scheduler runs the worker, eio_poll finishes what it posts, and the *)
(* callback returns.                                                       *)
FairSpec == Spec /\ WF_vars(WorkerNext) /\ WF_vars(Finish \/ Destroy)
-----------------------------------------------------------------------------
TypeOK ==
  /\ pc \in {"new", "queued", "execute", "alloc", "alloced", "call", "emulate", "copy",
             "write", "executed", "posted", "finishing"} \union ScandirPc \union Over
  /\ ScandirTypeOK
  /\ {offset, count} \subseteq Nat /\ result \in Int
  /\ ptr1 \in {Null, Path} \/ ptr1 \in {"dents"} \X Nat
  /\ ptr2 \in {Null, NewPath, Buffer, Caller} \/ ptr2 \in {"names"} \X Nat
  /\ dbuf \in {Null, Dbuf} /\ reg \in {Null, Buffer}

(* Whenever a fork may come, what its child would free is allocated, and   *)
(* is no memory of the client's: the request never points to memory        *)
(* realloc has moved away, whatever wrklock does not protect.              *)
Owned == /\ free1 => ptr1 \in heap \union {Null}
         /\ free2 => ptr2 \in (heap \ {Caller}) \union {Null}
         /\ dbuf \in heap \union {Null}

(* A request that was refused, has ended, or was dropped in the child of a *)
(* fork has closed its directory and leaves no memory behind but: the copy *)
(* of a path, which eio__scandir forgets and eio__2path does not free; the *)
(* entries of a directory that could not grow; in the child, what malloc   *)
(* had just returned to ALLOC.  The client's own memory is untouched.      *)
Released ==
  pc \in Over \ {"crashed"} =>
     /\ ~opened /\ Given \subseteq heap
     /\ heap \ Given \subseteq
          {m \in {Path} : Runs("scandir") \/ (pc = "refused" /\ type.paths = 2)}
          \union {m \in {Block("dents", dentoffs)} : result = -1 /\ "realloc" \in Failing}
          \union {m \in {reg} : pc = "child"}

(* sendfile and readahead: however system calls come up short, the bytes   *)
(* are those from the offset on, each once and in order; the result is     *)
(* their number, or -1 only if nothing was sent.                           *)
Transfers ==
  pc \in {"executed", "posted", "returned"} /\ type.runs \in {"sendfile", "readahead"} =>
     /\ reached = Positions(arg[1], Len(reached))
     /\ Len(reached) <= arg[2]
     /\ result = Len(reached) \/ (result = -1 /\ reached = << >>)

(* Of the memory the client named, msync and mlock get every byte, and     *)
(* only whole pages that hold a part of it; eio__mtouch leaves the area    *)
(* at no address.                                                          *)
InArea ==
  reached # << >> /\ type.runs \in {"area", "mtouch"} =>
     LET Page(x) == x \div PageSize
         first == Page(arg[1])
         last == Page(IF arg[2] = 0 THEN arg[1] ELSE arg[1] + arg[2] - 1)
         bytes == {reached[k] : k \in 1..Len(reached)}
     IN  /\ {Page(x) : x \in bytes} \subseteq first..last
         /\ Runs("area") => /\ arg[1]..arg[1] + arg[2] - 1 \subseteq bytes
                            /\ bytes = first * PageSize..(last + 1) * PageSize - 1

(* One request is one of EioService, the abstract one of the pool: it is   *)
(* executed once, and not when it was cancelled before.                    *)
Stage == IF Synchronous \/ pc = "crashed" THEN "free"
         ELSE CASE pc = "queued" -> "queued"
                [] pc \in {"executed", "posted"} -> "done"
                [] pc = "finishing" -> "finishing"
                [] OTHER -> "running"

Service == INSTANCE EioService WITH
  Reqs <- {Request}, stage <- [r \in {Request} |-> Stage],
  cancelled <- {r \in {Request} : cancelled /\ Stage # "free"}

Implements == Service!Spec

(* Every request a client submits, and every call of eio_sendfile_sync,    *)
(* comes to an end: the emulations and the sorts stop, whatever the files  *)
(* and directories are.                                                    *)
Ends == pc # "new" ~> pc \in Over

=============================================================================
