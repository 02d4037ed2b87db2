------------------------------ MODULE EioRuby ------------------------------
(***************************************************************************)
(* The methods of the Ruby module EIO and of EIO::Request in               *)
(* ext/eio/eio_ext.c: which calls become requests, what a request refers   *)
(* to (the Proc, the EIO::Request that refers to it), its execution, and   *)
(* what EIO.poll makes of its result: a call of the Proc, an exception or  *)
(* nothing.  The thread pool in between is the one of EioService.          *)
(***************************************************************************)
EXTENDS Integers, FiniteSets

CONSTANTS
  Reqs,        \* memory for requests, which calloc gives out again after free
  Handles,     \* the numbers of the asynchronous calls, each of which returns
               \* an EIO::Request; how many there are is a bound of the model
  Workers, None,
  Methods,     \* the methods the client calls
  PriArgs,     \* what it passes to EIO.priority
  Errnos,      \* what errno may be after a failed system call
  StaleUse     \* whether it uses an EIO::Request after the request's end

ASSUME RubyAssumption ==
  /\ IsFiniteSet(Handles) /\ Handles = 1..Cardinality(Handles)
  /\ None \notin Reqs \union Handles
  /\ PriArgs \subseteq Int
  /\ None \notin Errnos
  /\ Errnos \intersect {"none", "pending", "dropped", "called", "ArgumentError",
                         "unsealed"} = {}
  /\ StaleUse \in BOOLEAN

EIO_PRI_MIN == -4
EIO_PRI_MAX == 4
EIO_PRI_DEFAULT == 0

-----------------------------------------------------------------------------
(* The methods.  Each is known by the number of arguments it demands that  *)
(* its callback takes, the number its finish callback passes, and whether  *)
(* its system call can fail; and whether the finish callback seals the     *)
(* result with FD_CLOEXEC, as only open's does.                            *)
Method(arity, passes, fails) ==
  [arity |-> arity, passes |-> passes, fails |-> fails, seals |-> FALSE]

generic_cb == 0
open_cb == 1
read_cb == 1
readdir_cb == 1
write_cb == 1
stat_cb == 1

busy == Method(0, generic_cb, TRUE)
nop == Method(0, generic_cb, FALSE)
sync == Method(0, generic_cb, FALSE)
open == [Method(1, open_cb, TRUE) EXCEPT !.seals = TRUE]
close == Method(0, generic_cb, TRUE)
fsync == Method(0, generic_cb, TRUE)
fdatasync == Method(0, generic_cb, TRUE)
read == Method(1, read_cb, TRUE)
readahead == Method(0, generic_cb, TRUE)
write == Method(1, write_cb, TRUE)
sendfile == Method(1, write_cb, TRUE)
readdir == Method(1, readdir_cb, TRUE)
mkdir == Method(0, generic_cb, TRUE)
rmdir == Method(0, generic_cb, TRUE)
unlink == Method(0, generic_cb, TRUE)
readlink == Method(1, read_cb, TRUE)
stat == Method(1, stat_cb, TRUE)
rename == Method(0, generic_cb, TRUE)
chmod == Method(0, generic_cb, TRUE)
fchmod == Method(0, generic_cb, TRUE)
truncate == Method(0, generic_cb, TRUE)
ftruncate == Method(0, generic_cb, TRUE)
chown == Method(0, generic_cb, TRUE)
fchown == Method(0, generic_cb, TRUE)
link == Method(0, generic_cb, TRUE)
symlink == Method(0, generic_cb, TRUE)

AllMethods == {busy, nop, sync, open, close, fsync, fdatasync, read, readahead, write,
               sendfile, readdir, mkdir, rmdir, unlink, readlink, stat, rename, chmod,
               fchmod, truncate, ftruncate, chown, fchown, link, symlink}

ASSUME MethodsAssumption == Methods \subseteq AllMethods

-----------------------------------------------------------------------------
VARIABLES
  stage,            \* of each request, as in EioService; or "lost"
  pri, result, errorno, complete, cancelled,     \* fields of eio_req
  owner,            \* the call the memory is, or was last, in use for
  ref,              \* ref[h]: the request EIO::Request h points to
  method,           \* method[h]: which method was called
  fate,             \* fate[h]: what became of the call
  failed,           \* failed[h]: the errno its system call really left, or None
  revoked,          \* the calls whose EIO::Request was told to cancel
  procs, roots,     \* the Procs that exist; the ones the GC must keep
  wreq, errno,      \* a worker's request and its errno
  next_priority,
  cur               \* the request whose finish callback is running

fields == <<pri, result, errorno, complete, cancelled>>
calls == <<method, fate, failed>>
gc == <<ref, procs, roots>>
workers == <<wreq, errno>>
vars == <<stage, fields, owner, calls, revoked, gc, workers, next_priority, cur>>

Init ==
  /\ stage = [r \in Reqs |-> "free"]
  /\ pri = [r \in Reqs |-> 0] /\ result = [r \in Reqs |-> 0]
  /\ errorno = [r \in Reqs |-> None]
  /\ complete = {} /\ cancelled = {}
  /\ owner = [r \in Reqs |-> None] /\ ref = [h \in Handles |-> None]
  /\ method = [h \in Handles |-> nop]
  /\ fate = [h \in Handles |-> "none"] /\ failed = [h \in Handles |-> None]
  /\ revoked = {} /\ procs = {} /\ roots = {}
  /\ wreq = [w \in Workers |-> None] /\ errno = [w \in Workers |-> None]
  /\ next_priority = EIO_PRI_DEFAULT /\ cur = None

-----------------------------------------------------------------------------
(* A call of a method of EIO                                               *)

(* The callback: the block, or else the last argument.                     *)
Given == [block : {"none", "fits", "wrong arity"},
          proc : {"none", "fits", "wrong arity", "no Proc"}]
Cb(given) == IF given.block # "none" THEN given.block ELSE given.proc

(* AssertCallback and Check_Type of the other arguments. *)
Valid(given, types) == Cb(given) \in {"none", "fits"} /\ types

(* It raises, and nothing has changed. *)
Reject(given, types) == ~Valid(given, types) /\ UNCHANGED vars

(* Without a block the system call is made at once, or the call refused:   *)
(* SyncRequest and SubmitRequest.  The next priority stays.                *)
Synchronous(given) == Valid(given, TRUE) /\ given.block = "none" /\ UNCHANGED vars

(* On another thread than the main one it raises. *)
WrongThread(given) == Valid(given, TRUE) /\ given.block = "fits" /\ UNCHANGED vars

(* REQ: calloc clears the memory.                                          *)
Fresh_malloc(r) == UNCHANGED <<complete, cancelled>>     \* mutant of Fresh
Fresh(r) == complete' = complete \ {r} /\ cancelled' = cancelled \ {r}

(* DONT_GC as it is for RUBY_VM, which nothing reverts:                    *)
(* rb_gc_unregister_address is for addresses, and gets one that was never  *)
(* registered.                                                             *)
Root_not(h) == roots                                     \* mutant of Root
Root(h) == roots \union {h}

NextCall == Cardinality({h \in Handles : fate[h] # "none"}) + 1

(* SetupAsyncRequest, on the main thread. *)
Asynchronous(m, given, h, r) ==
  /\ Valid(given, TRUE) /\ given.block = "fits"
  /\ h \in Handles /\ stage[r] = "free"
  /\ Fresh(r)
  /\ pri' = [pri EXCEPT ![r] = next_priority] /\ next_priority' = EIO_PRI_DEFAULT
  /\ result' = [result EXCEPT ![r] = 0] /\ errorno' = [errorno EXCEPT ![r] = None]
  /\ stage' = [stage EXCEPT ![r] = "queued"]
  /\ owner' = [owner EXCEPT ![r] = h] /\ ref' = [ref EXCEPT ![h] = r]
  /\ method' = [method EXCEPT ![h] = m] /\ fate' = [fate EXCEPT ![h] = "pending"]
  /\ procs' = procs \union {h} /\ roots' = Root(h)
  /\ UNCHANGED <<failed, revoked, workers, cur>>

(* EIO.priority *)
Clamp_not(p) == p                                        \* mutant of Clamp
Clamp(p) == IF p < EIO_PRI_MIN THEN EIO_PRI_MIN
            ELSE IF p > EIO_PRI_MAX THEN EIO_PRI_MAX ELSE p

Priority ==
  /\ \E p \in PriArgs : next_priority' = Clamp(p)
  /\ UNCHANGED <<stage, fields, owner, calls, revoked, gc, workers, cur>>

-----------------------------------------------------------------------------
(* A method of an EIO::Request                                             *)

(* GetRequest: the pointer is never reset, so it is not 0. *)
GetRequest(h) == ref[h] # None

Own(h) == fate[h] = "pending" \/ (cur # None /\ owner[cur] = h)

Cancel(h) ==
  /\ GetRequest(h) /\ (StaleUse \/ Own(h))
  /\ cancelled' = cancelled \union {ref[h]} /\ revoked' = revoked \union {h}
  /\ UNCHANGED <<stage, pri, result, errorno, complete, owner, calls, gc, workers,
                 next_priority, cur>>

(* The program drops the EIO::Request and the Proc; the GC frees them.     *)
(* The request is not freed with its EIO::Request.                         *)
Collect(h) ==
  /\ ref[h] # None
  /\ ref' = [ref EXCEPT ![h] = None]
  /\ procs' = procs \ ({h} \ roots)
  /\ UNCHANGED <<stage, fields, owner, calls, revoked, roots, workers, next_priority,
                 cur>>

-----------------------------------------------------------------------------
(* The pool                                                                *)

EIO_CANCELLED_never(r) == FALSE                          \* mutant of EIO_CANCELLED
EIO_CANCELLED(r) == r \in cancelled

(* A cancelled request is not executed, but posted all the same. *)
Skipped_dropped == "lost"                                \* mutant of Skipped
Skipped == "done"

Begin(w, r) ==
  /\ stage[r] = "queued" /\ wreq[w] = None
  /\ \/ /\ EIO_CANCELLED(r)
        /\ stage' = [stage EXCEPT ![r] = Skipped]
        /\ UNCHANGED wreq
     \/ /\ ~EIO_CANCELLED(r)
        /\ stage' = [stage EXCEPT ![r] = "running"]
        /\ wreq' = [wreq EXCEPT ![w] = r]
  /\ UNCHANGED <<fields, owner, calls, revoked, gc, errno, next_priority, cur>>

(* eio_execute: a call that succeeds leaves errno as an earlier one left   *)
(* it, and req->errorno gets it all the same.                              *)
Execute(w) ==
  LET r == wreq[w]
      h == owner[r]
  IN  /\ r # None
      /\ \E e \in {None} \union {f \in Errnos : method[h].fails} :
           /\ failed' = [failed EXCEPT ![h] = e]
           /\ result' = [result EXCEPT ![r] = IF e = None THEN 0 ELSE -1]
           /\ errno' = [errno EXCEPT ![w] = IF e = None THEN errno[w] ELSE e]
      /\ errorno' = [errorno EXCEPT ![r] = errno'[w]]
      /\ stage' = [stage EXCEPT ![r] = "done"]
      /\ wreq' = [wreq EXCEPT ![w] = None]
      /\ UNCHANGED <<pri, complete, cancelled, owner, method, fate, revoked, gc,
                     next_priority, cur>>

-----------------------------------------------------------------------------
(* EIO.poll, on the main thread and outside of callbacks                   *)

Failed_errno(r) == errorno[r] # None                     \* mutant of Failed
Failed(r) == result[r] = -1

End(r, how) == fate' = [fate EXCEPT ![owner[r]] = how]

(* What the finish callback does for a system call that succeeded: it      *)
(* calls the Proc, which raises if it is a lambda for another number of    *)
(* arguments.  CloseOnExec, before that, raises if fcntl fails.            *)
Outcomes(m) == {IF m.arity = m.passes THEN "called" ELSE "ArgumentError"}
                 \union {x \in {"unsealed"} : m.seals}

(* A cancelled request is destroyed without a word. *)
PollCancelled(r) ==
  /\ stage[r] = "done" /\ cur = None /\ EIO_CANCELLED(r)
  /\ End(r, "dropped")
  /\ stage' = [stage EXCEPT ![r] = "free"]
  /\ UNCHANGED <<fields, owner, method, failed, revoked, gc, workers, next_priority,
                 cur>>

(* eio_finish calls the finish callback, EioCallback: it raises if the     *)
(* request failed.                                                         *)
PollCall(r) ==
  /\ stage[r] = "done" /\ cur = None /\ ~EIO_CANCELLED(r)
  /\ \E how \in IF Failed(r) THEN {errorno[r]} ELSE Outcomes(method[owner[r]]) : End(r, how)
  /\ complete' = IF Failed(r) THEN complete \union {r} ELSE complete
  /\ stage' = [stage EXCEPT ![r] = "finishing"]
  /\ cur' = r
  /\ UNCHANGED <<pri, result, errorno, cancelled, owner, method, failed, revoked, gc,
                 workers, next_priority>>

ProcRuns == cur # None /\ fate[owner[cur]] = "called"

ProcReturn ==
  /\ ProcRuns
  /\ complete' = complete \union {cur}
  /\ stage' = [stage EXCEPT ![cur] = "free"]
  /\ cur' = None
  /\ UNCHANGED <<pri, result, errorno, cancelled, owner, calls, revoked, gc, workers,
                 next_priority>>

(* An exception, of the finish callback or of the Proc, leaves eio_finish  *)
(* and eio_poll: the request is not destroyed.                             *)
Raise ==
  /\ cur # None
  /\ stage' = [stage EXCEPT ![cur] = "lost"]
  /\ cur' = None
  /\ UNCHANGED <<fields, owner, calls, revoked, gc, workers, next_priority>>

-----------------------------------------------------------------------------
(* What the program does, outside of EIO.poll or in a Proc it calls. *)
ClientCall ==
  /\ cur = None \/ ProcRuns
  /\ \/ Priority
     \/ \E given \in Given :
          \/ \E types \in BOOLEAN : Reject(given, types)
          \/ Synchronous(given) \/ WrongThread(given)
          \/ \E m \in Methods, r \in Reqs : Asynchronous(m, given, NextCall, r)
     \/ \E h \in Handles : Cancel(h) \/ Collect(h)

WorkerNext == \E w \in Workers : Execute(w) \/ \E r \in Reqs : Begin(w, r)

Poll == \E r \in Reqs : PollCancelled(r) \/ PollCall(r)

ProcEnd == ProcReturn \/ Raise

Next == ClientCall \/ WorkerNext \/ Poll \/ ProcEnd

Spec == Init /\ [][Next]_vars

(* The workers run, the event loop polls, and callbacks return. *)
FairSpec == Spec /\ WF_vars(WorkerNext) /\ WF_vars(Poll) /\ WF_vars(ProcEnd)

-----------------------------------------------------------------------------
(* Types; a request's priority needs no clamping in etp_submit.            *)
TypeOK ==
  /\ stage \in [Reqs -> {"free", "queued", "running", "done", "finishing", "lost"}]
  /\ pri \in [Reqs -> EIO_PRI_MIN..EIO_PRI_MAX]
  /\ next_priority \in EIO_PRI_MIN..EIO_PRI_MAX
  /\ result \in [Reqs -> {0, -1}] /\ errorno \in [Reqs -> Errnos \union {None}]
  /\ complete \subseteq Reqs /\ cancelled \subseteq Reqs
  /\ owner \in [Reqs -> Handles \union {None}] /\ ref \in [Handles -> Reqs \union {None}]
  /\ wreq \in [Workers -> Reqs \union {None}] /\ cur \in Reqs \union {None}
  /\ procs \subseteq Handles /\ roots \subseteq Handles /\ revoked \subseteq Handles

(* Each call ends as its own system call did: its Proc is called, with the *)
(* arguments it was checked for, only if that succeeded; the exception     *)
(* EIO.poll raises carries the errno of that call, whatever other requests *)
(* the worker executed before and left in errno (only open may raise after *)
(* a success, when it cannot seal the file); and nothing happens only to a *)
(* call whose own EIO::Request was told to cancel.                         *)
Ended(h) == fate[h] \notin {"none", "pending"}

OwnEnd ==
  \A h \in Handles : Ended(h) =>
     IF fate[h] = "dropped" THEN h \in revoked
     ELSE IF failed[h] # None THEN fate[h] = failed[h]
     ELSE fate[h] = "called" \/ (fate[h] = "unsealed" /\ method[h].seals)

(* The Proc of a call that has not ended exists, though the program may    *)
(* have dropped it and the EIO::Request: nothing but the request, which    *)
(* the GC does not see, refers to it.                                      *)
ProcKept == \A h \in Handles : fate[h] = "pending" => h \in procs

(* The requests of Ruby calls go through the stages of the service, also   *)
(* when exceptions abandon them in the middle of eio_poll: never called    *)
(* twice, never executed once seen cancelled.                              *)
Service == INSTANCE EioService WITH
  stage <- [r \in Reqs |-> IF stage[r] = "lost" THEN "free" ELSE stage[r]],
  cancelled <- {r \in cancelled : stage[r] \notin {"free", "lost"}}

CallsImplement == Service!Spec

(* Every asynchronous call ends, though failures and exceptions abandon    *)
(* eio_poll in between.                                                    *)
EveryCallEnds == \A h \in Handles : fate[h] = "pending" ~> Ended(h)

=============================================================================
