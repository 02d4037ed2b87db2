---------------------------- MODULE EioRuby_proofs ----------------------------
(***************************************************************************)
(* Proofs about EioRuby, for every number of calls, requests and workers,  *)
(* every method and errno: no call loses its Proc, and each ends as its    *)
(* own system call did - as long as the program uses no EIO::Request after *)
(* the end of its request (RubyStale shows what may happen if it does).    *)
(***************************************************************************)
EXTENDS EioRuby, TLAPS, FiniteSetTheorems

Fates ==
  {"none", "pending", "dropped", "called", "ArgumentError", "unsealed"} \union Errnos

(* The memory holds a request that eio_poll has not taken up yet. *)
Active(r) == stage[r] \in {"queued", "running", "done"}

Typed ==
  /\ TypeOK
  /\ method \in [Handles -> AllMethods] /\ fate \in [Handles -> Fates]
  /\ failed \in [Handles -> Errnos \union {None}]
  /\ errno \in [Workers -> Errnos \union {None}]

(* The calls are numbered as they are made. *)
Numbered == \E k \in Nat : {h \in Handles : fate[h] # "none"} = 1..k

(* A request belongs to one call, which has not ended.                     *)
Owning ==
  /\ \A r \in Reqs : Active(r) => owner[r] \in Handles /\ fate[owner[r]] = "pending"
  /\ \A r, s \in Reqs : Active(r) /\ Active(s) /\ owner[r] = owner[s] => r = s

Working ==
  /\ \A w \in Workers : wreq[w] # None => stage[wreq[w]] = "running"
  /\ \A v, w \in Workers : v # w /\ wreq[v] # None => wreq[v] # wreq[w]

Kept == \A h \in Handles : fate[h] = "pending" => h \in procs /\ h \in roots

(* What the fields of an executed request say of its system call.          *)
Recorded(r) ==
  LET e == failed[owner[r]]
  IN  IF e = None THEN result[r] = 0 ELSE result[r] = -1 /\ errorno[r] = e

Ran == \A r \in Reqs : stage[r] = "done" => r \in cancelled \/ Recorded(r)

(* The request whose callback runs is the only one, and that of a call     *)
(* which has ended.                                                        *)
Calling ==
  /\ cur # None => stage[cur] = "finishing" /\ owner[cur] \in Handles /\ Ended(owner[cur])
  /\ \A r \in Reqs : stage[r] = "finishing" => r = cur

(* True also of a program that uses an EIO::Request for too long.          *)
BaseInv == Typed /\ Numbered /\ Owning /\ Working /\ Kept /\ Ran /\ Calling

(* The EIO::Request of the call whose callback runs still points to it.    *)
Current == cur # None => ref[owner[cur]] \in {cur, None}

(* The EIO::Request of a call that has not ended points to its request.    *)
Referring ==
  \A h \in Handles : fate[h] = "pending" /\ ref[h] # None =>
     Active(ref[h]) /\ owner[ref[h]] = h

Revoking == \A r \in Reqs : Active(r) /\ r \in cancelled => owner[r] \in revoked

OwnInv == Current /\ Referring /\ Revoking /\ OwnEnd

-----------------------------------------------------------------------------
(* The methods check for as many arguments as their callbacks pass. *)
LEMMA Arity == \A m \in AllMethods : m.arity = m.passes /\ m.fails \in BOOLEAN
<1> DEFINE Fits(m) == m.arity = m.passes /\ m.fails \in BOOLEAN
<1>1. ASSUME NEW n, NEW f \in BOOLEAN PROVE Fits(Method(n, n, f))
  BY DEF Method
<1> HIDE DEF Fits
<1>2. /\ Fits(busy) /\ Fits(nop) /\ Fits(sync) /\ Fits(close) /\ Fits(fsync)
      /\ Fits(fdatasync) /\ Fits(readahead) /\ Fits(mkdir) /\ Fits(rmdir)
  BY <1>1 DEF busy, nop, sync, close, fsync, fdatasync, readahead, mkdir, rmdir, generic_cb
<1>3. /\ Fits(unlink) /\ Fits(rename) /\ Fits(chmod) /\ Fits(fchmod) /\ Fits(truncate)
      /\ Fits(ftruncate) /\ Fits(chown) /\ Fits(fchown) /\ Fits(link) /\ Fits(symlink)
  BY <1>1 DEF unlink, rename, chmod, fchmod, truncate, ftruncate, chown, fchown, link,
              symlink, generic_cb
<1>4. /\ Fits(open) /\ Fits(read) /\ Fits(write) /\ Fits(sendfile) /\ Fits(readdir)
      /\ Fits(readlink) /\ Fits(stat)
  <2>1. Fits(open)
    BY <1>1 DEF Fits, Method, open, open_cb
  <2> QED BY <1>1, <2>1 DEF read, write, sendfile, readdir, readlink, stat, read_cb,
                            readdir_cb, write_cb, stat_cb
<1>5. \A m \in AllMethods : Fits(m)
  BY <1>2, <1>3, <1>4 DEF AllMethods
<1> QED BY <1>5 DEF Fits

LEMMA NoneApart ==
  /\ None \notin Reqs /\ None \notin Handles /\ None \notin Errnos
  /\ \A e \in Errnos : e \notin {"none", "pending", "dropped", "called", "ArgumentError",
                           "unsealed"}
BY RubyAssumption

LEMMA NopKnown == nop \in AllMethods
BY DEF AllMethods

LEMMA InitBase == Init => BaseInv /\ OwnInv
<1> SUFFICES ASSUME Init PROVE BaseInv /\ OwnInv
  OBVIOUS
<1>1. Typed
  BY NopKnown DEF Init, Typed, TypeOK, Fates, EIO_PRI_MIN, EIO_PRI_MAX, EIO_PRI_DEFAULT
<1>2. Numbered
  <2>1. {h \in Handles : fate[h] # "none"} = 1..0
    BY DEF Init
  <2> QED BY <2>1 DEF Numbered
<1>3. Owning /\ Working /\ Kept /\ Ran /\ Calling
  BY DEF Init, Owning, Working, Kept, Ran, Calling, Active
<1>4. OwnInv
  BY DEF Init, OwnInv, Current, Referring, Revoking, OwnEnd, Ended, Active
<1> QED BY <1>1, <1>2, <1>3, <1>4 DEF BaseInv

(* The next call is one that was not made before, and the numbering goes   *)
(* on with it.                                                             *)
LEMMA NextCallFresh ==
  ASSUME Numbered, NextCall \in Handles
  PROVE  /\ fate[NextCall] = "none"
         /\ \E k \in Nat : {h \in Handles : fate[h] # "none"} \union {NextCall} = 1..k
<1>1. PICK k \in Nat : {h \in Handles : fate[h] # "none"} = 1..k
  BY DEF Numbered
<1>2. Cardinality(1..k) = k
  BY FS_Interval
<1>3. NextCall = k + 1
  BY <1>1, <1>2 DEF NextCall
<1>4. (1..k) \union {k + 1} = 1..k+1
  BY <1>1
<1>5. k + 1 \notin 1..k
  BY <1>1
<1> QED BY <1>1, <1>3, <1>4, <1>5

-----------------------------------------------------------------------------
(* Each action preserves the base invariant.                               *)
LEMMA AsynchronousBase ==
  ASSUME BaseInv, NEW m \in Methods, NEW given, NEW r \in Reqs,
         Asynchronous(m, given, NextCall, r)
  PROVE  BaseInv'
<1> DEFINE h == NextCall
<1>1. h \in Handles /\ fate[h] = "none"
  BY NextCallFresh DEF BaseInv, Asynchronous
<1>2. PICK k \in Nat : {g \in Handles : fate[g] # "none"} \union {h} = 1..k
  BY NextCallFresh, <1>1 DEF BaseInv
<1> HIDE DEF h
<1>3. /\ stage[r] = "free" /\ stage' = [stage EXCEPT ![r] = "queued"]
      /\ owner' = [owner EXCEPT ![r] = h] /\ ref' = [ref EXCEPT ![h] = r]
      /\ method' = [method EXCEPT ![h] = m] /\ fate' = [fate EXCEPT ![h] = "pending"]
      /\ procs' = procs \union {h} /\ roots' = roots \union {h}
      /\ pri' = [pri EXCEPT ![r] = next_priority] /\ next_priority' = EIO_PRI_DEFAULT
      /\ result' = [result EXCEPT ![r] = 0] /\ errorno' = [errorno EXCEPT ![r] = None]
      /\ complete' = complete \ {r} /\ cancelled' = cancelled \ {r}
      /\ UNCHANGED <<failed, revoked, wreq, errno, cur>>
  BY DEF Asynchronous, Fresh, Root, workers, h
<1>4. Typed'
  BY <1>1, <1>3, MethodsAssumption
     DEF BaseInv, Typed, TypeOK, Fates, EIO_PRI_MIN, EIO_PRI_MAX, EIO_PRI_DEFAULT
<1>5. Numbered'
  <2>1. {g \in Handles : fate'[g] # "none"} = {g \in Handles : fate[g] # "none"} \union {h}
    BY <1>1, <1>3 DEF BaseInv, Typed
  <2> QED BY <1>2, <2>1 DEF Numbered
<1>6. Owning'
  BY <1>1, <1>3 DEF BaseInv, Typed, TypeOK, Owning, Active
<1>7. Working'
  BY <1>3 DEF BaseInv, Typed, TypeOK, Working
<1>8. Kept'
  BY <1>1, <1>3 DEF BaseInv, Typed, TypeOK, Kept
<1>9. Ran'
  BY <1>3 DEF BaseInv, Typed, TypeOK, Ran, Recorded, Owning, Active
<1>10. Calling'
  BY <1>1, <1>3 DEF BaseInv, Typed, TypeOK, Calling, Ended
<1> QED BY <1>4, <1>5, <1>6, <1>7, <1>8, <1>9, <1>10 DEF BaseInv

LEMMA PriorityBase ==
  ASSUME BaseInv, Priority
  PROVE  BaseInv'
<1>1. UNCHANGED <<stage, fields, owner, calls, revoked, gc, workers, cur>>
  BY DEF Priority
<1>2. next_priority' \in EIO_PRI_MIN..EIO_PRI_MAX
  BY RubyAssumption DEF Priority, Clamp, EIO_PRI_MIN, EIO_PRI_MAX
<1>3. Typed'
  BY <1>1, <1>2 DEF BaseInv, Typed, TypeOK, Fates, fields, calls, gc, workers
<1> QED
  BY <1>1, <1>3 DEF BaseInv, Numbered, Owning, Active, Working, Kept, Ran, Recorded,
                    Calling, Ended, fields, calls, gc, workers

LEMMA CancelBase ==
  ASSUME BaseInv, NEW h \in Handles, Cancel(h)
  PROVE  BaseInv'
<1>1. /\ UNCHANGED <<stage, pri, result, errorno, complete, owner, method, fate, failed,
                     ref, procs, roots, wreq, errno, next_priority, cur>>
      /\ ref[h] \in Reqs
      /\ cancelled' = cancelled \union {ref[h]} /\ revoked' = revoked \union {h}
  BY DEF Cancel, GetRequest, calls, gc, workers, BaseInv, Typed, TypeOK
<1>2. Typed'
  BY <1>1 DEF BaseInv, Typed, TypeOK, Fates
<1> QED
  BY <1>1, <1>2 DEF BaseInv, Numbered, Owning, Active, Working, Kept, Ran, Recorded,
                    Calling, Ended

LEMMA CollectBase ==
  ASSUME BaseInv, NEW h \in Handles, Collect(h)
  PROVE  BaseInv'
<1>1. /\ UNCHANGED <<stage, pri, result, errorno, complete, cancelled, owner, method, fate,
                     failed, revoked, roots, wreq, errno, next_priority, cur>>
      /\ ref' = [ref EXCEPT ![h] = None] /\ procs' = procs \ ({h} \ roots)
  BY DEF Collect, fields, calls, workers
<1>2. Typed'
  BY <1>1 DEF BaseInv, Typed, TypeOK, Fates
<1> QED
  BY <1>1, <1>2 DEF BaseInv, Numbered, Owning, Active, Working, Kept, Ran, Recorded,
                    Calling, Ended

LEMMA BeginBase ==
  ASSUME BaseInv, NEW w \in Workers, NEW r \in Reqs, Begin(w, r)
  PROVE  BaseInv'
<1>1. /\ stage[r] = "queued" /\ wreq[w] = None
      /\ \/ r \in cancelled /\ stage' = [stage EXCEPT ![r] = "done"] /\ wreq' = wreq
         \/ stage' = [stage EXCEPT ![r] = "running"] /\ wreq' = [wreq EXCEPT ![w] = r]
      /\ UNCHANGED <<pri, result, errorno, complete, cancelled, owner, method, fate,
                     failed, revoked, ref, procs, roots, errno, next_priority, cur>>
  BY DEF Begin, EIO_CANCELLED, Skipped, fields, calls, gc
<1>2. Typed'
  BY <1>1 DEF BaseInv, Typed, TypeOK, Fates
<1>3. Owning'
  BY <1>1 DEF BaseInv, Typed, TypeOK, Owning, Active
<1>4. Working'
  BY <1>1, NoneApart DEF BaseInv, Typed, TypeOK, Working
<1>5. Ran'
  BY <1>1 DEF BaseInv, Typed, TypeOK, Ran, Recorded
<1>6. Calling'
  BY <1>1 DEF BaseInv, Typed, TypeOK, Calling, Ended
<1> QED
  BY <1>1, <1>2, <1>3, <1>4, <1>5, <1>6 DEF BaseInv, Numbered, Kept

LEMMA ExecuteBase ==
  ASSUME BaseInv, NEW w \in Workers, Execute(w)
  PROVE  BaseInv'
<1> DEFINE r == wreq[w]
           h == owner[r]
<1>1. r \in Reqs /\ stage[r] = "running" /\ h \in Handles /\ fate[h] = "pending"
  BY DEF Execute, BaseInv, Typed, TypeOK, Working, Owning, Active
<1>2. PICK e \in Errnos \union {None} :
        /\ failed' = [failed EXCEPT ![h] = e]
        /\ result' = [result EXCEPT ![r] = IF e = None THEN 0 ELSE -1]
        /\ errno' = [errno EXCEPT ![w] = IF e = None THEN errno[w] ELSE e]
  BY DEF Execute
<1>3. /\ errorno' = [errorno EXCEPT ![r] = errno'[w]]
      /\ stage' = [stage EXCEPT ![r] = "done"] /\ wreq' = [wreq EXCEPT ![w] = None]
      /\ UNCHANGED <<pri, complete, cancelled, owner, method, fate, revoked, ref, procs,
                     roots, next_priority, cur>>
  BY DEF Execute, gc
<1> HIDE DEF r, h
<1>4. Typed'
  BY <1>1, <1>2, <1>3 DEF BaseInv, Typed, TypeOK, Fates
<1>5. Owning'
  BY <1>1, <1>3 DEF BaseInv, Typed, TypeOK, Owning, Active
<1>6. Working'
  BY <1>1, <1>3 DEF BaseInv, Typed, TypeOK, Working, r
<1>7. Ran'
  <2> SUFFICES ASSUME NEW s \in Reqs, stage'[s] = "done" PROVE s \in cancelled' \/ Recorded(s)'
    BY DEF Ran
  <2>1. CASE s = r
    <3>1. failed'[h] = e /\ owner'[s] = h
      BY <2>1, <1>1, <1>2, <1>3 DEF BaseInv, Typed, h
    <3>2. IF e = None THEN result'[s] = 0 ELSE result'[s] = -1 /\ errorno'[s] = e
      BY <2>1, <1>1, <1>2, <1>3 DEF BaseInv, Typed, TypeOK
    <3> QED BY <3>1, <3>2 DEF Recorded
  <2>2. CASE s # r
    <3>1. stage[s] = "done" /\ owner'[s] = owner[s] /\ owner[s] # h
      BY <2>2, <1>1, <1>3 DEF BaseInv, Typed, TypeOK, Owning, Active, h
    <3>2. failed'[owner[s]] = failed[owner[s]] /\ result'[s] = result[s]
          /\ errorno'[s] = errorno[s]
      BY <2>2, <3>1, <1>1, <1>2, <1>3 DEF BaseInv, Typed, TypeOK, Owning, Active
    <3> QED BY <3>1, <3>2, <1>3 DEF BaseInv, Ran, Recorded
  <2> QED BY <2>1, <2>2
<1>8. Calling'
  BY <1>1, <1>3 DEF BaseInv, Typed, TypeOK, Calling, Ended
<1> QED
  BY <1>3, <1>4, <1>5, <1>6, <1>7, <1>8 DEF BaseInv, Numbered, Kept

(* What eio_poll finds in a request that was not cancelled: how its call   *)
(* is to end.                                                              *)
Right(h, how) ==
  IF failed[h] # None THEN how = failed[h]
  ELSE how = "called" \/ (how = "unsealed" /\ method[h].seals)

LEMMA PollCallEnd ==
  ASSUME BaseInv, NEW r \in Reqs, PollCall(r)
  PROVE  \E how \in Fates \ {"none", "pending"} :
           /\ Right(owner[r], how)
           /\ fate' = [fate EXCEPT ![owner[r]] = how]
<1> DEFINE h == owner[r]
           e == failed[h]
<1>1. stage[r] = "done" /\ r \notin cancelled /\ h \in Handles /\ e \in Errnos \union {None}
  BY DEF PollCall, EIO_CANCELLED, BaseInv, Typed, Owning, Active
<1>2. IF e = None THEN result[r] = 0 ELSE result[r] = -1 /\ errorno[r] = e
  BY <1>1 DEF BaseInv, Ran, Recorded
<1>3. method[h].arity = method[h].passes
  BY <1>1, Arity DEF BaseInv, Typed
<1>4. PICK how \in IF Failed(r) THEN {errorno[r]} ELSE Outcomes(method[h]) :
        fate' = [fate EXCEPT ![h] = how]
  BY DEF PollCall, End
<1>5. CASE e = None
  <2>1. ~Failed(r)
    BY <1>2, <1>5, 0 # -1 DEF Failed
  <2>2. how = "called" \/ (how = "unsealed" /\ method[h].seals)
    BY <1>3, <1>4, <2>1 DEF Outcomes
  <2>3. how \in Fates \ {"none", "pending"} /\ Right(h, how)
    BY <1>5, <2>2 DEF Fates, Right
  <2> QED BY <1>4, <2>3
<1>6. CASE e # None
  <2>1. how = e
    BY <1>2, <1>4, <1>6 DEF Failed
  <2> QED BY <1>1, <1>4, <1>6, <2>1, NoneApart DEF Fates, Right
<1> QED BY <1>5, <1>6

(* Whichever way eio_poll takes it, a finished request's call ends.        *)
Polled(r, how, stop) ==
  /\ stage[r] = "done"
  /\ stage' = [stage EXCEPT ![r] = stop]
  /\ fate' = [fate EXCEPT ![owner[r]] = how]
  /\ cur = None /\ complete' \subseteq Reqs
  /\ cur' = IF stop = "finishing" THEN r ELSE None
  /\ UNCHANGED <<pri, result, errorno, cancelled, owner, method, failed, revoked, gc,
                 workers, next_priority>>

LEMMA PolledBase ==
  ASSUME BaseInv, NEW r \in Reqs, NEW how \in Fates \ {"none", "pending"},
         NEW stop \in {"free", "finishing"}, Polled(r, how, stop)
  PROVE  BaseInv'
<1>1. /\ stage[r] = "done" /\ stage' = [stage EXCEPT ![r] = stop]
      /\ fate' = [fate EXCEPT ![owner[r]] = how]
      /\ cur = None /\ cur' = (IF stop = "finishing" THEN r ELSE None)
      /\ complete' \subseteq Reqs
      /\ UNCHANGED <<pri, result, errorno, cancelled, owner, method, failed, revoked, ref,
                     procs, roots, wreq, errno, next_priority>>
  BY DEF Polled, gc, workers
<1>2. owner[r] \in Handles /\ fate[owner[r]] = "pending"
  BY <1>1 DEF BaseInv, Owning, Active
<1>3. Typed'
  BY <1>1 DEF BaseInv, Typed, TypeOK
<1>4. Numbered'
  <2>1. {h \in Handles : fate'[h] # "none"} = {h \in Handles : fate[h] # "none"}
    BY <1>1, <1>2 DEF BaseInv, Typed
  <2> QED BY <2>1 DEF BaseInv, Numbered
<1>5. Owning'
  BY <1>1, <1>2 DEF BaseInv, Typed, TypeOK, Owning, Active
<1>6. Working' /\ Kept' /\ Ran'
  BY <1>1, <1>2 DEF BaseInv, Typed, TypeOK, Working, Kept, Ran, Recorded
<1>7. Calling'
  <2>1. \A s \in Reqs : stage[s] # "finishing"
    BY <1>1, NoneApart DEF BaseInv, Calling
  <2>2. \A s \in Reqs : stage'[s] = "finishing" => s = r /\ stop = "finishing"
    BY <1>1, <2>1 DEF BaseInv, Typed, TypeOK
  <2>3. stop = "finishing" => stage'[r] = "finishing" /\ fate'[owner[r]] = how
    BY <1>1, <1>2 DEF BaseInv, Typed, TypeOK
  <2> QED BY <1>1, <1>2, <2>2, <2>3 DEF Calling, Ended
<1> QED BY <1>3, <1>4, <1>5, <1>6, <1>7 DEF BaseInv

LEMMA PollBase ==
  ASSUME BaseInv, NEW r \in Reqs, PollCancelled(r) \/ PollCall(r)
  PROVE  BaseInv'
<1>1. CASE PollCancelled(r)
  <2>1. Polled(r, "dropped", "free")
    BY <1>1 DEF PollCancelled, Polled, End, fields, BaseInv, Typed, TypeOK
  <2>2. "dropped" \in Fates \ {"none", "pending"}
    BY DEF Fates
  <2> QED BY <2>1, <2>2, PolledBase
<1>2. CASE PollCall(r)
  <2>1. PICK how \in Fates \ {"none", "pending"} :
          fate' = [fate EXCEPT ![owner[r]] = how]
    BY <1>2, PollCallEnd
  <2>2. Polled(r, how, "finishing")
    BY <1>2, <2>1 DEF PollCall, Polled, BaseInv, Typed, TypeOK
  <2> QED BY <2>2, PolledBase
<1> QED BY <1>1, <1>2

(* The end of a callback, by its return or by an exception. *)
LEMMA ProcEndBase ==
  ASSUME BaseInv, ProcEnd
  PROVE  BaseInv'
<1>1. /\ cur \in Reqs /\ stage[cur] = "finishing" /\ cur' = None
      /\ complete' \subseteq Reqs
      /\ UNCHANGED <<pri, result, errorno, cancelled, owner, method, fate, failed, revoked,
                     ref, procs, roots, wreq, errno, next_priority>>
  BY DEF ProcEnd, ProcReturn, ProcRuns, Raise, fields, calls, gc, workers, BaseInv, Typed,
         TypeOK, Calling
<1>2. PICK stop \in {"free", "lost"} : stage' = [stage EXCEPT ![cur] = stop]
  BY DEF ProcEnd, ProcReturn, Raise
<1>3. Typed'
  BY <1>1, <1>2 DEF BaseInv, Typed, TypeOK, Fates
<1>4. Owning'
  BY <1>1, <1>2 DEF BaseInv, Typed, TypeOK, Owning, Active
<1>5. Working' /\ Ran'
  BY <1>1, <1>2 DEF BaseInv, Typed, TypeOK, Working, Ran, Recorded
<1>6. Calling'
  BY <1>1, <1>2 DEF BaseInv, Typed, TypeOK, Calling
<1> QED BY <1>1, <1>3, <1>4, <1>5, <1>6 DEF BaseInv, Numbered, Kept

LEMMA StutterBase ==
  ASSUME BaseInv, UNCHANGED vars
  PROVE  BaseInv'
BY DEF vars, fields, calls, gc, workers, BaseInv, Typed, TypeOK, Fates, Numbered, Owning,
       Active, Working, Kept, Ran, Recorded, Calling, Ended

(* The steps a client can take: of those of the other methods none changes *)
(* anything.                                                               *)
LEMMA ClientSteps ==
  ASSUME ClientCall
  PROVE  \/ Priority \/ UNCHANGED vars
         \/ \E m \in Methods, given \in Given, r \in Reqs : Asynchronous(m, given, NextCall, r)
         \/ \E h \in Handles : Cancel(h) \/ Collect(h)
BY DEF ClientCall, Reject, Synchronous, WrongThread

THEOREM BaseKept == Spec => []BaseInv
<1>1. Init => BaseInv
  BY InitBase
<1>2. ASSUME BaseInv, [Next]_vars PROVE BaseInv'
  <2>1. CASE UNCHANGED vars
    BY <2>1, <1>2, StutterBase
  <2>2. CASE ClientCall
    BY <2>2, <1>2, ClientSteps, StutterBase, PriorityBase, AsynchronousBase, CancelBase,
       CollectBase
  <2>3. CASE WorkerNext
    BY <2>3, <1>2, BeginBase, ExecuteBase DEF WorkerNext
  <2>4. CASE Poll
    BY <2>4, <1>2, PollBase DEF Poll
  <2>5. CASE ProcEnd
    BY <2>5, <1>2, ProcEndBase
  <2> QED BY <1>2, <2>1, <2>2, <2>3, <2>4, <2>5 DEF Next
<1> QED BY <1>1, <1>2, PTL DEF Spec

(* TypeOK, for any number of calls and whatever the program does with its  *)
(* EIO::Requests: in particular no priority needs clamping in etp_submit.  *)
THEOREM TypesKept == Spec => []TypeOK
<1>1. BaseInv => TypeOK
  BY DEF BaseInv, Typed
<1> QED BY <1>1, BaseKept, PTL

(* ProcKept: DONT_GC in SetupAsyncRequest keeps the Proc of every call     *)
(* that has not ended, even of a program that uses stale EIO::Requests.    *)
THEOREM ProcsKept == Spec => []ProcKept
<1>1. BaseInv => ProcKept
  BY DEF BaseInv, Kept, ProcKept
<1> QED BY <1>1, BaseKept, PTL

-----------------------------------------------------------------------------
(* A program that uses each EIO::Request only while its request lives.     *)
LEMMA AsynchronousOwn ==
  ASSUME BaseInv, OwnInv, NEW m \in Methods, NEW given, NEW r \in Reqs,
         Asynchronous(m, given, NextCall, r)
  PROVE  OwnInv'
<1> DEFINE h == NextCall
<1>1. h \in Handles /\ fate[h] = "none"
  BY NextCallFresh DEF BaseInv, Asynchronous
<1> HIDE DEF h
<1>2. /\ stage[r] = "free" /\ stage' = [stage EXCEPT ![r] = "queued"]
      /\ owner' = [owner EXCEPT ![r] = h] /\ ref' = [ref EXCEPT ![h] = r]
      /\ fate' = [fate EXCEPT ![h] = "pending"] /\ method' = [method EXCEPT ![h] = m]
      /\ cancelled' = cancelled \ {r}
      /\ UNCHANGED <<failed, revoked, cur>>
  BY DEF Asynchronous, Fresh, h
<1>3. Current'
  BY <1>1, <1>2 DEF BaseInv, Typed, TypeOK, Calling, Ended, OwnInv, Current
<1>4. Referring'
  BY <1>1, <1>2, NoneApart DEF BaseInv, Typed, TypeOK, OwnInv, Referring, Active
<1>5. Revoking'
  BY <1>1, <1>2 DEF BaseInv, Typed, TypeOK, OwnInv, Revoking, Active
<1>6. OwnEnd'
  BY <1>1, <1>2 DEF BaseInv, Typed, TypeOK, OwnInv, OwnEnd, Ended
<1> QED BY <1>3, <1>4, <1>5, <1>6 DEF OwnInv

(* Cancel sets EIO_FLAG_CANCELLED of the EIO::Request's own request.       *)
LEMMA CancelOwn ==
  ASSUME StaleUse = FALSE, BaseInv, OwnInv, NEW h \in Handles, Cancel(h)
  PROVE  OwnInv'
<1>1. /\ UNCHANGED <<stage, owner, method, fate, failed, ref, cur>>
      /\ ref[h] \in Reqs /\ Own(h)
      /\ cancelled' = cancelled \union {ref[h]} /\ revoked' = revoked \union {h}
  BY DEF Cancel, GetRequest, calls, gc, workers, BaseInv, Typed, TypeOK
<1>2. Active(ref[h]) => owner[ref[h]] = h
  <2>1. CASE fate[h] = "pending"
    BY <1>1, <2>1, NoneApart DEF OwnInv, Referring
  <2>2. CASE cur # None /\ owner[cur] = h
    BY <1>1, <2>2, NoneApart DEF BaseInv, Calling, OwnInv, Current, Active
  <2> QED BY <1>1, <2>1, <2>2 DEF Own
<1>3. Revoking'
  BY <1>1, <1>2 DEF OwnInv, Revoking, Active
<1> QED BY <1>1, <1>3 DEF OwnInv, Current, Referring, Active, OwnEnd, Ended

LEMMA CollectOwn ==
  ASSUME BaseInv, OwnInv, NEW h \in Handles, Collect(h)
  PROVE  OwnInv'
<1>1. /\ UNCHANGED <<stage, cancelled, owner, method, fate, failed, revoked, cur>>
      /\ ref' = [ref EXCEPT ![h] = None]
  BY DEF Collect, fields, calls
<1> QED
  BY <1>1 DEF BaseInv, Typed, TypeOK, Calling, OwnInv, Current, Referring, Revoking, Active,
              OwnEnd, Ended

LEMMA BeginOwn ==
  ASSUME BaseInv, OwnInv, NEW w \in Workers, NEW r \in Reqs, Begin(w, r)
  PROVE  OwnInv'
<1>1. /\ stage[r] = "queued"
      /\ UNCHANGED <<cancelled, owner, method, fate, failed, revoked, ref, cur>>
      /\ \E s \in {"running", "done"} : stage' = [stage EXCEPT ![r] = s]
  BY DEF Begin, Skipped, fields, calls, gc
<1>2. \A s \in Reqs : Active(s)' <=> Active(s)
  BY <1>1 DEF BaseInv, Typed, TypeOK, Active
<1> QED
  BY <1>1, <1>2 DEF BaseInv, Typed, TypeOK, OwnInv, Current, Referring, Revoking, OwnEnd,
                    Ended

LEMMA ExecuteOwn ==
  ASSUME BaseInv, OwnInv, NEW w \in Workers, Execute(w)
  PROVE  OwnInv'
<1> DEFINE r == wreq[w]
           h == owner[r]
<1>1. r \in Reqs /\ stage[r] = "running" /\ h \in Handles /\ fate[h] = "pending"
  BY DEF Execute, BaseInv, Typed, TypeOK, Working, Owning, Active
<1>2. /\ UNCHANGED <<cancelled, owner, method, fate, revoked, ref, cur>>
      /\ stage' = [stage EXCEPT ![r] = "done"]
      /\ \E e \in Errnos \union {None} : failed' = [failed EXCEPT ![h] = e]
  BY DEF Execute, gc
<1> HIDE DEF r, h
<1>3. \A s \in Reqs : Active(s)' <=> Active(s)
  BY <1>1, <1>2 DEF BaseInv, Typed, TypeOK, Active
<1>4. OwnEnd'
  BY <1>1, <1>2 DEF BaseInv, Typed, TypeOK, OwnInv, OwnEnd, Ended
<1> QED
  BY <1>2, <1>3, <1>4 DEF BaseInv, Typed, TypeOK, OwnInv, Current, Referring, Revoking

(* A polled request's call ends as it should, whatever stopped it.         *)
LEMMA PolledOwn ==
  ASSUME BaseInv, OwnInv, NEW r \in Reqs, NEW how \in Fates \ {"none", "pending"},
         NEW stop \in {"free", "finishing"}, Polled(r, how, stop),
         IF how = "dropped" THEN owner[r] \in revoked ELSE Right(owner[r], how)
  PROVE  OwnInv'
<1>1. /\ stage[r] = "done" /\ stage' = [stage EXCEPT ![r] = stop]
      /\ fate' = [fate EXCEPT ![owner[r]] = how]
      /\ cur = None /\ cur' = IF stop = "finishing" THEN r ELSE None
      /\ UNCHANGED <<cancelled, owner, method, failed, revoked, ref>>
  BY DEF Polled, gc
<1>2. owner[r] \in Handles /\ fate[owner[r]] = "pending"
  BY <1>1 DEF BaseInv, Owning, Active
<1>3. Current'
  BY <1>1, <1>2 DEF BaseInv, Owning, OwnInv, Current, Referring, Active, Typed, TypeOK
<1>4. Referring'
  BY <1>1, <1>2 DEF BaseInv, Typed, TypeOK, OwnInv, Referring, Active
<1>5. Revoking'
  BY <1>1 DEF BaseInv, Typed, TypeOK, OwnInv, Revoking, Active
<1>6. OwnEnd'
  BY <1>1, <1>2 DEF BaseInv, Typed, TypeOK, OwnInv, OwnEnd, Ended, Right
<1> QED BY <1>3, <1>4, <1>5, <1>6 DEF OwnInv

LEMMA PollOwn ==
  ASSUME BaseInv, OwnInv, NEW r \in Reqs, PollCancelled(r) \/ PollCall(r)
  PROVE  OwnInv'
<1>1. CASE PollCancelled(r)
  <2>1. Polled(r, "dropped", "free")
    BY <1>1 DEF PollCancelled, Polled, End, fields, BaseInv, Typed, TypeOK
  <2>2. "dropped" \in Fates \ {"none", "pending"}
    BY DEF Fates
  <2>3. owner[r] \in revoked
    BY <1>1 DEF PollCancelled, EIO_CANCELLED, OwnInv, Revoking, Active
  <2> QED BY <2>1, <2>2, <2>3, PolledOwn
<1>2. CASE PollCall(r)
  <2>1. PICK how \in Fates \ {"none", "pending"} :
          Right(owner[r], how) /\ fate' = [fate EXCEPT ![owner[r]] = how]
    BY <1>2, PollCallEnd
  <2>2. Polled(r, how, "finishing")
    BY <1>2, <2>1 DEF PollCall, Polled, BaseInv, Typed, TypeOK
  <2>3. how # "dropped"
    <3>1. owner[r] \in Handles
      BY <1>2 DEF PollCall, BaseInv, Owning, Active
    <3> QED BY <2>1, <3>1, NoneApart DEF Right, BaseInv, Typed
  <2> QED BY <2>1, <2>2, <2>3, PolledOwn
<1> QED BY <1>1, <1>2

LEMMA ProcEndOwn ==
  ASSUME BaseInv, OwnInv, ProcEnd
  PROVE  OwnInv'
<1>1. /\ cur \in Reqs /\ stage[cur] = "finishing" /\ cur' = None
      /\ UNCHANGED <<cancelled, owner, method, fate, failed, revoked, ref>>
  BY DEF ProcEnd, ProcReturn, ProcRuns, Raise, fields, calls, gc, BaseInv, Typed, TypeOK,
         Calling
<1>2. \E stop \in {"free", "lost"} : stage' = [stage EXCEPT ![cur] = stop]
  BY DEF ProcEnd, ProcReturn, Raise
<1>3. \A s \in Reqs : Active(s)' <=> Active(s)
  BY <1>1, <1>2 DEF BaseInv, Typed, TypeOK, Active
<1> QED
  BY <1>1, <1>3 DEF BaseInv, Typed, TypeOK, OwnInv, Current, Referring, Revoking, OwnEnd,
                    Ended

LEMMA UnchangedOwn ==
  ASSUME OwnInv, UNCHANGED vars \/ Priority
  PROVE  OwnInv'
BY DEF Priority, vars, fields, calls, gc, OwnInv, Current, Referring, Revoking, Active,
       OwnEnd, Ended

(* OwnEnd, in every program that uses no EIO::Request after the end of its *)
(* request: each call ends as its own system call did, for any number of   *)
(* calls, workers and errnos.                                              *)
THEOREM OwnEnds == ASSUME StaleUse = FALSE PROVE Spec => []OwnEnd
<1>1. Init => OwnInv
  BY InitBase
<1>2. ASSUME BaseInv, OwnInv, [Next]_vars PROVE OwnInv'
  <2>1. CASE UNCHANGED vars
    BY <2>1, <1>2, UnchangedOwn
  <2>2. CASE ClientCall
    BY <2>2, <1>2, ClientSteps, UnchangedOwn, AsynchronousOwn, CancelOwn, CollectOwn
  <2>3. CASE WorkerNext
    BY <2>3, <1>2, BeginOwn, ExecuteOwn DEF WorkerNext
  <2>4. CASE Poll
    BY <2>4, <1>2, PollOwn DEF Poll
  <2>5. CASE ProcEnd
    BY <2>5, <1>2, ProcEndOwn
  <2> QED BY <1>2, <2>1, <2>2, <2>3, <2>4, <2>5 DEF Next
<1>3. OwnInv => OwnEnd
  BY DEF OwnInv
<1> QED BY <1>1, <1>2, <1>3, BaseKept, PTL DEF Spec

-----------------------------------------------------------------------------
(* The refinement of EioService                                            *)
AsSeen(st) == IF st = "lost" THEN "free" ELSE st
seen == [r \in Reqs |-> IF stage[r] = "lost" THEN "free" ELSE stage[r]]
revocable == {r \in cancelled : stage[r] \notin {"free", "lost"}}

LEMMA SeenMoves ==
  ASSUME TypeOK, NEW r \in Reqs, NEW to, stage' = [stage EXCEPT ![r] = to]
  PROVE  Service!Move(r, AsSeen(stage[r]), AsSeen(to))
<1>1. seen[r] = AsSeen(stage[r])
  BY DEF seen, AsSeen
<1>2. seen' = [seen EXCEPT ![r] = AsSeen(to)]
  BY DEF TypeOK, seen, AsSeen
<1> QED BY <1>1, <1>2 DEF Service!Move, seen

(* A request that stays alive stays revocable or not. *)
LEMMA RevocableStays ==
  ASSUME TypeOK, NEW r \in Reqs, NEW to, stage' = [stage EXCEPT ![r] = to],
         cancelled' = cancelled, stage[r] \notin {"free", "lost"}, to \notin {"free", "lost"}
  PROVE  revocable' = revocable
BY DEF TypeOK, revocable

LEMMA RevocableGoes ==
  ASSUME TypeOK, NEW r \in Reqs, NEW to \in {"free", "lost"},
         stage' = [stage EXCEPT ![r] = to], cancelled' = cancelled
  PROVE  revocable' = revocable \ {r}
BY DEF TypeOK, revocable

Seen == Service!Next \/ UNCHANGED <<seen, revocable>>

LEMMA Unseen ==
  ASSUME stage' = stage, cancelled' = cancelled
  PROVE  Seen
BY DEF Seen, seen, revocable

LEMMA ClientSeen ==
  ASSUME BaseInv, ClientCall
  PROVE  Seen
<1>1. CASE Priority \/ UNCHANGED vars \/ \E h \in Handles : Collect(h)
  BY <1>1, Unseen DEF Priority, Collect, vars, fields
<1>2. ASSUME NEW m \in Methods, NEW given \in Given, NEW r \in Reqs,
             Asynchronous(m, given, NextCall, r)
      PROVE  Seen
  <2>1. stage[r] = "free" /\ stage' = [stage EXCEPT ![r] = "queued"]
        /\ cancelled' = cancelled \ {r}
    BY <1>2 DEF Asynchronous, Fresh
  <2>2. Service!Move(r, "free", "queued")
    BY <2>1, SeenMoves DEF BaseInv, Typed, AsSeen
  <2>3. revocable' = revocable
    BY <2>1 DEF BaseInv, Typed, TypeOK, revocable
  <2>4. Service!Submit(r)
    BY <2>2, <2>3 DEF Service!Submit, revocable
  <2> QED BY <2>4 DEF Seen, Service!Next
<1>3. ASSUME NEW h \in Handles, Cancel(h) PROVE Seen
  <2>1. PICK r \in Reqs : stage' = stage /\ cancelled' = cancelled \union {r}
    BY <1>3 DEF Cancel, GetRequest, BaseInv, Typed, TypeOK
  <2>2. seen' = seen
    BY <2>1 DEF seen
  <2>3. CASE stage[r] \in {"free", "lost"}
    <3>1. revocable' = revocable
      BY <2>1, <2>3 DEF revocable
    <3> QED BY <2>2, <3>1 DEF Seen
  <2>4. CASE stage[r] \notin {"free", "lost"}
    <3>1. revocable' = revocable \union {r}
      BY <2>1, <2>4 DEF revocable
    <3>2. seen[r] # "free"
      BY <2>1, <2>4 DEF seen
    <3>3. Service!Cancel(r)
      BY <2>2, <3>1, <3>2 DEF Service!Cancel, seen, revocable
    <3> QED BY <2>1, <3>3 DEF Seen, Service!Next
  <2> QED BY <2>3, <2>4
<1> QED BY <1>1, <1>2, <1>3, ClientSteps

LEMMA BeginSeen ==
  ASSUME BaseInv, NEW w \in Workers, NEW r \in Reqs, Begin(w, r)
  PROVE  Seen
<1>1. stage[r] = "queued" /\ cancelled' = cancelled
  BY DEF Begin, fields
<1>2. r \in revocable <=> r \in cancelled
  BY <1>1 DEF revocable
<1>3. CASE r \in cancelled /\ stage' = [stage EXCEPT ![r] = "done"]
  <2>1. Service!Move(r, "queued", "done") /\ revocable' = revocable
    BY <1>1, <1>3, SeenMoves, RevocableStays DEF BaseInv, Typed, AsSeen
  <2>2. Service!Skip(r)
    BY <1>2, <1>3, <2>1 DEF Service!Skip, revocable
  <2> QED BY <2>2 DEF Seen, Service!Next
<1>4. CASE r \notin cancelled /\ stage' = [stage EXCEPT ![r] = "running"]
  <2>1. Service!Move(r, "queued", "running") /\ revocable' = revocable
    BY <1>1, <1>4, SeenMoves, RevocableStays DEF BaseInv, Typed, AsSeen
  <2>2. Service!Execute(r)
    BY <1>2, <1>4, <2>1 DEF Service!Execute, revocable
  <2> QED BY <2>2 DEF Seen, Service!Next
<1> QED BY <1>3, <1>4 DEF Begin, EIO_CANCELLED, Skipped

LEMMA ExecuteSeen ==
  ASSUME BaseInv, NEW w \in Workers, Execute(w)
  PROVE  Seen
<1>1. PICK r \in Reqs : stage[r] = "running" /\ stage' = [stage EXCEPT ![r] = "done"]
                       /\ cancelled' = cancelled
  BY DEF Execute, BaseInv, Typed, TypeOK, Working
<1>2. Service!Move(r, "running", "done") /\ revocable' = revocable
  BY <1>1, SeenMoves, RevocableStays DEF BaseInv, Typed, AsSeen
<1>3. Service!Complete(r)
  BY <1>2 DEF Service!Complete, revocable
<1> QED BY <1>3 DEF Seen, Service!Next

LEMMA PollSeen ==
  ASSUME BaseInv, NEW r \in Reqs, PollCancelled(r) \/ PollCall(r)
  PROVE  Seen
<1>1. stage[r] = "done" /\ cur = None /\ cancelled' = cancelled
  BY DEF PollCancelled, PollCall, fields
<1>2. r \in revocable <=> r \in cancelled
  BY <1>1 DEF revocable
<1>3. CASE PollCancelled(r)
  <2>1. r \in cancelled /\ stage' = [stage EXCEPT ![r] = "free"]
    BY <1>3 DEF PollCancelled, EIO_CANCELLED
  <2>2. Service!Move(r, "done", "free") /\ revocable' = revocable \ {r}
    BY <1>1, <2>1, SeenMoves, RevocableGoes DEF BaseInv, Typed, AsSeen
  <2>3. Service!Destroy(r)
    BY <1>2, <2>1, <2>2 DEF Service!Destroy, revocable
  <2> QED BY <2>3 DEF Seen, Service!Next
<1>4. CASE PollCall(r)
  <2>1. r \notin cancelled /\ stage' = [stage EXCEPT ![r] = "finishing"]
    BY <1>4 DEF PollCall, EIO_CANCELLED
  <2>2. Service!Move(r, "done", "finishing") /\ revocable' = revocable
    BY <1>1, <2>1, SeenMoves, RevocableStays DEF BaseInv, Typed, AsSeen
  <2>3. \A s \in Reqs : seen[s] # "finishing"
    BY <1>1, NoneApart DEF BaseInv, Calling, seen
  <2>4. Service!Finish(r)
    BY <1>2, <2>1, <2>2, <2>3 DEF Service!Finish, seen, revocable
  <2> QED BY <2>4 DEF Seen, Service!Next
<1> QED BY <1>3, <1>4

LEMMA ProcEndSeen ==
  ASSUME BaseInv, ProcEnd
  PROVE  Seen
<1>1. PICK r \in Reqs :
        /\ stage[r] = "finishing" /\ cancelled' = cancelled
        /\ \E stop \in {"free", "lost"} : stage' = [stage EXCEPT ![r] = stop]
  BY DEF ProcEnd, ProcReturn, ProcRuns, Raise, fields, BaseInv, Typed, TypeOK, Calling
<1>2. Service!Move(r, "finishing", "free") /\ revocable' = revocable \ {r}
  BY <1>1, SeenMoves, RevocableGoes DEF BaseInv, Typed, AsSeen
<1>3. Service!Destroy(r)
  BY <1>2 DEF Service!Destroy, revocable
<1> QED BY <1>3 DEF Seen, Service!Next

(* CallsImplement: the requests of Ruby calls go through the stages of     *)
(* EioService - one execution, one callback at a time, none of a cancelled *)
(* request - though exceptions abandon them and memory is given out again. *)
THEOREM RubyRefines == Spec => CallsImplement
<1>1. Init => Service!Init
  BY DEF Init, Service!Init
<1>2. BaseInv /\ [Next]_vars => [Service!Next]_(Service!vars)
  <2> SUFFICES ASSUME BaseInv, [Next]_vars PROVE Seen
    BY DEF Seen, seen, revocable, Service!vars
  <2>1. CASE UNCHANGED vars
    BY <2>1, Unseen DEF vars, fields
  <2>2. CASE ClientCall
    BY <2>2, ClientSeen
  <2>3. CASE WorkerNext
    BY <2>3, BeginSeen, ExecuteSeen DEF WorkerNext
  <2>4. CASE Poll
    BY <2>4, PollSeen DEF Poll
  <2>5. CASE ProcEnd
    BY <2>5, ProcEndSeen
  <2> QED BY <2>1, <2>2, <2>3, <2>4, <2>5 DEF Next
<1> QED BY <1>1, <1>2, BaseKept, PTL DEF Spec, CallsImplement, Service!Spec

=============================================================================
