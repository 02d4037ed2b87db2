------------------------------ MODULE EioStat ------------------------------
(***************************************************************************)
(* EIO.stat of ext/eio/eio_ext.c: its finish callback makes a File::Stat   *)
(* of the buffer eio_execute has allocated (EioStat), and hands it to the  *)
(* program, which may keep it as long as it likes.                         *)
(***************************************************************************)
EXTENDS EioExecute

VARIABLE stat      \* the File::Stat: none yet, in use, or collected

statvars == <<vars, stat>>

StatInit == Init /\ stat = "none"

(* rb_eio_stat_cb, the finish callback.  For a request that failed it      *)
(* raises instead, and eio_destroy is never reached.                       *)
StatCallback ==
  /\ pc = "finishing" /\ stat = "none"
  /\ result # -1
  /\ stat' = "live"
  /\ UNCHANGED vars

Returned == pc = "posted" \/ stat # "none"

(* The garbage collector frees a File::Stat that nothing refers to, and    *)
(* with it the buffer (RUBY_TYPED_DEFAULT_FREE).                           *)
CollectStat ==
  /\ stat = "live"
  /\ stat' = "collected"
  /\ heap' = heap \ {Buffer}
  /\ UNCHANGED <<sortvars, pc, dir, flags, result, ptr1, ptr2, free1, free2, locals,
                 opened, cancelled, type, arg, transfer, dbuf, reg>>

StatNext ==
  \/ (Make \/ Cancel \/ WorkerNext \/ Finish \/ (Returned /\ Destroy) \/ ForkChild) /\ UNCHANGED stat
  \/ StatCallback \/ CollectStat

StatSpec == StatInit /\ [][StatNext]_statvars

-----------------------------------------------------------------------------
(* The File::Stat is one like Ruby's own ("Works like Ruby's stat",        *)
(* eio_ext.c): as long as the program has it, its memory is allocated.     *)
StatLives == stat = "live" => Buffer \in heap

=============================================================================
