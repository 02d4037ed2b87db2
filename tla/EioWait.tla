------------------------------ MODULE EioWait ------------------------------
(***************************************************************************)
(* The Ruby side of the pool in ext/eio/eio_ext.c: EIO.wait, which blocks  *)
(* its caller in select on the pipe until every request is finished, and   *)
(* the exceptions that leave eio_poll from a finish callback.  EIO.wait is *)
(* called by the main program, not from a callback.                        *)
(***************************************************************************)
EXTENDS EtpPool

(* rb_eio_s_wait is entered. *)
WaitCall ==
  /\ pc = "idle"
  /\ pc' = "wait"
  /\ UNCHANGED <<queues, counters, pool, settings, pipe, threads, ret, caller,
                 maxreqs, cur, seen, pollres, requests>>

eio_nreqs_pending == npending                       \* mutant of eio_nreqs
eio_nreqs == nreqs

(* while (eio_nreqs ()), in rb_eio_s_wait and again in rb_eio_s_wait0.     *)
Wait ==
  /\ pc = "wait"
  /\ pc' = IF eio_nreqs = 0 THEN "idle" ELSE "w_size"
  /\ UNCHANGED <<queues, counters, pool, settings, pipe, threads, ret, caller,
                 maxreqs, cur, seen, pollres, requests>>

(* rb_eio_s_wait0 looks at res_queue.size under reslock: it returns, for   *)
(* eio_poll to be called, or goes to sleep by way of                       *)
(* etp_maybe_start_thread.                                                 *)
WaitSize ==
  \/ /\ pc = "w_size" /\ res_queue.size > 0
     /\ maxreqs' = max_poll_reqs /\ pollres' = 0
     /\ pc' = "ms_wanted" /\ ret' = "poll_shift" /\ caller' = "wait"
     /\ UNCHANGED <<queues, counters, pool, settings, pipe, threads, cur, seen, requests>>
  \/ /\ pc = "w_size" /\ res_queue.size = 0
     /\ pc' = "ms_wanted" /\ ret' = "w_select"
     /\ UNCHANGED <<queues, counters, pool, settings, pipe, threads, caller,
                    maxreqs, cur, seen, pollres, requests>>

(* rb_thread_select returns once the pipe is readable; nreqs, which only   *)
(* this thread changes, is still not 0.                                    *)
WaitSelect ==
  /\ pc = "w_select"
  /\ pipe > 0
  /\ pc' = "w_size"
  /\ UNCHANGED <<queues, counters, pool, settings, pipe, threads, ret, caller,
                 maxreqs, cur, seen, pollres, requests>>

(* rb_thread_select is interrupted by an exception, such as Timeout's      *)
(* (test_eio.rb, test_busy): it leaves EIO.wait, and its requests behind.  *)
WaitInterrupt ==
  /\ pc = "w_select"
  /\ pc' = "idle"
  /\ UNCHANGED <<queues, counters, pool, settings, pipe, threads, ret, caller,
                 maxreqs, cur, seen, pollres, requests>>

(* The request failed, or its Ruby block raised: the exception leaves the  *)
(* callback, eio_finish, eio_poll and EIO.wait at once.  eio_destroy is    *)
(* not called and the request's memory is lost.                            *)
CallbackRaise ==
  /\ pc = "callback"
  /\ Destroy({cur}) /\ cur' = None
  /\ pc' = "idle" /\ maxreqs' = 0 /\ pollres' = 0
  /\ UNCHANGED <<queues, counters, pool, settings, pipe, threads, ret, caller, seen>>

WaitStep == Wait \/ WaitSize \/ WaitSelect

RubyNext == Next \/ WaitCall \/ WaitStep \/ WaitInterrupt \/ CallbackRaise

RubySpec == Init /\ [][RubyNext]_vars

(* EIO.wait needs no event loop. *)
FairRubySpec == RubySpec /\ Fairness /\ WF_vars(WaitStep)

(* A program that uses both, EIO.wait between polls of its event loop.     *)
FairLoopSpec == FairRubySpec /\ LoopFairness

-----------------------------------------------------------------------------
(* EIO.wait returns only when nothing that was submitted is left, not even *)
(* what callbacks submitted while it ran ("blocks until all requests have  *)
(* been processed", README).                                               *)
WaitDrains == [][pc = "wait" /\ pc' = "idle" => live = {}]_vars

(* While EIO.wait sleeps in select, with nothing to wake it, some thread   *)
(* has the request it is waiting for or will look at the queue.            *)
SleepsOnWork == pc = "w_select" /\ pipe = 0 => Alert # {}

(* EIO.wait returns, unless there are new submissions for ever.            *)
WaitReturns ==
  \/ []<><<\E r \in Reqs : r \notin live /\ r \in live'>>_vars
  \/ pc = "wait" ~> pc = "idle"

=============================================================================
