----------------------------- MODULE EioService -----------------------------
(***************************************************************************)
(* What libeio promises about one request, whatever its threads do: it is  *)
(* executed at most once and never after it was seen cancelled, its finish *)
(* callback runs at most once, after the execution, never when it is       *)
(* cancelled, one callback at a time, and only then is it destroyed.  A    *)
(* child of fork forgets every request but the one being finished.         *)
(***************************************************************************)
EXTENDS Naturals

CONSTANTS Reqs      \* the requests a client may submit

VARIABLES stage,      \* stage[r]: how far the request has come
          cancelled   \* the requests whose EIO_FLAG_CANCELLED is set

vars == <<stage, cancelled>>

Stages == {"free", "queued", "running", "done", "finishing"}

TypeOK == /\ stage \in [Reqs -> Stages]
          /\ cancelled \subseteq Reqs

Init == /\ stage = [r \in Reqs |-> "free"]
        /\ cancelled = {}

Move(r, from, to) == /\ stage[r] = from
                     /\ stage' = [stage EXCEPT ![r] = to]

Submit(r) == Move(r, "free", "queued") /\ UNCHANGED cancelled

Cancel(r) == /\ stage[r] # "free"
             /\ cancelled' = cancelled \union {r}
             /\ UNCHANGED stage

Execute(r) == /\ r \notin cancelled
              /\ Move(r, "queued", "running")
              /\ UNCHANGED cancelled

Complete(r) == Move(r, "running", "done") /\ UNCHANGED cancelled

(* A worker that finds the request cancelled passes it on unexecuted. *)
Skip(r) == /\ r \in cancelled
           /\ Move(r, "queued", "done")
           /\ UNCHANGED cancelled

Finish(r) == /\ r \notin cancelled
             /\ \A s \in Reqs : stage[s] # "finishing"
             /\ Move(r, "done", "finishing")
             /\ UNCHANGED cancelled

(* The request is freed: after its callback, or without one if cancelled. *)
Destroy(r) == /\ \/ Move(r, "finishing", "free")
                 \/ r \in cancelled /\ Move(r, "done", "free")
              /\ cancelled' = cancelled \ {r}

ForkChild ==
  /\ stage' = [r \in Reqs |-> IF stage[r] = "finishing" THEN "finishing" ELSE "free"]
  /\ cancelled' = {r \in cancelled : stage[r] = "finishing"}

Next == \/ \E r \in Reqs : \/ Submit(r) \/ Cancel(r) \/ Execute(r)
                           \/ Complete(r) \/ Skip(r) \/ Finish(r) \/ Destroy(r)
        \/ ForkChild

Spec == Init /\ [][Next]_vars

=============================================================================
