----------------------------- MODULE MCEioWait -----------------------------
(* TLC instances of EioWait. *)
EXTENDS EioWait, TLC


(* Requests, poison requests and threads are interchangeable. *)
Symmetry == Permutations(Reqs) \union Permutations(Quits) \union Permutations(Workers)

=============================================================================
