----------------------------- MODULE MCEioGroup -----------------------------
(* TLC instances of EioGroup. *)
EXTENDS EioGroup, TLC

(* Requests and groups are interchangeable. *)
Symmetry == Permutations(Reqs) \union Permutations(Grps)

(* The limits; size_t turns a negative one into the largest there is. *)
One == {1}
Two == {2}
Few == {-1, 1}

=============================================================================
