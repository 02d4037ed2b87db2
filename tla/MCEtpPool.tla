----------------------------- MODULE MCEtpPool -----------------------------
(* TLC instances of EtpPool. *)
EXTENDS EtpPool, TLC

(* Requests, poison requests and threads are interchangeable. *)
Symmetry == Permutations(Reqs) \union Permutations(Quits) \union Permutations(Workers)

(* Fewer thread identities than this would hold a thread start back. *)
ASSUME Cardinality(Workers) >= Wanted0

(* EIO_PRI_MIN is negative; a cfg cannot say so. *)
Lowest == -1

=============================================================================
