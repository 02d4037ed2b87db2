----------------------------- MODULE MCEioStat -----------------------------
(* A TLC instance of EioStat. *)
EXTENDS EioStat

Stats == {eio_stat}

=============================================================================
