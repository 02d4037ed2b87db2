----------------------------- MODULE MCEioRuby -----------------------------
(* TLC instances of EioRuby: a method that cannot fail and whose callback  *)
(* takes no argument, and the one that can, does, and may then fail to     *)
(* seal the file it has opened.                                            *)
EXTENDS EioRuby

Some == {nop, open}

(* Beyond one end of the range of priorities. *)
Wide == {5}

=============================================================================
