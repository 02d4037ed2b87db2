---------------------------- MODULE MCEioExecute ----------------------------
(* TLC instances of EioExecute. *)
EXTENDS EioExecute

(* Entries that meet in every comparison: same score, same inode, neither. *)
E(k, n, t, ino) == [kind |-> k, len |-> n, type |-> t, inode |-> ino]

Some == {E("self", 2, "dir", 1), E("plain", 2, "dir", 3), E("hidden", 3, "dir", 1),
         E("dotted", 4, "other", 2), E("plain", 2, "unknown", 3)}

Asked == {{}, {"DENTS", "DIRS_FIRST"}, {"DENTS", "STAT_ORDER"},
          {"DENTS", "DIRS_FIRST", "STAT_ORDER"}, {"DIRS_FIRST"}}

Faults == {"opendir", "readdir", "malloc", "realloc", "call"}

(* Within the file, up to its end, over it, behind it; nothing at all. *)
Asks == {<<0, 0>>, <<0, 5>>, <<1, 3>>, <<1, 6>>, <<7, 2>>}

(* Within a page, over the end of one, whole pages, several, none; at and  *)
(* off the start of a page; an address below the length and ones above.    *)
Memory == {4, 5, 7, 32, 34} \X {0, 1, 3, 4, 9}
=============================================================================
