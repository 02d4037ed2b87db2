------------------------------ MODULE PageAlign ------------------------------
(***************************************************************************)
(* eio_page_align of ext/libeio/eio.c: the whole pages an area of memory   *)
(* lies in.  The code masks with eio_pagesize () - 1, which for a power of *)
(* two is % and \div.  An area ends within the address space, so that      *)
(* nothing here exceeds intptr_t.                                          *)
(***************************************************************************)
EXTENDS Integers

CONSTANT PageSize    \* eio_pagesize ()

ASSUME PageAssumption == PageSize \in Nat \ {0}

(* How far the address is into its page. *)
Adj(addr) == addr % PageSize

AlignedAddr(addr) == addr - Adj(addr)

RoundUp(n) == ((n + PageSize - 1) \div PageSize) * PageSize

AlignedLen_unmoved(addr, len) == RoundUp(len)       \* mutant of AlignedLen
AlignedLen(addr, len) == RoundUp(len + Adj(addr))

=============================================================================
