------------------------------ MODULE ReqQueue ------------------------------
(***************************************************************************)
(* The priority queue etp_reqq of ext/libeio/eio.c (lines 320-372) as a    *)
(* value: one FIFO per priority and a count of everything queued.  Both    *)
(* req_queue (requests no worker has taken yet) and res_queue (requests    *)
(* eio_poll has not finished yet) are such queues.  The linked list that   *)
(* holds a FIFO (qs[pri], req->next, qe[pri]) is kept as a sequence.       *)
(***************************************************************************)
EXTENDS Integers, Sequences

CONSTANTS PriMin,   \* EIO_PRI_MIN, -4 in eio.h
          PriMax    \* EIO_PRI_MAX,  4 in eio.h

ASSUME PriAssumption ==
  /\ PriMin \in -128..127
  /\ PriMax \in -128..127
  /\ PriMin <= 0 /\ 0 <= PriMax

TopPri == PriMax - PriMin

(* The indices of qs[] and qe[], after etp_submit has shifted priorities. *)
Pri == 0..TopPri

(* A signed char after an int was stored in it, for ints that stay within  *)
(* one wrap of the type.                                                   *)
SChar(x) == IF x > 127 THEN x - 256 ELSE x

(* req->pri -= ETP_PRI_MIN in a signed char, then the two clamps.          *)
SubmitPri(p) ==
  LET s == SChar(p - PriMin)
  IN  IF s < 0 THEN 0 ELSE IF s > TopPri THEN TopPri ELSE s

EmptyQueue == [qs |-> [p \in Pri |-> << >>], size |-> 0]

(* reqq_push *)
Push(q, r, p) ==
  [qs |-> [q.qs EXCEPT ![p] = Append(@, r)], size |-> q.size + 1]

(* The list reqq_shift takes from: it walks the priorities downwards.  (A  *)
(* mutant is the operator after it with a mistake in it, which the runs    *)
(* must reject.)                                                           *)
TopOf_lowest(q) ==                                  \* mutant of TopOf
  CHOOSE p \in Pri : /\ q.qs[p] # << >>
                     /\ \A k \in Pri : k < p => q.qs[k] = << >>
TopOf(q) ==
  CHOOSE p \in Pri : /\ q.qs[p] # << >>
                     /\ \A k \in Pri : k > p => q.qs[k] = << >>

(* What reqq_shift returns, and the queue it leaves behind. *)
First(q) == Head(q.qs[TopOf(q)])
Shift_uncounted(q) ==                               \* mutant of Shift
  [qs |-> [q.qs EXCEPT ![TopOf(q)] = Tail(@)], size |-> q.size]
Shift(q) == [qs |-> [q.qs EXCEPT ![TopOf(q)] = Tail(@)], size |-> q.size - 1]

(* Everything queued. *)
Elems(q) == UNION { {q.qs[p][i] : i \in 1..Len(q.qs[p])} : p \in Pri }

(* No two places of the lists hold the same request. *)
Distinct(q) ==
  \A p1, p2 \in Pri : \A i \in 1..Len(q.qs[p1]), j \in 1..Len(q.qs[p2]) :
     q.qs[p1][i] = q.qs[p2][j] => p1 = p2 /\ i = j

Queues(S) == [qs : [Pri -> Seq(S)], size : Nat]

=============================================================================
