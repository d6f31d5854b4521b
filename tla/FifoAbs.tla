------------------------------ MODULE FifoAbs ------------------------------
(***************************************************************************)
(* What a fifo stream promises its two ends: the bytes are numbered in the *)
(* order in which they are written; a write of k bytes stores all of them  *)
(* or none, and a read takes some of the oldest.  Once the promise is void *)
(* nothing is said any more.                                               *)
(***************************************************************************)
EXTENDS Integers, Sequences

CONSTANT Capacity

VARIABLES q,    \* the bytes that are stored
          put,  \* how many bytes were ever stored
          got,  \* the bytes that were read
          void  \* the two ends have got in each other's way

vars == <<q, put, got, void>>

Init == q = <<>> /\ put = 0 /\ got = <<>> /\ void = FALSE

Write ==
    \E k \in 1 .. Capacity - Len(q) :
        /\ q' = q \o [i \in 1 .. k |-> put + i]
        /\ put' = put + k
        /\ UNCHANGED got

Read ==
    \E k \in 1 .. Len(q) :
        /\ got' = got \o SubSeq(q, 1, k)
        /\ q' = SubSeq(q, k + 1, Len(q))
        /\ UNCHANGED put

Next ==
    \/ ~void /\ ~void' /\ (Write \/ Read)
    \/ void'

Spec == Init /\ [][Next]_vars
=============================================================================
