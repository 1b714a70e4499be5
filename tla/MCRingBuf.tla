------------------------------ MODULE MCRingBuf ------------------------------
(* Instances of the ring buffer for TLC. *)
EXTENDS RingBufInvariant

CONSTANTS p1, p2, p3, c1, c2   \* model values: the threads
=============================================================================
