---------------------------- MODULE MCRingBuffer -----------------------------
(***************************************************************************)
(* A first allocation of four bytes and at most six bytes in the buffer,   *)
(* so sizes 0, 1, 2, 4 and 8 are reached by growing and by halving.        *)
(***************************************************************************)
EXTENDS RingBuffer

MCByte == {0, 1}
MCNewSizes == {0, 3, 8}
=============================================================================
