----------------------------- MODULE MCTaskQueue -----------------------------
(***************************************************************************)
(* Two producers race on the tail and two consumers on the head; three     *)
(* tasks are enough for a stale tail to be two links behind.               *)
(***************************************************************************)
EXTENDS TaskQueue

CONSTANTS n1, n2, n3, d, p1, p2, c1, c2

MCNode == {n1, n2, n3}
MCProducer == {p1, p2}
MCConsumer == {c1, c2}

\* Producers are interchangeable, so the first one to call Enqueue may be p1.
FirstIsP1 == Allocated = {Dummy, nil} => newNode'[p2] = nil
=============================================================================
