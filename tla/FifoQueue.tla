------------------------------ MODULE FifoQueue ------------------------------
(***************************************************************************)
(* What the task queue of the gate and game processes promises: tasks are  *)
(* put at the back in one atomic step and taken from the front in one      *)
(* atomic step.  delivered is the order in which the tasks have come out.  *)
(***************************************************************************)
EXTENDS Sequences

CONSTANT Task

VARIABLES queue, delivered

vars == <<queue, delivered>>

Init ==
    /\ queue = << >>
    /\ delivered = << >>

Put(t) ==
    /\ queue' = Append(queue, t)
    /\ UNCHANGED delivered

Take ==
    /\ queue # << >>
    /\ queue' = Tail(queue)
    /\ delivered' = Append(delivered, Head(queue))

Next == (\E t \in Task : Put(t)) \/ Take

Spec == Init /\ [][Next]_vars
=============================================================================
