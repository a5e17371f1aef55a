--------------------------- MODULE MCBufferedTasks ---------------------------
(***************************************************************************)
(* Three commands for one entity, so that chains overtake each other, and  *)
(* one for another entity that panics; the pool is as large as the number  *)
(* of commands, the least size at which Submit cannot block for ever.      *)
(***************************************************************************)
EXTENDS BufferedTasks, TLC

CONSTANTS e1, e2, t1, t2, t3, t4

MCEntity == {e1, e2}
MCTask == {t1, t2, t3, t4}
MCOwner == [t \in MCTask |-> IF t = t4 THEN e2 ELSE e1]
MCPoison == {t4}

\* the commands of e1 are interchangeable (sound for the safety run)
MCSymmetry == Permutations({t1, t2, t3})

\* the liveness run: two commands for e1 and one for e2
MCTaskLive == {t1, t2, t4}
MCOwnerLive == [t \in MCTaskLive |-> MCOwner[t]]
=============================================================================
