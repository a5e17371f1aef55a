---------------------------- MODULE MCTimerWheel -----------------------------
(***************************************************************************)
(* Buckets of three milliseconds and wheels of two buckets, started at a   *)
(* time that is no multiple of three; two timers, with delays inside the   *)
(* current bucket, in the next wheel and beyond it.                        *)
(***************************************************************************)
EXTENDS TimerWheel

MCDurations == {0, 4, 9}
MCRepeats == {0, 4}
=============================================================================
