---------------------------- MODULE MCTimerPool ----------------------------
(* Small instances of TimerPool for TLC. *)
EXTENDS TimerPool
=============================================================================
