--------------------------- MODULE MCTimerManager ---------------------------
(* Small instances of TimerManager for TLC.  Descriptors are numbers and the *)
(* run checks liveness, so no symmetry is used.                              *)
EXTENDS TimerManager
=============================================================================
