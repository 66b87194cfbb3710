-------------------------- MODULE MCVideoSession ---------------------------
(* VideoSession for TLC: an INT_MAX of 7 reads and a clock far beyond it.   *)
EXTENDS VideoSession

MCEpoch == 100
=============================================================================
