-------------------------- MODULE MCFrameAssembly --------------------------
(* FrameAssembly for TLC: six sequence numbers, frames of up to three     *)
(* packets, a buffer for two, so numbers wrap and frames overflow.          *)
EXTENDS FrameAssembly
=============================================================================
