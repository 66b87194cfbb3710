---------------------------- MODULE MCFrameList ----------------------------
(* FrameList for TLC: lists that are full at three frames, a camera whose   *)
(* numbers jump by more than LOST_FRAME_NUM and also fall back.             *)
EXTENDS FrameList

MCNos == 0 .. 3
=============================================================================
