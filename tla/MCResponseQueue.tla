-------------------------- MODULE MCResponseQueue --------------------------
(* ResponseQueue for TLC: two threads that open cameras and send the same   *)
(* command, one that sends heartbeats, and a day of six ticks.             *)
EXTENDS ResponseQueue

MCThreads == {"open1", "open2", "heart"}
MCCmds == {"RealVideoStartReq", "KeepAlive"}
MCCmdOf == [t \in MCThreads |-> IF t = "heart" THEN "KeepAlive" ELSE "RealVideoStartReq"]
=============================================================================
