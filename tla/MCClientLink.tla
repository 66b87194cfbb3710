---------------------------- MODULE MCClientLink ----------------------------
(***************************************************************************)
(* ClientLink for TLC: the constants are given values in the .cfg files.   *)
(***************************************************************************)
EXTENDS ClientLink
=============================================================================
