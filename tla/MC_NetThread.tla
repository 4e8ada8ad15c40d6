---------------------------- MODULE MC_NetThread ----------------------------
(***************************************************************************)
(* Instances of NetThread for TLC.                                         *)
(***************************************************************************)
EXTENDS NetThread
=============================================================================
