-------------------------- MODULE MC_NetLoggingMgr --------------------------
(***************************************************************************)
(* Instances of NetLoggingMgr for TLC.                                     *)
(***************************************************************************)
EXTENDS NetLoggingMgr
=============================================================================
