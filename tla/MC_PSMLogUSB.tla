---------------------------- MODULE MC_PSMLogUSB ----------------------------
(***************************************************************************)
(* Instances of PSMLogUSB for TLC.                                         *)
(***************************************************************************)
EXTENDS PSMLogUSB
=============================================================================
