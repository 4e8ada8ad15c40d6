------------------------------ MODULE MC_FAGDec ------------------------------
(***************************************************************************)
(* Instances of FAGDec for TLC.                                            *)
(***************************************************************************)
EXTENDS FAGDec

(* A module whose segments are all encrypted, and one with a plain one.    *)
MCEncrypted == <<{1, 2}, {2}>>
==============================================================================
