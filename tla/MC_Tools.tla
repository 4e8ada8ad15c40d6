------------------------------ MODULE MC_Tools ------------------------------
(***************************************************************************)
(* ShipLog's plugin and the tools that run on a PC, for TLC.  They share   *)
(* no variable; `part' says which of them moves in a behaviour, and the    *)
(* others stay in one of their initial states, so that TLC explores each   *)
(* of them instead of their product.                                       *)
(***************************************************************************)
EXTENDS ShipLog, Arzl, ArzlBranch, Relocate, Fself, YamlTree

VARIABLE part

mcVars == <<part, shipVars, arzlVars, branchVars, relocVars, fselfVars, yamlVars>>

(* Addresses are signed.  The segments are 16 MB apart, the range of a BL  *)
(* is one byte less, and the addends lead to both sides of its two ends.   *)
MCTextAddr == -2130706432
MCDataAddr == -2113929216
MCAddends == {-1, 1}

Parts == {"ship", "arzl", "branch", "relocate", "fself", "yaml"}

AnyHalf == CHOOSE h \in Halves : TRUE
AnyWord == CHOOSE w \in [hi : Words, lo : Words] : TRUE

(* The one initial state of a part that does not move.                     *)
Idle ==
  /\ part # "ship" => config = [netEnable |-> FALSE, fileLog |-> FALSE]
  /\ part # "arzl" => stored = 0
  /\ part # "branch" => orig = [c \in Cells |-> AnyHalf]
  /\ part # "relocate" =>
       /\ relocSize = CHOOSE n \in RelocSizes : TRUE
       /\ value = AnyWord
       /\ mem = [s \in Segments |-> [o \in Places |-> AnyWord]]
  /\ part # "fself" =>
       /\ p_filesz = [i \in Segs |-> 0]
       /\ p_offset = [i \in Segs |-> 1]
       /\ zsize = [i \in Segs |-> 1]
       /\ sinfo = [i \in Segs |-> [offset |-> 1 + i, length |-> 1, compression |-> 2]]

Init ==
  /\ part \in Parts
  /\ Idle
  /\ ShipInit /\ ArzlInit /\ BranchInit /\ RelocateInit /\ FselfInit /\ YamlInit

Next ==
  /\ UNCHANGED part
  /\ \/ /\ part = "ship" /\ ShipNext
        /\ UNCHANGED <<arzlVars, branchVars, relocVars, fselfVars, yamlVars>>
     \/ /\ part = "arzl" /\ ArzlNext
        /\ UNCHANGED <<shipVars, branchVars, relocVars, fselfVars, yamlVars>>
     \/ /\ part = "branch" /\ BranchNext
        /\ UNCHANGED <<shipVars, arzlVars, relocVars, fselfVars, yamlVars>>
     \/ /\ part = "relocate" /\ uvl_relocate
        /\ UNCHANGED <<shipVars, arzlVars, branchVars, fselfVars, yamlVars>>
     \/ /\ part = "fself" /\ FselfNext
        /\ UNCHANGED <<shipVars, arzlVars, branchVars, relocVars, yamlVars>>
     \/ /\ part = "yaml" /\ YamlNext
        /\ UNCHANGED <<shipVars, arzlVars, branchVars, relocVars, fselfVars>>

Spec == Init /\ [][Next]_mcVars /\ (part = "ship" => ShipFairness)
=============================================================================
