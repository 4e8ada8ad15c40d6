--------------------------- MODULE MC_SettingsApp ---------------------------
(***************************************************************************)
(* The two applications with menus for TLC: the two sides of PrincessLog's *)
(* settings application, and FAGDec's panes.  The modules share no         *)
(* variable; `part' says which of them moves in a behaviour, so that TLC   *)
(* explores each of them instead of their product.                         *)
(***************************************************************************)
EXTENDS Menu, SettingsApp, FagMenu

VARIABLE part

mcVars == <<part, menuVars, settingsVars, fagMenuVars>>

Init ==
  /\ part \in {"menu", "config", "fagdec"}
  /\ SettingsInit
  /\ MenuInit /\ (part # "menu" => pad = {})
  /\ FagMenuInit /\ (part # "fagdec" => titles = 0)

Next ==
  /\ UNCHANGED part
  /\ \/ part = "menu" /\ MenuNext /\ UNCHANGED <<settingsVars, fagMenuVars>>
     \/ part = "config" /\ SettingsNext /\ UNCHANGED <<menuVars, fagMenuVars>>
     \/ part = "fagdec" /\ FagMenuNext /\ UNCHANGED <<menuVars, settingsVars>>

Spec == Init /\ [][Next]_mcVars
=============================================================================
