-------------------------------- MODULE Menu --------------------------------
(***************************************************************************)
(* How PrincessLog's settings application turns buttons into callbacks:    *)
(* ReadPad samples the buttons that are held and keeps the ones that are   *)
(* new, MainMenu moves a selection over a list that may be longer than the *)
(* screen and runs the callback of an item, QafSettings is a menu of two   *)
(* lines inside it.                                                        *)
(*                                                                         *)
(* The user presses and releases buttons at any time, also while the       *)
(* program is in a callback.  What the callbacks do to the configuration   *)
(* is SettingsApp's part; here they only read the pad.                     *)
(***************************************************************************)
EXTENDS Integers, FiniteSets

CONSTANTS SelMax,       \* sel_max: the number of items
          MaxRows,      \* the number of lines the screen has room for
          MaxHeld       \* bound: buttons held at the same time

ASSUME MenuAssumption ==
  /\ SelMax \in Nat /\ SelMax >= 5
  /\ MaxRows \in Nat /\ MaxRows >= 1

Buttons == {"up", "down", "right", "left", "circle"}

display_max == IF SelMax > MaxRows THEN MaxRows ELSE SelMax

(* What selecting an item calls; the last one has no callback.             *)
DialogItems == {0, 1}
QafItem == 2
ResetItem == SelMax - 2
ExitItem == SelMax - 1

VARIABLES
  pad,         \* the buttons held now
  press_key,   \* the buttons held at the last ReadPad
  menupc,      \* where MainMenu is, or the callback it is in
  sel,         \* the line the star is on
  sel_extra,   \* the item on the first line
  sel_idx,     \* the item a callback is taken from
  starred,     \* the item next to the star on the screen
  qafsel,      \* sel of QafSettings
  acted        \* held buttons that have already had an effect

menuVars == <<pad, press_key, menupc, sel, sel_extra, sel_idx, starred,
              qafsel, acted>>

selVars == <<sel, sel_extra, sel_idx, starred>>

------------------------------------------------------------------------------
(* menu_press_DPad.  A position is where the star is: its line and the     *)
(* item on the first line.                                                 *)

Item(p) == p.sel + p.extra

PressUp(p) ==
  IF p.sel = 0 /\ p.extra = 0
  THEN [sel |-> display_max - 1, extra |-> SelMax - display_max]
  ELSE IF p.sel > 0
       THEN [p EXCEPT !.sel = @ - 1]
       ELSE [p EXCEPT !.extra = @ - 1]

(* Faulty: the list is as long as the screen.                              *)
PressDownShort(p) ==
  IF p.sel = display_max - 1 THEN [sel |-> 0, extra |-> 0]
                             ELSE [p EXCEPT !.sel = @ + 1]

(* Faulty: scrolls one line too far.                                       *)
PressDownLong(p) ==
  IF p.sel # display_max - 1
  THEN [p EXCEPT !.sel = @ + 1]
  ELSE IF Item(p) <= SelMax - 1 THEN [p EXCEPT !.extra = @ + 1]
                                ELSE [sel |-> 0, extra |-> 0]

PressDown(p) ==
  IF p.sel # display_max - 1
  THEN [p EXCEPT !.sel = @ + 1]
  ELSE IF Item(p) < SelMax - 1 THEN [p EXCEPT !.extra = @ + 1]
                               ELSE [sel |-> 0, extra |-> 0]

(* Right first goes down the screen; from its last page on it scrolls.     *)
PressRight(p) ==
  LET bottom == display_max - 1
      below == SelMax - 1 - (bottom + p.extra)
  IN IF p.sel + 7 < bottom
     THEN [p EXCEPT !.sel = @ + 7]
     ELSE [sel |-> bottom, extra |-> p.extra + (IF 7 < below THEN 7 ELSE below)]

PressLeft(p) ==
  IF p.sel - 7 > 0
  THEN [p EXCEPT !.sel = @ - 7]
  ELSE [sel |-> 0, extra |-> p.extra - (IF p.extra - 7 > 0 THEN 7 ELSE p.extra)]

(* Only the first of the four directions that is pressed counts.           *)
menu_press_DPad(press_padd, p) ==
  CASE "up" \in press_padd -> PressUp(p)
    [] "up" \notin press_padd /\ "down" \in press_padd -> PressDown(p)
    [] press_padd \cap {"up", "down"} = {} /\ "right" \in press_padd -> PressRight(p)
    [] press_padd \cap {"up", "down", "right"} = {} /\ "left" \in press_padd -> PressLeft(p)
    [] OTHER -> p

Here == [sel |-> sel, extra |-> sel_extra]

------------------------------------------------------------------------------
(* The user.                                                               *)

Press(b) ==
  /\ b \notin pad
  /\ Cardinality(pad) < MaxHeld
  /\ pad' = pad \cup {b}
  /\ UNCHANGED <<press_key, menupc, selVars, qafsel, acted>>

Release(b) ==
  /\ b \in pad
  /\ pad' = pad \ {b}
  /\ acted' = acted \ {b}
  /\ UNCHANGED <<press_key, menupc, selVars, qafsel>>

------------------------------------------------------------------------------
(* ReadPad: press_padd is what is held now and was not at the last ReadPad.*)

(* Faulty: every button that is held counts, new or not.                   *)
press_padd_held == pad

press_padd == pad \ press_key

ReadPad == press_key' = pad

(* One turn of the loop of WaitKeyPress that finds nothing new.            *)
WaitKeyPress ==
  /\ menupc \in {"wait", "qaf", "message"}
  /\ press_padd = {}
  /\ press_key # pad
  /\ ReadPad
  /\ UNCHANGED <<pad, menupc, selVars, qafsel, acted>>

(* The top of MainMenu's loop: draws the items from sel_extra on.          *)
Draw ==
  /\ menupc = "draw"
  /\ sel_idx' = Item(Here)
  /\ starred' = CHOOSE i \in 0..(SelMax - 1) : i - sel_extra = sel
  /\ menupc' = "wait"
  /\ UNCHANGED <<pad, press_key, sel, sel_extra, qafsel, acted>>

(* Where MainMenu goes with circle pressed on an item.                     *)
Callback(i) ==
  CASE i = ExitItem -> "exit"
    [] i = ResetItem -> "reset"
    [] i = QafItem -> "qaf"
    [] i \in DialogItems -> "dialog"
    [] OTHER -> "message"

MovesTo(p) == sel' = p.sel /\ sel_extra' = p.extra

(* Faulty: takes the item the direction pad has just moved to.             *)
MainMenuLate ==
  /\ menupc = "wait"
  /\ press_padd # {}
  /\ ReadPad
  /\ acted' = acted \cup press_padd
  /\ MovesTo(menu_press_DPad(press_padd, Here))
  /\ sel_idx' = sel' + sel_extra'
  /\ menupc' = IF "circle" \in press_padd THEN Callback(sel_idx') ELSE "draw"
  /\ qafsel' = 0
  /\ UNCHANGED <<pad, starred>>

(* The rest of MainMenu's loop: the direction pad moves the selection, but *)
(* the callback is the one of sel_idx, taken before the move.              *)
MainMenu ==
  /\ menupc = "wait"
  /\ press_padd # {}
  /\ ReadPad
  /\ acted' = acted \cup press_padd
  /\ MovesTo(menu_press_DPad(press_padd, Here))
  /\ menupc' = IF "circle" \in press_padd THEN Callback(sel_idx) ELSE "draw"
  /\ qafsel' = 0
  /\ UNCHANGED <<pad, sel_idx, starred>>

(* QafSettings: up and down are not exclusive, and circle applies to the   *)
(* line they lead to.  Line 1 is "Back".                                   *)
QafMove(q) ==
  LET up == IF "up" \in press_padd THEN 1 - q ELSE q
  IN IF "down" \in press_padd THEN 1 - up ELSE up

QafSettings ==
  /\ menupc = "qaf"
  /\ press_padd # {}
  /\ ReadPad
  /\ acted' = acted \cup press_padd
  /\ qafsel' = QafMove(qafsel)
  /\ menupc' = IF "circle" \in press_padd /\ qafsel' = 1 THEN "back" ELSE "qaf"
  /\ UNCHANGED <<pad, selVars>>

(* The end of SetServerIPv4 and SetServerPort: buttons that were pressed   *)
(* in the dialog do not answer the message that follows.                   *)
DialogEnds ==
  /\ menupc = "dialog"
  /\ ReadPad
  /\ menupc' = "message"
  /\ UNCHANGED <<pad, selVars, qafsel, acted>>

(* The message "please key press" is answered by any new button.           *)
MessageKey ==
  /\ menupc = "message"
  /\ press_padd # {}
  /\ ReadPad
  /\ acted' = acted \cup press_padd
  /\ menupc' = "back"
  /\ UNCHANGED <<pad, selVars, qafsel>>

(* Every callback of this program reads the pad once more at its end.      *)
CallbackReturns ==
  /\ menupc = "back"
  /\ ReadPad
  /\ menupc' = "draw"
  /\ UNCHANGED <<pad, selVars, qafsel, acted>>

(* The system's function does not; it returns before the console is reset. *)
scePowerRequestColdReset ==
  /\ menupc = "reset"
  /\ menupc' = "draw"
  /\ UNCHANGED <<pad, press_key, selVars, qafsel, acted>>

(* Main returns: the program is over.                                      *)
Over == menupc = "exit" /\ UNCHANGED menuVars

------------------------------------------------------------------------------
MenuInit ==
  /\ pad \in {held \in SUBSET Buttons : Cardinality(held) <= MaxHeld}
  /\ press_key = {}
  /\ menupc = "draw"
  /\ sel = 0 /\ sel_extra = 0 /\ sel_idx = 0
  /\ starred = 0
  /\ qafsel = 0
  /\ acted = {}

MenuNext ==
  \/ \E b \in Buttons : Press(b) \/ Release(b)
  \/ WaitKeyPress
  \/ Draw
  \/ MainMenu
  \/ QafSettings
  \/ DialogEnds
  \/ MessageKey
  \/ CallbackReturns
  \/ scePowerRequestColdReset
  \/ Over

MenuSpec == MenuInit /\ [][MenuNext]_menuVars

------------------------------------------------------------------------------
(* However the direction pad is used, the star stays on the screen and     *)
(* every line of the screen shows an item of MenuItem.                     *)
SelectionInBounds ==
  /\ sel \in 0..(display_max - 1)
  /\ sel_extra \in 0..(SelMax - display_max)

(* The callback that runs is the one of the item the star was next to when *)
(* the buttons were pressed, also when a direction is pressed together     *)
(* with circle.                                                            *)
RunsWhatIsStarred ==
  menupc # "draw" => sel_idx = starred

(* Pressing a button once has an effect once, however long it is held and  *)
(* however often the program reads the pad meanwhile.                      *)
OnePressOneEffect ==
  [][(acted' # acted /\ pad' = pad) => acted \cap press_padd = {}]_menuVars

(* Down goes to the next item and up to the previous one, around the ends  *)
(* of the list; right never goes back and left never goes forward.         *)
MovesInOrder ==
  [][LET i == sel + sel_extra
         j == sel' + sel_extra'
     IN MainMenu =>
        /\ "up" \in press_padd => j = IF i = 0 THEN SelMax - 1 ELSE i - 1
        /\ press_padd \cap {"up", "down"} = {"down"} =>
             j = IF i = SelMax - 1 THEN 0 ELSE i + 1
        /\ press_padd \cap {"up", "down", "right"} = {"right"} => j >= i
        /\ press_padd \cap {"up", "down", "right"} = {} => j <= i]_menuVars
==============================================================================
