-------------------------- MODULE SettingsAppProofs --------------------------
(***************************************************************************)
(* The two sides of PrincessLog's settings application.                    *)
(*                                                                         *)
(* Menu for a list of any length on a screen of any height: the selection  *)
(* never leaves the list, it moves in order, the callback that runs is the *)
(* one the star was next to, and a button that is held has one effect.     *)
(*                                                                         *)
(* SettingsApp for any addresses and ports, any number of launches, boots, *)
(* failed writes and power losses: the magic of the configuration, the     *)
(* repair of the file, and what an update without a reboot stands for.     *)
(***************************************************************************)
EXTENDS Menu, SettingsApp, TLAPS

(* The positions of the star.                                              *)
Position == [sel : 0..(display_max - 1), extra : 0..(SelMax - display_max)]

(* The screen shows at least one line and no more than there are items.    *)
LEMMA Display == display_max \in 1..SelMax /\ SelMax \in Nat /\ SelMax >= 5
BY MenuAssumption DEF display_max

(* PressUp goes to the previous item, around the start of the list.        *)
LEMMA UpMoves ==
  ASSUME NEW p \in Position
  PROVE  /\ PressUp(p) \in Position
         /\ Item(PressUp(p)) = IF Item(p) = 0 THEN SelMax - 1 ELSE Item(p) - 1
<1>1. CASE p.sel = 0 /\ p.extra = 0
  BY <1>1, Display DEF PressUp, Position, Item
<1>2. CASE p.sel > 0
  BY <1>2, Display DEF PressUp, Position, Item
<1>3. CASE p.sel = 0 /\ p.extra # 0
  BY <1>3, Display DEF PressUp, Position, Item
<1> QED
  BY <1>1, <1>2, <1>3, Display DEF Position

(* PressDown goes to the next item, around the end of the list.            *)
LEMMA DownMoves ==
  ASSUME NEW p \in Position
  PROVE  /\ PressDown(p) \in Position
         /\ Item(PressDown(p)) = IF Item(p) = SelMax - 1 THEN 0 ELSE Item(p) + 1
<1>1. CASE p.sel # display_max - 1
  BY <1>1, Display DEF PressDown, Position, Item
<1>2. CASE p.sel = display_max - 1 /\ Item(p) < SelMax - 1
  BY <1>2, Display DEF PressDown, Position, Item
<1>3. CASE p.sel = display_max - 1 /\ ~(Item(p) < SelMax - 1)
  BY <1>3, Display DEF PressDown, Position, Item
<1> QED
  BY <1>1, <1>2, <1>3

(* PressRight does not go back.                                            *)
LEMMA RightMoves ==
  ASSUME NEW p \in Position
  PROVE  PressRight(p) \in Position /\ Item(PressRight(p)) >= Item(p)
BY Display DEF PressRight, Position, Item

(* PressLeft does not go forward.                                          *)
LEMMA LeftMoves ==
  ASSUME NEW p \in Position
  PROVE  PressLeft(p) \in Position /\ Item(PressLeft(p)) <= Item(p)
BY Display DEF PressLeft, Position, Item

(* What menu_press_DPad does with any set of new buttons.                  *)
LEMMA DPadMoves ==
  ASSUME NEW p \in Position, NEW b
  PROVE  LET q == menu_press_DPad(b, p)
         IN /\ q \in Position
            /\ "up" \in b => Item(q) = IF Item(p) = 0 THEN SelMax - 1 ELSE Item(p) - 1
            /\ b \cap {"up", "down"} = {"down"} =>
                 Item(q) = IF Item(p) = SelMax - 1 THEN 0 ELSE Item(p) + 1
            /\ b \cap {"up", "down", "right"} = {"right"} => Item(q) >= Item(p)
            /\ b \cap {"up", "down", "right"} = {} => Item(q) <= Item(p)
<1> DEFINE q == menu_press_DPad(b, p)
<1>0. Item(p) <= Item(p)
  BY Display DEF Item, Position
<1>1. CASE "up" \in b
  <2>1. q = PressUp(p)
    BY <1>1 DEF menu_press_DPad
  <2> QED
    BY <1>1, <2>1, UpMoves
<1>2. CASE "up" \notin b /\ "down" \in b
  <2>1. q = PressDown(p)
    BY <1>2 DEF menu_press_DPad
  <2> QED
    BY <1>2, <2>1, DownMoves
<1>3. CASE "up" \notin b /\ "down" \notin b /\ "right" \in b
  <2>1. q = PressRight(p)
    BY <1>3 DEF menu_press_DPad
  <2> QED
    BY <1>3, <2>1, RightMoves
<1>4. CASE "up" \notin b /\ "down" \notin b /\ "right" \notin b /\ "left" \in b
  <2>1. q = PressLeft(p)
    BY <1>4 DEF menu_press_DPad
  <2> QED
    BY <1>4, <2>1, LeftMoves
<1>5. CASE "up" \notin b /\ "down" \notin b /\ "right" \notin b /\ "left" \notin b
  <2>1. q = p
    BY <1>5 DEF menu_press_DPad
  <2> QED
    BY <1>5, <2>1, <1>0
<1> QED
  BY <1>1, <1>2, <1>3, <1>4, <1>5

------------------------------------------------------------------------------
(* The inductive invariant: the selection is a position, and outside the   *)
(* redraw sel_idx is the item drawn next to the star.                      *)
MenuInv == SelectionInBounds /\ RunsWhatIsStarred

LEMMA HereIsPosition ==
  ASSUME SelectionInBounds
  PROVE  Here \in Position /\ Item(Here) = sel + sel_extra
BY DEF SelectionInBounds, Here, Position, Item

LEMMA InBoundsOfPosition ==
  ASSUME NEW p \in Position, MovesTo(p)
  PROVE  SelectionInBounds' /\ sel' + sel_extra' = Item(p)
BY DEF MovesTo, SelectionInBounds, Position, Item, display_max

LEMMA InvInit == MenuInit => MenuInv
BY Display DEF MenuInit, MenuInv, SelectionInBounds, RunsWhatIsStarred

(* A step that leaves the selection, sel_idx and starred alone.            *)
LEMMA InvKept ==
  ASSUME MenuInv, UNCHANGED selVars, menupc' # "draw" => menupc # "draw"
  PROVE  MenuInv'
BY DEF MenuInv, SelectionInBounds, RunsWhatIsStarred, selVars, display_max

LEMMA InvNext == MenuInv /\ [MenuNext]_menuVars => MenuInv'
<1> SUFFICES ASSUME MenuInv, [MenuNext]_menuVars
             PROVE  MenuInv'
  OBVIOUS
<1>1. ASSUME NEW b \in Buttons, Press(b) PROVE MenuInv'
  BY <1>1, InvKept DEF Press
<1>2. ASSUME NEW b \in Buttons, Release(b) PROVE MenuInv'
  BY <1>2, InvKept DEF Release
<1>3. CASE WaitKeyPress
  BY <1>3, InvKept DEF WaitKeyPress
<1>4. CASE Draw
  <2>1. sel + sel_extra \in 0..(SelMax - 1)
    BY Display DEF MenuInv, SelectionInBounds
  <2>2. starred' = sel + sel_extra
    <3> DEFINE P(i) == i - sel_extra = sel
    <3>1. P(sel + sel_extra)
      BY DEF MenuInv, SelectionInBounds
    <3>2. \A i \in 0..(SelMax - 1) : P(i) => i = sel + sel_extra
      BY Display DEF MenuInv, SelectionInBounds
    <3>3. starred' = CHOOSE i \in 0..(SelMax - 1) : P(i)
      BY <1>4 DEF Draw
    <3> HIDE DEF P
    <3> QED
      BY <2>1, <3>1, <3>2, <3>3
  <2>3. sel_idx' = sel + sel_extra
    BY <1>4, HereIsPosition DEF Draw, MenuInv
  <2> QED
    BY <1>4, <2>2, <2>3
    DEF Draw, MenuInv, SelectionInBounds, RunsWhatIsStarred, display_max
<1>5. CASE MainMenu
  <2>1. PICK p \in Position : MovesTo(p)
    BY <1>5, HereIsPosition, DPadMoves DEF MainMenu, MenuInv
  <2>2. SelectionInBounds'
    BY <2>1, InBoundsOfPosition
  <2>3. RunsWhatIsStarred'
    BY <1>5 DEF MainMenu, MenuInv, RunsWhatIsStarred
  <2> QED
    BY <2>2, <2>3 DEF MenuInv
<1>6. CASE QafSettings
  BY <1>6, InvKept DEF QafSettings
<1>7. CASE DialogEnds
  BY <1>7, InvKept DEF DialogEnds
<1>8. CASE MessageKey
  BY <1>8, InvKept DEF MessageKey
<1>9. CASE CallbackReturns
  BY <1>9, InvKept DEF CallbackReturns
<1>10. CASE scePowerRequestColdReset
  BY <1>10, InvKept DEF scePowerRequestColdReset
<1>11. CASE Over
  BY <1>11, InvKept DEF Over, menuVars, selVars
<1>12. CASE UNCHANGED menuVars
  BY <1>12, InvKept DEF menuVars, selVars
<1> QED
  BY <1>1, <1>2, <1>3, <1>4, <1>5, <1>6, <1>7, <1>8, <1>9, <1>10, <1>11, <1>12
  DEF MenuNext

LEMMA InvAlways == MenuSpec => []MenuInv
BY InvInit, InvNext, PTL DEF MenuSpec

(* menu_press_DPad keeps the star on the screen and the screen on the      *)
(* list, for every sel_max and every screen height.                        *)
THEOREM SelectionCorrect == MenuSpec => []SelectionInBounds
<1>1. MenuInv => SelectionInBounds
  BY DEF MenuInv
<1> QED
  BY <1>1, InvAlways, PTL

(* MainMenu runs the callback of the item the user sees starred.           *)
THEOREM CallbackCorrect == MenuSpec => []RunsWhatIsStarred
<1>1. MenuInv => RunsWhatIsStarred
  BY DEF MenuInv
<1> QED
  BY <1>1, InvAlways, PTL

(* The directions move the selection in the order of the list, and up and  *)
(* down reach every item of it.                                            *)
THEOREM MovesCorrect == MenuSpec => MovesInOrder
<1> DEFINE i == sel + sel_extra
           j == sel' + sel_extra'
           Ordered ==
             MainMenu =>
               /\ "up" \in press_padd => j = IF i = 0 THEN SelMax - 1 ELSE i - 1
               /\ press_padd \cap {"up", "down"} = {"down"} =>
                    j = IF i = SelMax - 1 THEN 0 ELSE i + 1
               /\ press_padd \cap {"up", "down", "right"} = {"right"} => j >= i
               /\ press_padd \cap {"up", "down", "right"} = {} => j <= i
<1>1. ASSUME MenuInv, MainMenu PROVE Ordered
  <2> DEFINE q == menu_press_DPad(press_padd, Here)
  <2>1. Here \in Position /\ Item(Here) = i
    BY <1>1, HereIsPosition DEF MenuInv
  <2>2. MovesTo(q)
    BY <1>1 DEF MainMenu
  <2>3. q \in Position
    BY <2>1, DPadMoves
  <2>4. Item(q) = j
    BY <2>2, <2>3, InBoundsOfPosition
  <2> HIDE DEF i, j
  <2> QED
    BY <2>1, <2>4, DPadMoves
<1>2. MenuInv => [Ordered]_menuVars
  BY <1>1
<1>3. MenuSpec => [][Ordered]_menuVars
  <2> HIDE DEF Ordered
  <2> QED
    BY <1>2, InvAlways, PTL
<1> QED
  BY <1>3 DEF MovesInOrder

(* The buttons that have had their effect are held, and ReadPad knows it.  *)
PressInv == acted \subseteq pad /\ acted \subseteq press_key

(* However long a button is held and whichever of the application's loops  *)
(* reads the pad meanwhile, pressing it once has one effect.               *)
THEOREM PressCorrect == MenuSpec => OnePressOneEffect
<1>1. MenuInit => PressInv
  BY DEF MenuInit, PressInv
<1>2. ASSUME PressInv, [MenuNext]_menuVars PROVE PressInv'
  <2>1. CASE \E b \in Buttons : Press(b) \/ Release(b)
    BY <1>2, <2>1 DEF PressInv, Press, Release
  <2>2. CASE /\ press_key' = pad /\ pad' = pad
             /\ acted' = acted \/ acted' = acted \cup press_padd
    BY <1>2, <2>2 DEF PressInv, press_padd
  <2>3. CASE UNCHANGED <<press_key, pad, acted>>
    BY <1>2, <2>3 DEF PressInv
  <2>. QED
    BY <1>2, <2>1, <2>2, <2>3
    DEF MenuNext, WaitKeyPress, Draw, MainMenu, QafSettings, DialogEnds, MessageKey,
        CallbackReturns, scePowerRequestColdReset, Over, ReadPad, menuVars
<1>3. PressInv => [(acted' # acted /\ pad' = pad) => acted \cap press_padd = {}]_menuVars
  BY DEF PressInv, press_padd
<1>. QED
  BY <1>1, <1>2, <1>3, PTL DEF MenuSpec, OnePressOneEffect

------------------------------------------------------------------------------
(* The configuration.                                                      *)

Configs == [magic : BOOLEAN, IPv4 : Nat, qaf : BOOLEAN, port : Nat]

SettingsTypes ==
  /\ file \in [size : {"none", "empty", "whole"}, data : Configs]
  /\ mem \in Configs /\ kconfig \in Configs

(* Before the menu appears the magic is in the copy that is edited, unless *)
(* there is a whole file or a kernel module to take it from.               *)
LaunchInv ==
  ~skipped =>
    /\ apppc = "create" => mem.magic
    /\ apppc = "search" /\ file.size # "whole" => mem.magic

(* The kernel module's server is the one of a configuration it accepted.   *)
ServerInv == server # NoServer => kconfig.magic /\ server = ServerOf(kconfig)

SettingsInv ==
  SettingsTypes /\ LaunchInv /\ MagicSurvives /\ RepairedOnLaunch /\ ServerInv

(* What the user types is a number, and stays one in 16 bits.              *)
LEMMA EditTypes ==
  ASSUME NEW c \in Configs
  PROVE  /\ \A a \in TypedIPv4s : [c EXCEPT !.IPv4 = a] \in Configs
         /\ \A t \in TypedPorts : [c EXCEPT !.port = StoredPort(t)] \in Configs
         /\ [c EXCEPT !.qaf = ~@] \in Configs
         /\ [c EXCEPT !.magic = TRUE] \in Configs
         /\ Whole(c) \in [size : {"none", "empty", "whole"}, data : Configs]
<1>1. \A a \in TypedIPv4s : a \in Nat
  BY SettingsAssumption
<1>2. \A t \in TypedPorts : StoredPort(t) \in Nat
  BY SettingsAssumption DEF StoredPort
<1>. QED
  BY <1>1, <1>2 DEF Configs, Whole

LEMMA SettingsStart == SettingsInit => SettingsInv
BY DEF SettingsInit, SettingsInv, SettingsTypes, LaunchInv, MagicSurvives,
       RepairedOnLaunch, ServerInv, NoFile, ZeroConfig, Configs

(* A boot, with or without the module.                                     *)
LEMMA SettingsBoot ==
  ASSUME SettingsInv, Boot
  PROVE  SettingsInv'
<1>1. apppc' = "off" /\ mem' = ZeroConfig /\ file' = file
  BY DEF Boot
<1>2. kconfig' \in {file.data, ZeroConfig}
  BY DEF Boot, BootWithModule, BootHoldingL, BootWithoutModule
<1>3. SettingsTypes'
  <2>1. ZeroConfig \in Configs
    BY DEF ZeroConfig, Configs
  <2>2. /\ file \in [size : {"none", "empty", "whole"}, data : Configs]
        /\ file.data \in Configs
    BY DEF SettingsInv, SettingsTypes
  <2>. QED
    BY <1>1, <1>2, <2>1, <2>2 DEF SettingsTypes
<1>4. ~skipped' => ~skipped /\ (resident' => kconfig'.magic)
  BY DEF Boot, BootWithModule, BootHoldingL, BootWithoutModule, Accepts
<1>5. ServerInv'
  BY DEF Boot, BootWithModule, BootHoldingL, BootWithoutModule, Accepts, ServerInv
<1>. QED
  BY <1>1, <1>3, <1>4, <1>5 DEF SettingsInv, LaunchInv, MagicSurvives, RepairedOnLaunch

(* What is left to show of a step that leaves the kernel module alone.     *)
LEMMA KernelKept ==
  ASSUME SettingsInv, UNCHANGED <<kernelVars, skipped>>, SettingsTypes',
         ~skipped => LaunchInv' /\ (file'.size = "whole" => file'.data.magic)
                                /\ (apppc' \in {"menu", "save"} => mem'.magic),
         RepairedOnLaunch'
  PROVE  SettingsInv'
<1>1. resident' = resident /\ kconfig' = kconfig /\ server' = server /\ skipped' = skipped
  BY DEF kernelVars
<1>2. ServerInv'
  BY <1>1 DEF SettingsInv, ServerInv
<1>3. ~skipped => (resident => kconfig.magic)
  BY DEF SettingsInv, MagicSurvives
<1>4. MagicSurvives'
  BY <1>1, <1>3 DEF MagicSurvives
<1>5. LaunchInv'
  BY <1>1 DEF LaunchInv
<1>. QED
  BY <1>2, <1>4, <1>5 DEF SettingsInv

(* The steps up to the menu.                                               *)
LEMMA SettingsLaunch ==
  ASSUME SettingsInv, Launch \/ CreateConfigFile \/ CreateWrite \/ ReadConfig
  PROVE  SettingsInv'
<1>1. UNCHANGED <<kernelVars, skipped>>
  BY DEF Launch, CreateConfigFile, CreateWrite, ReadConfig
<1>2. /\ mem \in Configs /\ kconfig \in Configs
      /\ file \in [size : {"none", "empty", "whole"}, data : Configs]
      /\ file.data \in Configs
  BY DEF SettingsInv, SettingsTypes
<1>3. ~skipped => /\ file.size = "whole" => file.data.magic
                  /\ resident => kconfig.magic
                  /\ apppc = "create" => mem.magic
                  /\ apppc = "search" /\ file.size # "whole" => mem.magic
  BY DEF SettingsInv, LaunchInv, MagicSurvives
<1>4. CASE Launch
  <2>1. apppc' = "stat" /\ file' = file /\ mem' = ZeroConfig /\ kconfig' = kconfig
    BY <1>4 DEF Launch, Goto, kernelVars
  <2>2. SettingsTypes'
    BY <1>2, <2>1 DEF SettingsTypes, ZeroConfig, Configs
  <2>3. LaunchInv' /\ RepairedOnLaunch'
    BY <2>1 DEF LaunchInv, RepairedOnLaunch
  <2>. QED
    BY <1>1, <1>3, <2>1, <2>2, <2>3, KernelKept
<1>5. CASE CreateConfigFile
  <2>1. [mem EXCEPT !.magic = TRUE] \in Configs /\ [mem EXCEPT !.magic = TRUE].magic
    BY <1>2, EditTypes DEF Configs
  <2>2. Empty \in [size : {"none", "empty", "whole"}, data : Configs] /\ Empty.size # "whole"
    BY DEF Empty, ZeroConfig, Configs
  <2>3. kconfig' = kconfig
    BY <1>1 DEF kernelVars
  <2>4. CASE file.size = "whole"
    <3>1. apppc' = "search" /\ file' = file /\ mem' = mem
      BY <1>5, <2>4 DEF CreateConfigFile, Goto
    <3>2. SettingsTypes'
      BY <1>2, <2>3, <3>1 DEF SettingsTypes
    <3>3. LaunchInv' /\ RepairedOnLaunch'
      BY <2>4, <3>1 DEF LaunchInv, RepairedOnLaunch
    <3>. QED
      BY <1>1, <1>3, <3>1, <3>2, <3>3, KernelKept
  <2>5. CASE file.size # "whole"
    <3>1. /\ mem' = [mem EXCEPT !.magic = TRUE]
          /\ \/ file' = Empty /\ apppc' = "create"
             \/ file' = file /\ apppc' = "search" /\ lost' = TRUE
      BY <1>5, <2>5 DEF CreateConfigFile, Goto
    <3>2. SettingsTypes'
      BY <1>2, <2>1, <2>2, <2>3, <3>1 DEF SettingsTypes
    <3>3. mem'.magic
      BY <2>1, <3>1
    <3>4. LaunchInv' /\ RepairedOnLaunch'
      BY <3>1, <3>3 DEF LaunchInv, RepairedOnLaunch
    <3>5. file'.size # "whole"
      BY <2>2, <2>5, <3>1
    <3>. QED
      BY <1>1, <3>1, <3>2, <3>3, <3>4, <3>5, KernelKept
  <2>. QED
    BY <2>4, <2>5
<1>6. CASE CreateWrite
  <2>1. /\ apppc = "create" /\ apppc' = "search" /\ mem' = mem /\ kconfig' = kconfig
        /\ file' = Whole(mem) \/ (file' = file /\ lost' = TRUE)
    BY <1>6 DEF CreateWrite, WriteConfig, Goto, kernelVars
  <2>2. /\ Whole(mem) \in [size : {"none", "empty", "whole"}, data : Configs]
        /\ Whole(mem).size = "whole" /\ Whole(mem).data = mem
    BY <1>2, EditTypes DEF Whole
  <2>3. SettingsTypes'
    BY <1>2, <2>1, <2>2 DEF SettingsTypes
  <2>4. RepairedOnLaunch'
    BY <2>1, <2>2 DEF RepairedOnLaunch
  <2>5. ~skipped => LaunchInv' /\ (file'.size = "whole" => file'.data.magic)
    BY <1>3, <2>1, <2>2 DEF LaunchInv
  <2>6. apppc' \notin {"menu", "save"}
    BY <2>1
  <2>. QED
    BY <1>1, <2>3, <2>4, <2>5, <2>6, KernelKept
<1>7. CASE ReadConfig
  <2>1. /\ apppc = "search" /\ apppc' = "menu" /\ file' = file /\ lost' = lost
        /\ kconfig' = kconfig
    BY <1>7 DEF ReadConfig, Goto, kernelVars
  <2>2. /\ resident => mem' = kconfig
        /\ ~resident /\ file.size = "whole" => mem' = file.data
        /\ ~resident /\ file.size # "whole" => mem' = mem
    BY <1>7 DEF ReadConfig
  <2>3. mem' \in Configs
    BY <1>2, <2>2
  <2>4. SettingsTypes'
    BY <1>2, <2>1, <2>3 DEF SettingsTypes
  <2>5. ~skipped => mem'.magic
    BY <1>3, <2>1, <2>2
  <2>6. LaunchInv'
    BY <2>1 DEF LaunchInv
  <2>7. RepairedOnLaunch'
    BY <2>1 DEF SettingsInv, RepairedOnLaunch
  <2>. QED
    BY <1>1, <1>3, <2>1, <2>4, <2>5, <2>6, <2>7, KernelKept
<1>. QED
  BY <1>4, <1>5, <1>6, <1>7

(* The callbacks of the menu that edit.                                    *)
LEMMA SettingsEdit ==
  ASSUME SettingsInv, SetServerIPv4 \/ SetServerPort \/ ToggleQaf
  PROVE  SettingsInv'
<1>1. /\ apppc = "menu" /\ apppc' = apppc /\ file' = file /\ lost' = lost
      /\ UNCHANGED <<kernelVars, skipped>>
  BY DEF SetServerIPv4, SetServerPort, ToggleQaf, Edit
<1>2. mem \in Configs
  BY DEF SettingsInv, SettingsTypes
<1>3. mem' \in Configs /\ mem'.magic = mem.magic
  <2>1. CASE mem' = mem
    BY <1>2, <2>1
  <2>2. CASE \E a \in TypedIPv4s : mem' = [mem EXCEPT !.IPv4 = a]
    <3>1. PICK a \in TypedIPv4s : mem' = [mem EXCEPT !.IPv4 = a]
      BY <2>2
    <3>2. mem' \in Configs
      BY <1>2, <3>1, EditTypes
    <3>. QED
      BY <1>2, <3>1, <3>2 DEF Configs
  <2>3. CASE \E t \in TypedPorts : mem' = [mem EXCEPT !.port = StoredPort(t)]
    <3>1. PICK t \in TypedPorts : mem' = [mem EXCEPT !.port = StoredPort(t)]
      BY <2>3
    <3>2. mem' \in Configs
      BY <1>2, <3>1, EditTypes
    <3>. QED
      BY <1>2, <3>1, <3>2 DEF Configs
  <2>4. CASE mem' = [mem EXCEPT !.qaf = ~@]
    <3>1. mem' \in Configs
      BY <1>2, <2>4, EditTypes
    <3>. QED
      BY <1>2, <2>4, <3>1 DEF Configs
  <2>5. SetServerIPv4 => mem' = mem \/ \E a \in TypedIPv4s : mem' = [mem EXCEPT !.IPv4 = a]
    BY DEF SetServerIPv4, Edit
  <2>6. SetServerPort =>
          mem' = mem \/ \E t \in TypedPorts : mem' = [mem EXCEPT !.port = StoredPort(t)]
    BY DEF SetServerPort, Edit
  <2>7. ToggleQaf => mem' = [mem EXCEPT !.qaf = ~@]
    BY DEF ToggleQaf, Edit
  <2>. QED
    BY <2>1, <2>2, <2>3, <2>4, <2>5, <2>6, <2>7
<1>4. kconfig' = kconfig
  BY <1>1 DEF kernelVars
<1>5. SettingsTypes'
  BY <1>1, <1>3, <1>4 DEF SettingsInv, SettingsTypes
<1>6. LaunchInv'
  BY <1>1 DEF LaunchInv
<1>7. RepairedOnLaunch'
  BY <1>1 DEF SettingsInv, RepairedOnLaunch
<1>8. ~skipped => mem.magic /\ (file.size = "whole" => file.data.magic)
  BY <1>1 DEF SettingsInv, MagicSurvives
<1>. QED
  BY <1>1, <1>3, <1>5, <1>6, <1>7, <1>8, KernelKept

(* The system call with which the menu updates the kernel module.          *)
LEMMA SettingsUpdate ==
  ASSUME SettingsInv, UpdateConfig
  PROVE  SettingsInv'
<1>1. /\ apppc = "menu" /\ apppc' = apppc /\ mem' = mem /\ file' = file
      /\ resident' = resident /\ lost' = lost /\ skipped' = skipped
  BY DEF UpdateConfig, appVars
<1>2. \/ kconfig' = kconfig /\ server' = server
      \/ kconfig' = mem /\ server' = ServerOf(mem) /\ mem.magic
  BY DEF UpdateConfig
<1>3. SettingsTypes'
  BY <1>1, <1>2 DEF SettingsInv, SettingsTypes
<1>4. ServerInv'
  BY <1>2 DEF SettingsInv, ServerInv
<1>5. LaunchInv'
  BY <1>1 DEF LaunchInv
<1>6. RepairedOnLaunch'
  BY <1>1 DEF SettingsInv, RepairedOnLaunch
<1>7. MagicSurvives'
  BY <1>1, <1>2 DEF SettingsInv, MagicSurvives
<1>. QED
  BY <1>3, <1>4, <1>5, <1>6, <1>7 DEF SettingsInv

(* The callbacks that save and leave.                                      *)
LEMMA SettingsSave ==
  ASSUME SettingsInv, SaveConfig \/ SaveWrite \/ Exit
  PROVE  SettingsInv'
<1>1. UNCHANGED <<kernelVars, skipped>> /\ mem' = mem
  BY DEF SaveConfig, SaveWrite, Exit
<1>2. kconfig' = kconfig /\ mem \in Configs
  BY <1>1 DEF kernelVars, SettingsInv, SettingsTypes
<1>3. /\ Whole(mem) \in [size : {"none", "empty", "whole"}, data : Configs]
      /\ Whole(mem).size = "whole" /\ Whole(mem).data = mem
  BY <1>2, EditTypes DEF Whole
<1>4. Empty \in [size : {"none", "empty", "whole"}, data : Configs] /\ Empty.size # "whole"
  BY DEF Empty, ZeroConfig, Configs
<1>5. /\ apppc \in {"menu", "save"}
      /\ file' \in {file, Empty, Whole(mem)}
      /\ apppc' \in {"menu", "save", "off"}
      /\ apppc' = "menu" => \/ file' = Whole(mem)
                            \/ file' = file /\ lost' = TRUE
                            \/ apppc = "menu" /\ file' = file /\ lost' = lost
  BY DEF SaveConfig, SaveWrite, Exit, WriteConfig, Goto
<1>6. SettingsTypes'
  BY <1>1, <1>2, <1>3, <1>4, <1>5 DEF SettingsInv, SettingsTypes
<1>7. LaunchInv'
  BY <1>5 DEF LaunchInv
<1>8. RepairedOnLaunch'
  BY <1>3, <1>5 DEF SettingsInv, RepairedOnLaunch
<1>9. ~skipped => mem.magic /\ (file.size = "whole" => file.data.magic)
  BY <1>5 DEF SettingsInv, MagicSurvives
<1>10. ~skipped => (file'.size = "whole" => file'.data.magic)
  BY <1>3, <1>4, <1>5, <1>9
<1>. QED
  BY <1>1, <1>6, <1>7, <1>8, <1>9, <1>10, KernelKept

LEMMA SettingsAlways == SettingsSpec => []SettingsInv
<1>1. SettingsInv /\ [SettingsNext]_settingsVars => SettingsInv'
  <2>. SUFFICES ASSUME SettingsInv, [SettingsNext]_settingsVars PROVE SettingsInv'
    OBVIOUS
  <2>1. CASE UNCHANGED settingsVars
    BY <2>1 DEF settingsVars, SettingsInv, SettingsTypes, LaunchInv, MagicSurvives,
                RepairedOnLaunch, ServerInv
  <2>. QED
    BY <2>1, SettingsBoot, SettingsLaunch, SettingsEdit, SettingsUpdate, SettingsSave
    DEF SettingsNext, AppStep
<1>. QED
  BY <1>1, SettingsStart, PTL DEF SettingsSpec

(* As long as no boot loaded the kernel module without a valid file, the   *)
(* magic is in every whole file, in the copy that is edited and in the     *)
(* kernel, whatever the user typed and wherever the power failed.          *)
THEOREM MagicCorrect == SettingsSpec => []MagicSurvives
<1>1. SettingsInv => MagicSurvives
  BY DEF SettingsInv
<1>. QED
  BY <1>1, SettingsAlways, PTL

(* A file that a power loss left empty is whole when the menu appears,     *)
(* unless the write that repairs it failed as well.                        *)
THEOREM RepairCorrect == SettingsSpec => []RepairedOnLaunch
<1>1. SettingsInv => RepairedOnLaunch
  BY DEF SettingsInv
<1>. QED
  BY <1>1, SettingsAlways, PTL

(* When the file holds the configuration that a running kernel module was  *)
(* updated to, a boot with that file leads to the same server: "Update     *)
(* Configuration (along with saving it)" stands for a reboot.              *)
THEOREM UpdateCorrect == SettingsSpec => UpdateStandsForReboot
<1>. DEFINE Same == resident /\ server # NoServer /\ file = Whole(kconfig) /\ msg' = "booted"
                      => server' = server
<1>1. ASSUME SettingsInv, SettingsNext PROVE Same
  <2>. SUFFICES ASSUME server # NoServer, file = Whole(kconfig), msg' = "booted"
                PROVE  server' = server
    OBVIOUS
  <2>1. CASE Boot
    <3>1. BootWithModule
      BY <2>1 DEF Boot, BootHoldingL, BootWithoutModule
    <3>2. file.size = "whole" /\ file.data = kconfig
      BY DEF Whole
    <3>3. Accepts /\ server = ServerOf(kconfig)
      BY <1>1, <3>2 DEF SettingsInv, ServerInv, Accepts
    <3>. QED
      BY <3>1, <3>2, <3>3 DEF BootWithModule
  <2>2. CASE AppStep
    BY <2>2 DEF AppStep, Launch, CreateConfigFile, CreateWrite, ReadConfig, SetServerIPv4,
                SetServerPort, ToggleQaf, Edit, UpdateConfig, SaveConfig, SaveWrite, Exit,
                kernelVars
  <2>. QED
    BY <1>1, <2>1, <2>2 DEF SettingsNext
<1>2. SettingsInv /\ [SettingsNext]_settingsVars => [Same]_settingsVars
  BY <1>1
<1>3. SettingsSpec => [][Same]_settingsVars
  <2>. HIDE DEF Same
  <2>. QED
    BY <1>2, SettingsAlways, PTL DEF SettingsSpec
<1>. QED
  BY <1>3 DEF UpdateStandsForReboot
==============================================================================
