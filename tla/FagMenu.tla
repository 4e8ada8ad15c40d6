------------------------------- MODULE FagMenu -------------------------------
(***************************************************************************)
(* The two panes of the FAGDec application: the list of titles, from which *)
(* the user opens a title and adds its modules, and the list of modules to *)
(* be decrypted (dump_menu), which dump_thread walks while the user may    *)
(* still work on it.  A heading with the title id stands above the modules *)
(* of a title; dump_thread takes the licence from the last heading it has  *)
(* passed.                                                                 *)
(*                                                                         *)
(* A doubly linked list of entries is the sequence of its entries, a       *)
(* pointer to an entry its position, 0 the null pointer.  The `index' that *)
(* menu.c keeps in each entry, and by which it finds entries again, is a   *)
(* field.  Scrolling and drawing are left out.                             *)
(***************************************************************************)
EXTENDS Integers, Sequences, SequencesExt

CONSTANTS NSystem,     \* the "SYSTEM:" lines of the game menu, 6 in the code
          MaxTitles,   \* bound: the PFS titles with a name in ur0:/appmeta
          MaxFound,    \* bound: the modules found in a title
          MaxEntries   \* bound: the entries of dump_menu

ASSUME FagMenuAssumption ==
  /\ NSystem \in Nat \ {0}
  /\ {MaxTitles, MaxFound, MaxEntries} \subseteq Nat

VARIABLES
  titles,        \* how many titles are in the list of games
  current_game,  \* the game that was opened last, 0 for none
  line,          \* the line of the game menu it was opened from, 0 when the
                 \* list of its modules is not shown any more
  found,         \* the modules dumpPopulateThread has listed so far
  all_entry,     \* the module dumpAllCB is at, 0 when it is not running
  dump_menu,     \* the entries of the right pane
  selected,      \* dump_menu->entry_selected
  entry_index,   \* dump_menu->entry_index
  right,         \* dump_menu->active
  dpc,           \* dump_thread: "idle", at the top of its "loop", "decrypt"
  menu_entry,    \* the entry dump_thread is at
  titleid,       \* the text of the last heading it passed
  mounted,       \* the title whose files are mounted at its mount_point
  tampered       \* a heading was marked, or the entry dump_thread is at deleted

leftVars == <<titles, current_game, line, found, all_entry>>
dumpMenuVars == <<dump_menu, selected, entry_index>>
walkVars == <<dpc, menu_entry, titleid, mounted>>
fagMenuVars == <<leftVars, dumpMenuVars, right, walkVars, tampered>>

(* Title ids are numbers, those of the titles in the order of the list:    *)
(* they are names of directories, all different.  The system folders share *)
(* one, and the title line of dump_menu has a text that no id equals.      *)
SYSTEM == 0
NoTitle == -1

------------------------------------------------------------------------------
(* The list of games.                                                      *)

(* The lines above the titles: three of text, "Decrypt modules", "Credits",*)
(* "SYSTEM:", the system folders and "PFS TITLES FOUND:".                  *)
menu_start_index == 3 + 2 + 1 + NSystem + 1

(* gameGenerateMenu: the games in the order of their lines; `menu_index'   *)
(* is the line gameAdd put a game on.                                      *)
games ==
  [g \in 1 .. (NSystem + titles) |->
     IF g <= NSystem
       THEN [titleid |-> SYSTEM, menu_index |-> 5 + g]
       ELSE [titleid |-> g - NSystem, menu_index |-> menu_start_index + g - NSystem - 1]]

(* gameEntryCB: which game a line stands for (games[] counts from zero).   *)
GameOfLine(l) ==
  1 + IF l - menu_start_index < 0
        THEN NSystem + 1 + l - menu_start_index
        ELSE l - menu_start_index + NSystem

(* Opening a title: dumpGenerateModuleMenu starts an empty list.           *)
dumpGenerateModuleMenu(l) ==
  /\ current_game' = GameOfLine(l)
  /\ line' = l
  /\ found' = 0
  /\ UNCHANGED <<titles, all_entry, dumpMenuVars, right, walkVars, tampered>>

OpenTitle ==
  /\ line = 0 /\ ~right
  /\ \E g \in DOMAIN games : dumpGenerateModuleMenu(games[g].menu_index)

(* The bound on the entries leaves room for a heading and the modules up   *)
(* to n that dumpAllCB is about to add.                                    *)
Room(n) ==
  Len(dump_menu) + 1 + n - (IF all_entry = 0 THEN 0 ELSE all_entry - 1) <= MaxEntries

(* dumpPopulateThread finds another module, perhaps while dumpAllCB walks  *)
(* the list.                                                               *)
dumpPopulateThread ==
  /\ line # 0 /\ found < MaxFound
  /\ all_entry # 0 => Room(found + 1)
  /\ found' = found + 1
  /\ UNCHANGED <<titles, current_game, line, all_entry, dumpMenuVars, right,
                 walkVars, tampered>>

(* dumpModuleEntryBackCB waits for that thread and goes back to the games. *)
dumpModuleEntryBackCB ==
  /\ line # 0 /\ ~right
  /\ line' = 0 /\ found' = 0
  /\ UNCHANGED <<titles, current_game, all_entry, dumpMenuVars, right, walkVars,
                 tampered>>

------------------------------------------------------------------------------
(* menu.c on the right pane.                                               *)

(* `text' is the title id of a heading, `own' the line of the game menu    *)
(* that a module was added from; which of its modules it is, is left out.  *)
Entry(k, t, o, ty, i) ==
  [kind |-> k, text |-> t, own |-> o, type |-> ty, index |-> i]

(* MenuFindNextEntry in either direction: the start entry if there is none.*)
FindNext(p, S) ==
  LET cand == {q \in S : dump_menu[q].type # "DISABLE"}
  IN  IF cand = {} THEN p
      ELSE CHOOSE q \in cand : \A r \in cand : (q - p) * (q - p) <= (r - p) * (r - p)
NextUp(p) == FindNext(p, 1 .. (p - 1))
NextDown(p) == FindNext(p, (p + 1) .. Len(dump_menu))

(* Faulty: the heading is left out when there is one already.              *)
dumpAddEntryBare(state) ==
  [state EXCEPT !.list = Append(@, Entry("module", 0, line, "NONE", state.n)),
                !.n = state.n + 1,
                !.sel = IF @ = 0 THEN Len(state.list) + 1 ELSE @]

(* dumpAddEntry: a heading if the last one is of another title, the module *)
(* itself, and the selection follows it down when it was at the end.       *)
dumpAddEntry(state) ==
  LET last  == CHOOSE p \in DOMAIN state.list :
                 /\ state.list[p].type = "DISABLE"
                 /\ \A q \in (p + 1) .. Len(state.list) :
                      state.list[q].type # "DISABLE"
      id    == games[current_game].titleid
      title == state.list[last].text # id
      head  == IF title
                 THEN <<Entry("heading", id, 0, "DISABLE", state.n)>> ELSE <<>>
      list  == state.list \o head \o
               <<Entry("module", 0, line, "NONE", state.n + Len(head))>>
      end   == Len(list)
      first == IF state.sel = 0 THEN end ELSE state.sel
      at(p) == p \in DOMAIN list /\ list[first].index = list[p].index
  IN  [list |-> list,
       n    |-> state.n + Len(head) + 1,
       sel  |-> IF at(end - 1) \/ (title /\ at(end - 2)) THEN end ELSE first]

Menu0 == [list |-> dump_menu, sel |-> selected, n |-> entry_index]

Add ==
  LET state == dumpAddEntry(Menu0)
  IN  dump_menu' = state.list /\ selected' = state.sel /\ entry_index' = state.n

(* dumpModuleMenuEntryCB.                                                  *)
AddOne ==
  /\ line # 0 /\ ~right
  /\ Len(dump_menu) + 2 <= MaxEntries
  /\ found > 0
  /\ Add
  /\ UNCHANGED <<leftVars, right, walkVars, tampered>>

(* dumpAllCB goes through the list of modules to its end; dump_thread and  *)
(* dumpPopulateThread go on meanwhile.                                     *)
dumpAllCB ==
  /\ line # 0 /\ ~right /\ Room(found)
  /\ all_entry' = 1
  /\ UNCHANGED <<titles, current_game, line, found, dumpMenuVars, right, walkVars,
                 tampered>>

AddNext ==
  /\ all_entry \in 1 .. found
  /\ Add
  /\ all_entry' = all_entry + 1
  /\ UNCHANGED <<titles, current_game, line, found, right, walkVars, tampered>>

AllAdded ==
  /\ all_entry > found
  /\ all_entry' = 0
  /\ UNCHANGED <<titles, current_game, line, found, dumpMenuVars, right, walkVars,
                 tampered>>

(* DOWN and UP.                                                            *)
MoveSelection ==
  /\ right /\ selected # 0
  /\ selected' \in {NextUp(selected), NextDown(selected)}
  /\ UNCHANGED <<leftVars, dump_menu, entry_index, right, walkVars, tampered>>

(* Circle marks the selected entry, cross takes the mark away again.       *)
Mark ==
  /\ right /\ selected # 0
  /\ \/ /\ dump_menu[selected].type # "WARNING"
        /\ dump_menu' = [dump_menu EXCEPT ![selected].type = "WARNING"]
     \/ /\ dump_menu[selected].type = "WARNING"
        /\ dump_menu[selected].kind = "module"
        /\ dump_menu' = [dump_menu EXCEPT ![selected].type = "NONE"]
  /\ tampered' = (tampered \/ dump_menu[selected].kind # "module")
  /\ UNCHANGED <<leftVars, selected, entry_index, right, walkVars>>

(* A pointer after the entry at p has been unlinked.                       *)
Past(q, p) == IF q > p THEN q - 1 ELSE q

(* MenuDeleteEntry's loop finds the entry by its index.                    *)
Unlinked(i) ==
  RemoveAt(dump_menu, CHOOSE p \in DOMAIN dump_menu : dump_menu[p].index = i)

(* Faulty: the entries below keep their index.                             *)
RenumberNot(i) == Unlinked(i)

(* The entry goes, the ones below move up by one.                          *)
Renumber(i) ==
  [p \in DOMAIN Unlinked(i) |->
     [Unlinked(i)[p] EXCEPT !.index = IF @ > i THEN @ - 1 ELSE @]]

(* Circle on a marked entry: MenuDeleteEntry.  The selection moves up; if  *)
(* nothing above can be selected it becomes null, also when there is       *)
(* something below.                                                        *)
MenuDeleteEntry ==
  /\ right /\ selected # 0 /\ dump_menu[selected].type = "WARNING"
  /\ dump_menu' = Renumber(dump_menu[selected].index)
  /\ selected' = IF NextUp(selected) = selected THEN 0
                                                ELSE Past(NextUp(selected), selected)
  /\ entry_index' = entry_index - 1
  /\ tampered' = (tampered \/ (dpc # "idle" /\ menu_entry = selected))
  /\ IF dpc # "idle" /\ menu_entry = selected
       THEN menu_entry' \in DOMAIN dump_menu'  \* the pointer dangles
       ELSE menu_entry' = Past(menu_entry, selected)
  /\ UNCHANGED <<leftVars, right, dpc, titleid, mounted>>

(* LEFT and RIGHT in handleSpecInput.                                      *)
handleSpecInput ==
  /\ right' = ~right
  /\ UNCHANGED <<leftVars, dumpMenuVars, walkVars, tampered>>

------------------------------------------------------------------------------
(* dump_thread's walk; FAGDec has what it does with a module.              *)

(* From the status menu, which opens from the list of games.               *)
dumpStart ==
  /\ dpc = "idle" /\ ~right /\ line = 0
  /\ dpc' = "loop" /\ menu_entry' = 1 /\ titleid' = NoTitle /\ mounted' = NoTitle
  /\ UNCHANGED <<leftVars, dumpMenuVars, right, tampered>>

Walking == dpc = "loop" /\ menu_entry # 0

(* Every round takes the right pane away from the user.                    *)
Round == right' = FALSE /\ UNCHANGED <<leftVars, dump_menu, entry_index, tampered>>

NextEntry(p) == IF p < Len(dump_menu) THEN p + 1 ELSE 0

(* The end of a round; in front of a heading and at the end of the list    *)
(* what is mounted (`m') is unmounted.                                     *)
Advance(m) ==
  /\ dpc' = "loop" /\ menu_entry' = NextEntry(menu_entry)
  /\ mounted' = IF menu_entry' = 0 THEN NoTitle
                ELSE IF dump_menu[menu_entry'].kind = "heading" THEN NoTitle ELSE m
  /\ selected' = IF menu_entry' # 0 THEN menu_entry' ELSE selected

(* gamePfsDecrypt mounts the title of current_game, and not the one it is  *)
(* given; a system folder has no title that could be mounted.              *)
gamePfsDecrypt == games[current_game].titleid

(* A system heading: `continue', the selection stays.                      *)
SystemHeading ==
  /\ Walking /\ dump_menu[menu_entry].kind = "heading"
  /\ dump_menu[menu_entry].text = SYSTEM
  /\ titleid' = SYSTEM
  /\ menu_entry' = NextEntry(menu_entry)
  /\ UNCHANGED <<dpc, mounted, selected>>
  /\ Round

(* A title whose PFS is mounted and whose licence is found.                *)
TitleHeading ==
  /\ Walking /\ dump_menu[menu_entry].kind = "heading"
  /\ dump_menu[menu_entry].text # SYSTEM
  /\ titleid' = dump_menu[menu_entry].text
  /\ gamePfsDecrypt # SYSTEM
  /\ Advance(gamePfsDecrypt)
  /\ Round

(* The mount failed or there is no licence (the mount stays): dumpSkipGame.*)
dumpSkipGame ==
  /\ Walking /\ dump_menu[menu_entry].kind = "heading"
  /\ dump_menu[menu_entry].text # SYSTEM
  /\ titleid' = dump_menu[menu_entry].text
  /\ mounted' \in {mounted} \cup ({gamePfsDecrypt} \ {SYSTEM})
  /\ LET later == {q \in (menu_entry + 1) .. Len(dump_menu) :
                     dump_menu[q].type = "DISABLE"}
     IN  menu_entry' = IF later = {} THEN 0
                       ELSE CHOOSE q \in later : \A r \in later : q <= r
  /\ UNCHANGED <<dpc, selected>>
  /\ Round

TitleLine ==
  /\ Walking /\ dump_menu[menu_entry].kind = "title"
  /\ Advance(mounted)
  /\ UNCHANGED titleid
  /\ Round

Decrypt ==
  /\ Walking /\ dump_menu[menu_entry].kind = "module"
  /\ dpc' = "decrypt"
  /\ UNCHANGED <<menu_entry, titleid, mounted, selected>>
  /\ Round

Decrypted ==
  /\ dpc = "decrypt"
  /\ Advance(mounted)
  /\ UNCHANGED <<leftVars, dump_menu, entry_index, right, titleid, tampered>>

DumpDone ==
  /\ dpc = "loop" /\ menu_entry = 0
  /\ dpc' = "idle"
  /\ UNCHANGED <<leftVars, dumpMenuVars, right, menu_entry, titleid, mounted, tampered>>

------------------------------------------------------------------------------
(* dumpGenerateMenu.                                                       *)
FagMenuInit ==
  /\ titles \in 0 .. MaxTitles
  /\ current_game = 0 /\ line = 0 /\ found = 0 /\ all_entry = 0
  /\ dump_menu = <<Entry("title", NoTitle, 0, "DISABLE", 0)>>
  /\ selected = 0 /\ entry_index = 1 /\ right = FALSE
  /\ dpc = "idle" /\ menu_entry = 0 /\ titleid = NoTitle /\ mounted = NoTitle
  /\ tampered = FALSE

(* The main thread is in a callback or looks at the buttons.               *)
UserStep ==
  \/ /\ all_entry = 0
     /\ \/ OpenTitle \/ dumpModuleEntryBackCB \/ AddOne \/ dumpAllCB
        \/ MoveSelection \/ Mark \/ MenuDeleteEntry \/ handleSpecInput \/ dumpStart
  \/ all_entry # 0 /\ (AddNext \/ AllAdded)

dumpThread ==
  \/ SystemHeading \/ TitleHeading \/ dumpSkipGame \/ TitleLine
  \/ Decrypt \/ Decrypted \/ DumpDone

FagMenuNext == UserStep \/ dumpPopulateThread \/ dumpThread

FagMenuSpec == FagMenuInit /\ [][FagMenuNext]_fagMenuVars

------------------------------------------------------------------------------
(* The title on a line of the game menu.                                   *)
TitleOn(l) == games[CHOOSE g \in DOMAIN games : games[g].menu_index = l].titleid

(* A module is decrypted with the licence of the title the user saw on the *)
(* line it was added from: gameEntryCB's arithmetic, the headings that     *)
(* dumpAddEntry puts in, and the walk agree, whatever is added or deleted  *)
(* meanwhile, as long as no heading is marked for deletion (only           *)
(* dump_thread selects one) and the very entry that is being decrypted is  *)
(* not deleted.                                                            *)
DecryptedAsItsTitle ==
  dpc = "decrypt" /\ ~tampered => titleid = TitleOn(dump_menu[menu_entry].own)

(* What the README says of the titles on the screen (select the title and  *)
(* its modules, and they are decrypted): while a module of a title is      *)
(* decrypted it is that title whose files are mounted.  gamePfsDecrypt     *)
(* mounts the title that was opened last.                                  *)
MountsItsTitle ==
  dpc = "decrypt" /\ ~tampered /\ titleid # SYSTEM => mounted = titleid

(* After any deletions the index of an entry is its place in the list, and *)
(* the selection is a module of the list or null: the two by which menu.c  *)
(* finds an entry again never name another one.                            *)
IndexIsPlace ==
  /\ entry_index = Len(dump_menu)
  /\ \A p \in DOMAIN dump_menu : dump_menu[p].index = p - 1
  /\ selected \in 0 .. Len(dump_menu)
=============================================================================
