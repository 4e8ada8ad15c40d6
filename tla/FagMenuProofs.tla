---------------------------- MODULE FagMenuProofs -----------------------------
(***************************************************************************)
(* FAGDec's list of modules, for any number of titles, system folders and  *)
(* modules, and for every interleaving of the user with dump_thread.       *)
(*                                                                         *)
(* IndexIsPlace is inductive once it is known that the title line is never *)
(* selected (TitleStays), so that it cannot be deleted, and that a pointer *)
(* of dump_thread is an entry or null.                                     *)
(*                                                                         *)
(* DecryptedAsItsTitle needs a description of the list that survives an    *)
(* entry leaving its middle (Titled): a heading names the title of every   *)
(* module that only modules separate from it, and neighbouring modules are *)
(* of the same title.  dumpAddEntry keeps it because the last heading it   *)
(* compares with is the one the module will stand below.                   *)
(***************************************************************************)
EXTENDS FagMenu, SequenceTheorems, WellFoundedInduction, TLAPS

(* The first and the last of some places of a list.                        *)
LEMMA Least ==
  ASSUME NEW T, T \subseteq Nat, T # {}
  PROVE  \E x \in T : \A y \in T : x <= y
<1>1. PICK x \in T : \A y \in T : ~(<<y, x>> \in OpToRel(<, Nat))
  BY NatLessThanWellFounded, WFMin
<1>2. ASSUME NEW y \in T PROVE x <= y
  <2>1. ~(y < x)
    BY <1>1 DEF OpToRel
  <2>. QED  BY <2>1
<1>. QED  BY <1>2

(* Likewise the last place, by the distance from above.                    *)
LEMMA Greatest ==
  ASSUME NEW n \in Nat, NEW T, T \subseteq 0 .. n, T # {}
  PROVE  \E x \in T : \A y \in T : y <= x
<1>. DEFINE U == {n - t : t \in T}
<1>1. U \subseteq Nat /\ U # {}
  OBVIOUS
<1>2. PICK u \in U : \A y \in U : u <= y
  BY <1>1, Least
<1>3. PICK x \in T : u = n - x
  OBVIOUS
<1>4. ASSUME NEW y \in T PROVE y <= x
  <2>1. n - x <= n - y
    BY <1>2, <1>3
  <2>. QED  BY <2>1
<1>. QED  BY <1>4

(* The entries of the list.                                                *)
Kinds == {"title", "heading", "module"}
EntryTypes == {"NONE", "DISABLE", "WARNING"}
Entries == [kind : Kinds, text : Int, own : Nat, type : EntryTypes, index : Int]

(* A line of the game menu and the game it stands for.                     *)
LEMMA Games ==
  ASSUME titles \in Nat, NEW g \in DOMAIN games
  PROVE  /\ GameOfLine(games[g].menu_index) = g
         /\ TitleOn(games[g].menu_index) = games[g].titleid
         /\ games[g].titleid \in Nat /\ games[g].menu_index \in Nat \ {0}
<1>. USE FagMenuAssumption
<1>1. ASSUME NEW h \in DOMAIN games
      PROVE  /\ GameOfLine(games[h].menu_index) = h
             /\ games[h].titleid \in Nat /\ games[h].menu_index \in Nat \ {0}
  <2>1. h \in Nat /\ h >= 1 /\ h <= NSystem + titles
    BY DEF games
  <2>2. CASE h <= NSystem
    <3>1. games[h].menu_index = 5 + h /\ games[h].titleid = 0
      BY <2>1, <2>2 DEF games, SYSTEM
    <3>. QED  BY <2>1, <2>2, <3>1 DEF GameOfLine, menu_start_index
  <2>3. CASE h > NSystem
    <3>1. games[h].menu_index = menu_start_index + h - NSystem - 1 /\ games[h].titleid = h - NSystem
      BY <2>1, <2>3 DEF games
    <3>. QED  BY <2>1, <2>3, <3>1 DEF GameOfLine, menu_start_index
  <2>. QED  BY <2>1, <2>2, <2>3
<1>2. \A h \in DOMAIN games : games[h].menu_index = games[g].menu_index => h = g
  BY <1>1
<1>. QED  BY <1>1, <1>2 DEF TitleOn

(* The line that is open is the one of its game.                           *)
FagTypes ==
  /\ titles \in Nat /\ line \in Nat
  /\ line # 0 => current_game \in DOMAIN games /\ line = games[current_game].menu_index
  /\ all_entry # 0 => line # 0
  /\ dump_menu \in Seq(Entries)
  /\ menu_entry \in 0 .. Len(dump_menu)

(* The title line is never selected, so it cannot be deleted.              *)
TitleStays == Len(dump_menu) >= 1 /\ dump_menu[1].type = "DISABLE" /\ selected # 1

(* dump_thread stands nowhere when it does not run.                        *)
ThreadInv ==
  /\ dpc = "idle" => menu_entry = 0
  /\ dpc = "decrypt" => menu_entry # 0

FagMenuInv == FagTypes /\ TitleStays /\ ThreadInv /\ IndexIsPlace

(* menu.c's search from an entry, either way.                              *)
LEMMA Found ==
  ASSUME FagTypes, NEW p \in DOMAIN dump_menu, NEW S, S \subseteq DOMAIN dump_menu
  PROVE  \/ FindNext(p, S) = p
         \/ FindNext(p, S) \in S /\ dump_menu[FindNext(p, S)].type # "DISABLE"
<1>. DEFINE cand == {q \in S : dump_menu[q].type # "DISABLE"}
            T == {(q - p) * (q - p) : q \in cand}
<1>1. CASE cand = {}
  BY <1>1 DEF FindNext
<1>2. CASE cand # {}
  <2>1. T # {} /\ \A q \in cand : q \in Int /\ (q - p) * (q - p) \in T
    BY <1>2 DEF FagTypes
  <2>2. \A d \in Int : d * d \in Nat
    OBVIOUS
  <2>3. T \subseteq Nat
    <3>1. \A q \in cand : (q - p) * (q - p) \in Nat
      <4>. TAKE q \in cand
      <4>1. q - p \in Int
        BY <2>1 DEF FagTypes
      <4>. QED  BY <2>2, <4>1
    <3>. QED  BY <3>1
  <2>4. PICK x \in T : \A y \in T : x <= y
    BY <2>1, <2>3, Least
  <2>5. PICK q \in cand : x = (q - p) * (q - p)
    OBVIOUS
  <2>6. \A r \in cand : (q - p) * (q - p) <= (r - p) * (r - p)
    BY <2>1, <2>4, <2>5
  <2>7. FindNext(p, S) = CHOOSE q1 \in cand : \A r \in cand : (q1 - p) * (q1 - p) <= (r - p) * (r - p)
    BY <1>2 DEF FindNext
  <2>. QED  BY <2>6, <2>7
<1>. QED  BY <1>1, <1>2

(* The last entry that cannot be selected, as MenuFindType finds it.       *)
LastHeading ==
  CHOOSE p \in DOMAIN dump_menu :
    /\ dump_menu[p].type = "DISABLE"
    /\ \A q \in (p + 1) .. Len(dump_menu) : dump_menu[q].type # "DISABLE"

(* The list after a module was added, under a heading of its own or not.   *)
Grown(id, k) ==
  /\ dump_menu' \in Seq(Entries) /\ Len(dump_menu') = Len(dump_menu) + k + 1
  /\ \A p \in 1 .. Len(dump_menu) : dump_menu'[p] = dump_menu[p]
  /\ dump_menu'[Len(dump_menu) + k + 1]
       = Entry("module", 0, line, "NONE", Len(dump_menu) + k)
  /\ entry_index' = Len(dump_menu) + k + 1
  /\ selected' \in {selected, Len(dump_menu) + k + 1}
  /\ k = 0 => dump_menu[LastHeading].text = id
  /\ k = 1 => dump_menu'[Len(dump_menu) + 1]
                = Entry("heading", id, 0, "DISABLE", Len(dump_menu))

(* dumpAddEntry appends a module, and a heading in front of it if the last *)
(* heading is of another title; the rest of the list stays.                *)
LEMMA Added ==
  ASSUME FagMenuInv, line # 0, Add
  PROVE  /\ TitleOn(line) \in Nat
         /\ Grown(TitleOn(line), 0) \/ Grown(TitleOn(line), 1)
<1>. DEFINE id    == TitleOn(line)
            n     == Len(dump_menu)
            head  == Entry("heading", id, 0, "DISABLE", n)
            mod(k) == Entry("module", 0, line, "NONE", n + k)
            title == dump_menu[LastHeading].text # id
            k0    == IF title THEN 1 ELSE 0
            list  == dump_menu \o (IF title THEN <<head>> ELSE <<>>) \o <<mod(k0)>>
<1>1. id \in Nat /\ id = games[current_game].titleid /\ line \in Nat
  BY Games DEF FagMenuInv, FagTypes
<1>2. /\ n \in Nat /\ dump_menu \in Seq(Entries) /\ entry_index = n
      /\ selected \in 0 .. n
  BY LenProperties DEF FagMenuInv, FagTypes, IndexIsPlace
<1>3. /\ dump_menu' = list /\ entry_index' = n + k0 + 1
      /\ selected' \in {Len(list), selected}
  <2>. DEFINE state == dumpAddEntry(Menu0)
  <2>1. Menu0.list = dump_menu /\ Menu0.sel = selected /\ Menu0.n = n
    BY <1>2 DEF Menu0
  <2>2. state.list = list
    BY <1>1, <2>1 DEF dumpAddEntry, LastHeading
  <2>3. state.n = n + k0 + 1
    BY <1>1, <2>1 DEF dumpAddEntry, LastHeading
  <2>4. state.sel \in {Len(list), selected}
    BY <1>1, <2>1 DEF dumpAddEntry, LastHeading
  <2>. QED  BY <2>2, <2>3, <2>4 DEF Add
<1>4. head \in Entries /\ \A k \in {0, 1} : mod(k) \in Entries
  BY <1>1, <1>2 DEF Entry, Entries, Kinds, EntryTypes
<1>. HIDE DEF head, mod, id
<1>5. CASE title
  <2>1. list = dump_menu \o <<head>> \o <<mod(1)>>
    BY <1>5
  <2>2. PICK l \in Seq(Entries) : l = dump_menu \o <<head>>
    <3>1. <<head>> \in Seq(Entries)
      BY <1>4
    <3>2. dump_menu \o <<head>> \in Seq(Entries)
      BY <1>2, <3>1, ConcatProperties
    <3>. QED  BY <3>2
  <2>3. Len(l) = n + 1 /\ \A p \in 1 .. n + 1 : l[p] = IF p <= n THEN dump_menu[p] ELSE head
    BY <1>2, <1>4, <2>2
  <2>4. /\ list \in Seq(Entries) /\ Len(list) = n + 1 + 1
        /\ \A p \in 1 .. n + 1 + 1 : list[p] = IF p <= n + 1 THEN l[p] ELSE mod(1)
    BY <1>2, <1>4, <2>1, <2>2, <2>3
  <2>. QED  BY <1>1, <1>2, <1>3, <1>5, <2>3, <2>4 DEF Grown, mod, head, id
<1>6. CASE ~title
  <2>1. list = dump_menu \o <<mod(0)>>
    BY <1>2, <1>6
  <2>2. /\ list \in Seq(Entries) /\ Len(list) = n + 1
        /\ \A p \in 1 .. n + 1 : list[p] = IF p <= n THEN dump_menu[p] ELSE mod(0)
    BY <1>2, <1>4, <2>1
  <2>. QED  BY <1>1, <1>2, <1>3, <1>6, <2>2 DEF Grown, mod, id
<1>. QED  BY <1>1, <1>5, <1>6

(* The place an entry had before the one at s was unlinked.                *)
Before(p, s) == IF p < s THEN p ELSE p + 1

(* Unlinking an entry: the ones behind it move up by one.                  *)
LEMMA Removing ==
  ASSUME NEW S, NEW s \in Seq(S), NEW k \in 1 .. Len(s)
  PROVE  /\ RemoveAt(s, k) \in Seq(S) /\ Len(RemoveAt(s, k)) = Len(s) - 1
         /\ \A p \in 1 .. (Len(s) - 1) : RemoveAt(s, k)[p] = s[Before(p, k)]
<1>1. PICK n \in Nat : n = Len(s)
  OBVIOUS
<1>2. PICK m \in Int, l \in Int : m = k - 1 /\ l = k + 1
  BY <1>1
<1>3. k \in Int /\ 1 <= k /\ k <= n /\ \A p \in 1 .. n : s[p] \in S
  BY <1>1
<1>4. PICK a : a = SubSeq(s, 1, m)
  OBVIOUS
<1>5. PICK b : b = SubSeq(s, l, n)
  OBVIOUS
<1>6. /\ a \in Seq(S) /\ Len(a) = m
      /\ \A p \in 1 .. m : a[p] = s[p]
  <2>1. \A p \in 1 .. m : s[p] \in S
    BY <1>2, <1>3
  <2>2. /\ a \in Seq(S) /\ Len(a) = (IF 1 <= m THEN m - 1 + 1 ELSE 0)
        /\ \A p \in 1 .. m - 1 + 1 : a[p] = s[1 + p - 1]
    BY <1>4, <2>1, SubSeqProperties
  <2>. QED  BY <1>2, <1>3, <2>2
<1>7. /\ b \in Seq(S) /\ Len(b) = n - k
      /\ \A p \in 1 .. (n - k) : b[p] = s[k + p]
  <2>1. \A p \in l .. n : s[p] \in S
    BY <1>2, <1>3
  <2>2. /\ b \in Seq(S) /\ Len(b) = (IF l <= n THEN n - l + 1 ELSE 0)
        /\ \A p \in 1 .. n - l + 1 : b[p] = s[l + p - 1]
    BY <1>5, <2>1, SubSeqProperties
  <2>3. n - l + 1 = n - k /\ \A p \in Int : l + p - 1 = k + p
    BY <1>2, <1>3
  <2>. QED  BY <1>2, <1>3, <2>2, <2>3
<1>8. PICK c : c = a \o b
  OBVIOUS
<1>9. RemoveAt(s, k) = c
  BY <1>1, <1>2, <1>4, <1>5, <1>8 DEF RemoveAt
<1>10. /\ c \in Seq(S) /\ Len(c) = m + (n - k)
       /\ \A p \in 1 .. m + (n - k) : c[p] = IF p <= m THEN a[p] ELSE b[p - m]
  <2>1. /\ c \in Seq(S) /\ Len(c) = Len(a) + Len(b)
        /\ \A p \in 1 .. Len(a) + Len(b) : c[p] = IF p <= Len(a) THEN a[p] ELSE b[p - Len(a)]
    BY <1>6, <1>7, <1>8, ConcatProperties
  <2>. QED  BY <1>6, <1>7, <2>1
<1>11. ASSUME NEW p \in 1 .. (n - 1)
       PROVE  c[p] = s[Before(p, k)]
  <2>1. p \in 1 .. m + (n - k)
    BY <1>2, <1>3
  <2>2. CASE p < k
    BY <1>2, <1>3, <1>6, <1>10, <2>1, <2>2 DEF Before
  <2>3. CASE ~(p < k)
    <3>1. p - m \in 1 .. (n - k) /\ k + (p - m) = p + 1 /\ ~(p <= m)
      BY <1>2, <1>3, <2>3
    <3>. QED  BY <1>7, <1>10, <2>1, <2>3, <3>1 DEF Before
  <2>. QED  BY <2>2, <2>3
<1>12. m + (n - k) = n - 1
  BY <1>2, <1>3
<1>. QED  BY <1>1, <1>9, <1>10, <1>11, <1>12

(* The list after the entry at s was deleted.                              *)
Shrunk(s) ==
  /\ dump_menu' \in Seq(Entries) /\ Len(dump_menu') = Len(dump_menu) - 1
  /\ \A p \in 1 .. (Len(dump_menu) - 1) :
       dump_menu'[p] = [dump_menu[Before(p, s)] EXCEPT !.index = p - 1]

(* MenuDeleteEntry takes out the selected entry and renumbers the rest.    *)
LEMMA Deleted ==
  ASSUME FagMenuInv, MenuDeleteEntry
  PROVE  Shrunk(selected)
<1>. DEFINE n == Len(dump_menu)
            i == selected - 1
            u == Unlinked(i)
<1>1. /\ n \in Nat /\ dump_menu \in Seq(Entries) /\ selected \in 1 .. n
      /\ DOMAIN dump_menu = 1 .. n
      /\ \A p \in 1 .. n : dump_menu[p].index = p - 1 /\ dump_menu[p] \in Entries
  <2>1. dump_menu \in Seq(Entries) /\ selected \in 0 .. n /\ selected # 0
    BY DEF FagMenuInv, FagTypes, IndexIsPlace, MenuDeleteEntry
  <2>2. n \in Nat /\ DOMAIN dump_menu = 1 .. n /\ \A p \in 1 .. n : dump_menu[p] \in Entries
    BY <2>1, LenProperties, ElementOfSeq
  <2>3. \A p \in 1 .. n : dump_menu[p].index = p - 1
    BY <2>2 DEF FagMenuInv, IndexIsPlace
  <2>. QED  BY <2>1, <2>2, <2>3
<1>2. dump_menu' = Renumber(i)
  BY <1>1 DEF MenuDeleteEntry
<1>3. u = RemoveAt(dump_menu, selected)
  <2>1. (CHOOSE p \in DOMAIN dump_menu : dump_menu[p].index = i) = selected
    BY <1>1
  <2>. QED  BY <2>1 DEF Unlinked
<1>4. /\ u \in Seq(Entries) /\ Len(u) = n - 1
      /\ \A p \in 1 .. (n - 1) : u[p] = dump_menu[Before(p, selected)]
  BY <1>1, <1>3, Removing
<1>5. DOMAIN u = 1 .. (n - 1)
  BY <1>4
<1>6. dump_menu' = [p \in 1 .. (n - 1) |-> [u[p] EXCEPT !.index = IF @ > i THEN @ - 1 ELSE @]]
  BY <1>2, <1>5 DEF Renumber
<1>. HIDE DEF u
<1>7. ASSUME NEW p \in 1 .. (n - 1)
      PROVE  /\ dump_menu'[p] = [dump_menu[Before(p, selected)] EXCEPT !.index = p - 1]
             /\ dump_menu'[p] \in Entries
  <2>1. PICK q \in 1 .. n : q = Before(p, selected) /\ (q > selected <=> ~(p < selected))
    BY <1>1 DEF Before
  <2>2. PICK e \in Entries : e = dump_menu[q] /\ e.index = q - 1 /\ e = u[p]
    BY <1>1, <1>4, <2>1
  <2>3. (IF e.index > i THEN e.index - 1 ELSE e.index) = p - 1
    BY <1>1, <2>1, <2>2 DEF Before
  <2>4. dump_menu'[p] = [e EXCEPT !.index = p - 1]
    BY <1>6, <2>2, <2>3
  <2>5. [e EXCEPT !.index = p - 1] \in Entries
    BY DEF Entries
  <2>. QED  BY <2>1, <2>2, <2>4, <2>5
<1>8. dump_menu' \in Seq(Entries) /\ Len(dump_menu') = n - 1
  <2>1. n - 1 \in Nat
    BY <1>1
  <2>2. dump_menu' \in [1 .. (n - 1) -> Entries]
    BY <1>6, <1>7
  <2>. QED  BY <2>1, <2>2
<1>. QED  BY <1>7, <1>8 DEF Shrunk

(* What the list and the places in it are after the steps that leave the   *)
(* entries as they are.                                                    *)
LEMMA SameList ==
  ASSUME FagMenuInv, UNCHANGED <<titles, line, current_game, dump_menu, entry_index>>,
         menu_entry' \in 0 .. Len(dump_menu), selected' \in 0 .. Len(dump_menu),
         selected' # 1, ThreadInv', all_entry' # 0 => line # 0
  PROVE  FagMenuInv'
BY DEF FagMenuInv, FagTypes, TitleStays, IndexIsPlace, games

(* dumpGenerateMenu leaves one entry, with index 0 and no selection.       *)
LEMMA FagMenuStart == FagMenuInit => FagMenuInv
<1>. SUFFICES ASSUME FagMenuInit PROVE FagMenuInv
  OBVIOUS
<1>1. Entry("title", NoTitle, 0, "DISABLE", 0) \in Entries
  BY DEF Entry, Entries, Kinds, EntryTypes, NoTitle
<1>2. /\ dump_menu \in Seq(Entries) /\ Len(dump_menu) = 1
      /\ dump_menu[1] = Entry("title", NoTitle, 0, "DISABLE", 0)
  BY <1>1 DEF FagMenuInit
<1>3. FagTypes
  BY <1>2, FagMenuAssumption DEF FagMenuInit, FagTypes
<1>4. IndexIsPlace
  BY <1>2 DEF FagMenuInit, IndexIsPlace, Entry
<1>5. TitleStays /\ ThreadInv
  BY <1>2 DEF FagMenuInit, TitleStays, ThreadInv, Entry
<1>. QED  BY <1>3, <1>4, <1>5 DEF FagMenuInv

(* The left pane: a line and the game that was opened from it.             *)
LEMMA LeftPaneInv ==
  ASSUME FagMenuInv,
         \/ all_entry = 0 /\ (OpenTitle \/ dumpModuleEntryBackCB)
         \/ dumpAllCB \/ AllAdded \/ handleSpecInput \/ dumpPopulateThread
  PROVE  FagMenuInv'
<1>1. FagTypes /\ TitleStays /\ ThreadInv /\ IndexIsPlace /\ titles \in Nat
  BY DEF FagMenuInv, FagTypes
<1>2. CASE all_entry = 0 /\ OpenTitle
  <2>1. PICK g \in DOMAIN games : dumpGenerateModuleMenu(games[g].menu_index)
    BY <1>2 DEF OpenTitle
  <2>2. line' \in Nat /\ current_game' = g /\ line' = games[g].menu_index
    BY <1>1, <2>1, Games DEF dumpGenerateModuleMenu
  <2>3. UNCHANGED <<titles, dump_menu, selected, entry_index, menu_entry, dpc>>
    BY <2>1 DEF dumpGenerateModuleMenu, dumpMenuVars, walkVars
  <2>4. games' = games
    BY <2>3 DEF games
  <2>5. FagTypes'
    BY <1>1, <1>2, <2>1, <2>2, <2>3, <2>4 DEF FagTypes, dumpGenerateModuleMenu
  <2>. QED  BY <1>1, <2>3, <2>5 DEF FagMenuInv, TitleStays, ThreadInv, IndexIsPlace
<1>3. CASE all_entry = 0 /\ dumpModuleEntryBackCB
  BY <1>1, <1>3 DEF dumpModuleEntryBackCB, dumpMenuVars, walkVars, FagMenuInv, FagTypes,
                    TitleStays, ThreadInv, IndexIsPlace
<1>4. CASE dumpAllCB \/ AllAdded \/ handleSpecInput \/ dumpPopulateThread
  <2>1. UNCHANGED <<titles, line, current_game, dump_menu, selected, entry_index,
                    menu_entry, dpc>>
    BY <1>4 DEF dumpAllCB, AllAdded, handleSpecInput, dumpPopulateThread, leftVars,
                dumpMenuVars, walkVars
  <2>2. all_entry' # 0 => line # 0
    BY <1>1, <1>4 DEF dumpAllCB, AllAdded, handleSpecInput, dumpPopulateThread, leftVars,
                      FagTypes
  <2>. QED  BY <1>1, <2>1, <2>2, SameList DEF FagTypes, IndexIsPlace, TitleStays, ThreadInv
<1>. QED  BY <1>2, <1>3, <1>4

(* Entries are added at the end.                                           *)
LEMMA AddInv ==
  ASSUME FagMenuInv, line # 0, Add,
         UNCHANGED <<titles, line, current_game, menu_entry, dpc>>
  PROVE  FagMenuInv'
<1>1. PICK k \in {0, 1} : Grown(TitleOn(line), k)
  BY Added
<1>2. PICK n \in Nat : n = Len(dump_menu)
  BY LenProperties DEF FagMenuInv, FagTypes
<1>3. /\ dump_menu' \in Seq(Entries) /\ Len(dump_menu') = n + k + 1
      /\ entry_index' = n + k + 1 /\ selected' \in 0 .. (n + k + 1)
      /\ n >= 1 /\ selected' # 1 /\ dump_menu'[1] = dump_menu[1]
  BY <1>1, <1>2 DEF Grown, FagMenuInv, IndexIsPlace, TitleStays
<1>4. ASSUME NEW p \in 1 .. (n + k + 1)
      PROVE  dump_menu'[p].index = p - 1
  <2>1. CASE p <= n
    <3>1. p \in 1 .. n /\ p \in DOMAIN dump_menu
      BY <1>2, <2>1 DEF FagMenuInv, FagTypes
    <3>2. dump_menu'[p] = dump_menu[p] /\ dump_menu[p].index = p - 1
      BY <1>1, <1>2, <3>1 DEF Grown, FagMenuInv, IndexIsPlace
    <3>. QED  BY <3>2
  <2>2. CASE p = n + k + 1
    <3>1. dump_menu'[p].index = n + k
      BY <1>1, <1>2, <2>2 DEF Grown, Entry
    <3>. QED  BY <2>2, <3>1
  <2>3. CASE k = 1 /\ p = n + 1
    <3>1. dump_menu'[p].index = n
      BY <1>1, <1>2, <2>3 DEF Grown, Entry
    <3>. QED  BY <2>3, <3>1
  <2>. QED  BY <2>1, <2>2, <2>3
<1>5. menu_entry' \in 0 .. (n + k + 1)
  BY <1>2 DEF FagMenuInv, FagTypes
<1>6. games' = games
  BY DEF games
<1>7. FagTypes'
  BY <1>3, <1>5, <1>6 DEF FagMenuInv, FagTypes
<1>8. IndexIsPlace'
  BY <1>3, <1>4 DEF IndexIsPlace
<1>9. TitleStays' /\ ThreadInv'
  BY <1>3 DEF FagMenuInv, TitleStays, ThreadInv
<1>. QED  BY <1>7, <1>8, <1>9 DEF FagMenuInv

(* The selection moves, an entry is marked.                                *)
LEMMA MoveInv == ASSUME FagMenuInv, MoveSelection PROVE FagMenuInv'
<1>1. PICK n \in Nat : n = Len(dump_menu) /\ DOMAIN dump_menu = 1 .. n /\ selected \in 1 .. n
  BY LenProperties DEF FagMenuInv, FagTypes, IndexIsPlace, MoveSelection
<1>2. selected # 1 /\ dump_menu[1].type = "DISABLE" /\ FagTypes
  BY DEF FagMenuInv, TitleStays
<1>3. NextUp(selected) \in 1 .. n /\ NextUp(selected) # 1
  <2>1. 1 .. (selected - 1) \subseteq 1 .. n
    BY <1>1
  <2>. QED  BY <1>1, <1>2, <2>1, Found DEF NextUp
<1>4. NextDown(selected) \in 1 .. n /\ NextDown(selected) # 1
  <2>1. (selected + 1) .. n \subseteq 1 .. n
    BY <1>1
  <2>. QED  BY <1>1, <1>2, <2>1, Found DEF NextDown
<1>5. selected' \in 0 .. Len(dump_menu) /\ selected' # 1
  BY <1>1, <1>3, <1>4 DEF MoveSelection
<1>. QED
  BY <1>5, SameList DEF MoveSelection, leftVars, walkVars, FagMenuInv, FagTypes, ThreadInv

(* Circle and cross change the type of one entry and nothing else.         *)
LEMMA Marked ==
  ASSUME FagMenuInv, Mark
  PROVE  /\ selected \in 1 .. Len(dump_menu)
         /\ \E t \in {"NONE", "WARNING"} :
              /\ dump_menu' = [dump_menu EXCEPT ![selected] = [dump_menu[selected] EXCEPT !.type = t]]
         /\ dump_menu' \in Seq(Entries) /\ Len(dump_menu') = Len(dump_menu)
<1>1. PICK n \in Nat : n = Len(dump_menu) /\ DOMAIN dump_menu = 1 .. n /\ selected \in 1 .. n
  BY LenProperties DEF FagMenuInv, FagTypes, IndexIsPlace, Mark
<1>2. PICK e \in Entries : e = dump_menu[selected] /\ dump_menu \in Seq(Entries)
  BY <1>1, ElementOfSeq DEF FagMenuInv, FagTypes
<1>3. PICK t \in {"NONE", "WARNING"} :
        dump_menu' = [dump_menu EXCEPT ![selected] = [dump_menu[selected] EXCEPT !.type = t]]
  BY <1>1 DEF Mark
<1>4. [e EXCEPT !.type = t] \in Entries
  BY DEF Entries, EntryTypes
<1>5. dump_menu' \in Seq(Entries) /\ Len(dump_menu') = n
  BY <1>1, <1>2, <1>3, <1>4, ExceptSeq
<1>. QED  BY <1>1, <1>3, <1>5

(* A mark moves no entry.                                                  *)
LEMMA MarkInv == ASSUME FagMenuInv, Mark PROVE FagMenuInv'
<1>1. PICK n \in Nat : n = Len(dump_menu) /\ DOMAIN dump_menu = 1 .. n
  BY LenProperties DEF FagMenuInv, FagTypes
<1>2. PICK t : dump_menu' = [dump_menu EXCEPT ![selected] = [dump_menu[selected] EXCEPT !.type = t]]
  BY Marked
<1>3. selected \in 1 .. n /\ dump_menu' \in Seq(Entries) /\ Len(dump_menu') = n
  BY <1>1, Marked
<1>4. ASSUME NEW p \in 1 .. n PROVE dump_menu'[p].index = p - 1
  <2>1. dump_menu[p].index = p - 1 /\ dump_menu[p] \in Entries
    BY <1>1, ElementOfSeq DEF FagMenuInv, FagTypes, IndexIsPlace
  <2>2. CASE p = selected
    BY <1>1, <1>2, <2>1, <2>2 DEF Entries
  <2>3. CASE p # selected
    BY <1>1, <1>2, <2>1, <2>3
  <2>. QED  BY <2>2, <2>3
<1>5. /\ UNCHANGED <<titles, line, current_game, all_entry, selected, entry_index,
                      menu_entry, dpc>>
      /\ games' = games
  BY DEF Mark, leftVars, walkVars, games
<1>6. TitleStays' /\ ThreadInv'
  BY <1>1, <1>2, <1>3, <1>5 DEF FagMenuInv, TitleStays, ThreadInv
<1>. QED  BY <1>1, <1>3, <1>4, <1>5, <1>6 DEF FagMenuInv, FagTypes, IndexIsPlace

(* The entries below the one that goes move up, with their indices.        *)
LEMMA DeleteInv == ASSUME FagMenuInv, MenuDeleteEntry PROVE FagMenuInv'
<1>1. PICK n \in Nat : n = Len(dump_menu) /\ DOMAIN dump_menu = 1 .. n /\ selected \in 1 .. n
  BY LenProperties DEF FagMenuInv, FagTypes, IndexIsPlace, MenuDeleteEntry
<1>2. /\ dump_menu' \in Seq(Entries) /\ Len(dump_menu') = n - 1 /\ DOMAIN dump_menu' = 1 .. (n - 1)
      /\ \A p \in 1 .. (n - 1) :
           dump_menu'[p] = [dump_menu[Before(p, selected)] EXCEPT !.index = p - 1]
  BY <1>1, Deleted DEF Shrunk
<1>3. ASSUME NEW p \in 1 .. (n - 1) PROVE dump_menu'[p].index = p - 1
  <2>1. PICK q \in 1 .. n : q = Before(p, selected)
    BY <1>1 DEF Before
  <2>2. PICK e \in Entries : e = dump_menu[q]
    BY <1>1, ElementOfSeq DEF FagMenuInv, FagTypes
  <2>. QED  BY <1>2, <2>1, <2>2 DEF Entries
<1>4. selected # 1 /\ dump_menu[1].type = "DISABLE" /\ FagTypes /\ ThreadInv
  BY DEF FagMenuInv, TitleStays
<1>5. selected' \in 0 .. (n - 1) /\ selected' # 1
  <2>1. NextUp(selected) \in 1 .. selected /\ NextUp(selected) # 1
    <3>1. 1 .. (selected - 1) \subseteq 1 .. n
      BY <1>1
    <3>2. \/ NextUp(selected) = selected
          \/ NextUp(selected) \in 1 .. (selected - 1) /\ NextUp(selected) # 1
      BY <1>1, <1>4, <3>1, Found DEF NextUp
    <3>. QED  BY <1>1, <1>4, <3>2
  <2>. QED  BY <1>1, <2>1 DEF MenuDeleteEntry, Past
<1>6. menu_entry' \in 0 .. (n - 1) /\ ThreadInv'
  <2>1. menu_entry \in 0 .. n /\ dpc' = dpc
    BY <1>1, <1>4 DEF FagTypes, MenuDeleteEntry
  <2>2. CASE dpc # "idle" /\ menu_entry = selected
    BY <1>1, <1>2, <2>1, <2>2 DEF MenuDeleteEntry, ThreadInv
  <2>3. CASE menu_entry # selected
    BY <1>1, <1>4, <2>1, <2>3 DEF MenuDeleteEntry, Past, ThreadInv
  <2>4. dpc = "idle" => menu_entry # selected
    BY <1>1, <1>4 DEF ThreadInv
  <2>. QED  BY <2>2, <2>3, <2>4
<1>7. /\ UNCHANGED <<titles, line, current_game, all_entry>> /\ games' = games
      /\ entry_index' = n - 1
  BY <1>1 DEF MenuDeleteEntry, leftVars, games, FagMenuInv, IndexIsPlace
<1>8. TitleStays'
  <2>1. n - 1 >= 1 /\ Before(1, selected) = 1
    BY <1>1, <1>4 DEF Before
  <2>2. PICK e \in Entries : e = dump_menu[1]
    BY <1>1, ElementOfSeq DEF FagMenuInv, FagTypes
  <2>3. dump_menu'[1] = [e EXCEPT !.index = 1 - 1]
    BY <1>1, <1>2, <2>1, <2>2
  <2>4. dump_menu'[1].type = "DISABLE"
    BY <1>4, <2>2, <2>3 DEF Entries
  <2>. QED  BY <1>2, <1>5, <2>1, <2>4 DEF TitleStays
<1>. QED
  BY <1>1, <1>2, <1>3, <1>4, <1>5, <1>6, <1>7, <1>8 DEF FagMenuInv, FagTypes, IndexIsPlace

(* The next entry, or none.                                                *)
LEMMA Advanced ==
  ASSUME FagMenuInv, menu_entry # 0
  PROVE  NextEntry(menu_entry) \in 0 .. Len(dump_menu) /\ NextEntry(menu_entry) # 1
<1>1. PICK n \in Nat : n = Len(dump_menu) /\ menu_entry \in 1 .. n
  BY LenProperties DEF FagMenuInv, FagTypes
<1>. QED  BY <1>1 DEF NextEntry

(* dump_thread only follows the list.                                      *)
LEMMA WalkInv ==
  ASSUME FagMenuInv, dumpStart \/ dumpThread
  PROVE  FagMenuInv'
<1>1. PICK n \in Nat : n = Len(dump_menu) /\ n >= 1 /\ menu_entry \in 0 .. n /\ selected \in 0 .. n
                       /\ selected # 1
  BY LenProperties DEF FagMenuInv, FagTypes, TitleStays, IndexIsPlace
<1>2. /\ UNCHANGED <<titles, line, current_game, dump_menu, entry_index>>
      /\ all_entry' # 0 => line # 0
  BY DEF dumpStart, dumpThread, SystemHeading, TitleHeading, dumpSkipGame, TitleLine, Decrypt,
         Decrypted, DumpDone, Round, leftVars, dumpMenuVars, FagMenuInv, FagTypes
<1>3. CASE dumpStart \/ Decrypt \/ DumpDone
  <2>1. menu_entry' \in 0 .. n /\ selected' = selected /\ ThreadInv'
    BY <1>1, <1>3 DEF dumpStart, Decrypt, DumpDone, dumpMenuVars, ThreadInv, Walking
  <2>. QED  BY <1>1, <1>2, <2>1, SameList
<1>4. CASE SystemHeading
  <2>1. menu_entry # 0 /\ menu_entry' = NextEntry(menu_entry) /\ selected' = selected /\ dpc' = "loop"
    BY <1>4 DEF SystemHeading, Walking
  <2>. QED  BY <1>1, <1>2, <2>1, Advanced, SameList DEF ThreadInv
<1>5. CASE TitleHeading \/ TitleLine \/ Decrypted
  <2>1. /\ menu_entry # 0 /\ menu_entry' = NextEntry(menu_entry) /\ dpc' = "loop"
        /\ selected' \in {menu_entry', selected}
    BY <1>5 DEF TitleHeading, TitleLine, Decrypted, Walking, Advance, FagMenuInv, ThreadInv
  <2>. QED  BY <1>1, <1>2, <2>1, Advanced, SameList DEF ThreadInv
<1>6. CASE dumpSkipGame
  <2>. DEFINE later == {q \in (menu_entry + 1) .. n : dump_menu[q].type = "DISABLE"}
  <2>1. /\ dpc' = "loop" /\ selected' = selected
        /\ menu_entry' = IF later = {} THEN 0 ELSE CHOOSE q \in later : \A x \in later : q <= x
    BY <1>1, <1>6 DEF dumpSkipGame, Walking
  <2>2. CASE later = {}
    BY <1>1, <1>2, <2>1, <2>2, SameList DEF ThreadInv
  <2>3. CASE later # {}
    <3>1. later \subseteq 1 .. n /\ later \subseteq Nat
      BY <1>1
    <3>2. \E q \in later : \A x \in later : q <= x
      BY <2>3, <3>1, Least
    <3>3. menu_entry' \in later
      BY <2>1, <2>3, <3>2
    <3>4. menu_entry' \in 0 .. n
      BY <3>1, <3>3
    <3>. QED  BY <1>1, <1>2, <2>1, <3>4, SameList DEF ThreadInv
  <2>. QED  BY <2>2, <2>3
<1>. QED  BY <1>3, <1>4, <1>5, <1>6 DEF dumpThread

(* Every step of the user and of the two threads keeps the invariant.      *)
LEMMA FagMenuStep == FagMenuInv /\ [FagMenuNext]_fagMenuVars => FagMenuInv'
<1>. SUFFICES ASSUME FagMenuInv, [FagMenuNext]_fagMenuVars PROVE FagMenuInv'
  OBVIOUS
<1>1. CASE \/ all_entry = 0 /\ (OpenTitle \/ dumpModuleEntryBackCB)
           \/ dumpAllCB \/ AllAdded \/ handleSpecInput \/ dumpPopulateThread
  BY <1>1, LeftPaneInv
<1>2. CASE AddOne
  BY <1>2, AddInv DEF AddOne, leftVars, walkVars
<1>3. CASE all_entry # 0 /\ AddNext
  BY <1>3, AddInv DEF AddNext, leftVars, walkVars, FagMenuInv, FagTypes
<1>4. CASE MoveSelection
  BY <1>4, MoveInv
<1>5. CASE Mark
  BY <1>5, MarkInv
<1>6. CASE MenuDeleteEntry
  BY <1>6, DeleteInv
<1>7. CASE dumpStart \/ dumpThread
  BY <1>7, WalkInv
<1>8. CASE UNCHANGED fagMenuVars
  <2>1. UNCHANGED <<titles, line, current_game, all_entry, dump_menu, selected, entry_index,
                    menu_entry, dpc>>
    BY <1>8 DEF fagMenuVars, leftVars, dumpMenuVars, walkVars
  <2>. QED  BY <2>1, SameList DEF FagMenuInv, FagTypes, IndexIsPlace, TitleStays, ThreadInv
<1>. QED
  BY <1>1, <1>2, <1>3, <1>4, <1>5, <1>6, <1>7, <1>8 DEF FagMenuNext, UserStep

(* After any additions and deletions, for any number of titles and         *)
(* modules (menu.c's MenuAddEntry and MenuDeleteEntry): an entry's index   *)
(* is its place in the list, and the selection is an entry or null.        *)
THEOREM IndexCorrect == FagMenuSpec => []IndexIsPlace
<1>1. FagMenuInv => IndexIsPlace
  BY DEF FagMenuInv
<1>. QED  BY <1>1, FagMenuStart, FagMenuStep, PTL DEF FagMenuSpec

------------------------------------------------------------------------------
(* The headings.  T gives the title on a line of the game menu.            *)

Title == [l \in Nat |-> TitleOn(l)]

(* A list in which the modules stand below the heading of their title.     *)
Titled(m, T) ==
  /\ Len(m) >= 1 /\ m[1].kind = "title"
  /\ \A p \in 1 .. Len(m) : /\ m[p].type = "DISABLE" <=> m[p].kind # "module"
                            /\ m[p].kind = "title" => m[p].text = NoTitle
  /\ \A h, p \in 1 .. Len(m) :
       /\ h < p /\ m[h].kind # "module"
       /\ \A q \in (h + 1) .. p : m[q].kind = "module"
       => m[h].kind = "heading" /\ m[h].text = T[m[p].own]
  /\ \A p \in 1 .. (Len(m) - 1) :
       m[p].kind = "module" /\ m[p + 1].kind = "module" => T[m[p].own] = T[m[p + 1].own]

(* m2 is the list m of n entries and a module of the title id, added from  *)
(* line l; k = 1 if there is a heading above it, else the last one is its. *)
Longer(m, n, m2, k, l, id) ==
  /\ n = Len(m) /\ Len(m2) = n + k + 1 /\ \A p \in 1 .. n : m2[p] = m[p]
  /\ m2[n + k + 1] = Entry("module", 0, l, "NONE", n + k)
  /\ k = 1 => m2[n + 1] = Entry("heading", id, 0, "DISABLE", n)
  /\ k = 0 => \E h \in 1 .. n : /\ m[h].type = "DISABLE" /\ m[h].text = id
                                /\ \A q \in (h + 1) .. n : m[q].type # "DISABLE"

(* Modules stay under the heading of their title when dumpAddEntry appends. *)
LEMMA TitledAppend ==
  ASSUME NEW T, NEW m \in Seq(Entries), NEW n \in Nat, NEW m2 \in Seq(Entries),
         NEW k \in {0, 1}, NEW l \in Nat, NEW id \in Nat,
         Titled(m, T), T[l] = id, Longer(m, n, m2, k, l, id)
  PROVE  Titled(m2, T)
<1>0. /\ n = Len(m) /\ Len(m2) = n + k + 1 /\ \A p \in 1 .. n : m2[p] = m[p]
      /\ m2[n + k + 1] = Entry("module", 0, l, "NONE", n + k)
      /\ k = 1 => m2[n + 1] = Entry("heading", id, 0, "DISABLE", n)
      /\ k = 0 => \E h \in 1 .. n : /\ m[h].type = "DISABLE" /\ m[h].text = id
                                    /\ \A q \in (h + 1) .. n : m[q].type # "DISABLE"
  BY DEF Longer
<1>. USE <1>0
<1>1. n >= 1 /\ m2[1].kind = "title"
  BY DEF Titled
<1>2. m2[n + k + 1].kind = "module" /\ m2[n + k + 1].type = "NONE" /\ m2[n + k + 1].own = l
  BY DEF Entry
<1>3. k = 1 => m2[n + 1].kind = "heading" /\ m2[n + 1].type = "DISABLE" /\ m2[n + 1].text = id
  BY DEF Entry
<1>4. \A p \in 1 .. (n + k + 1) : p <= n \/ p = n + k + 1 \/ (k = 1 /\ p = n + 1)
  OBVIOUS
<1>5. ASSUME NEW p \in 1 .. (n + k + 1)
      PROVE  /\ m2[p].type = "DISABLE" <=> m2[p].kind # "module"
             /\ m2[p].kind = "title" => m2[p].text = NoTitle
  <2>1. CASE p <= n
    <3>1. p \in 1 .. n /\ m2[p] = m[p]
      BY <2>1
    <3>. QED  BY <3>1 DEF Titled
  <2>2. CASE p = n + k + 1
    BY <1>2, <2>2
  <2>3. CASE k = 1 /\ p = n + 1
    BY <1>3, <2>3
  <2>. QED  BY <1>4, <2>1, <2>2, <2>3
<1>6. ASSUME k = 0, NEW h \in 1 .. n, m[h].kind # "module",
             \A q \in (h + 1) .. n : m[q].kind = "module"
      PROVE  m[h].kind = "heading" /\ m[h].text = id
  <2>1. PICK g \in 1 .. n : /\ m[g].type = "DISABLE" /\ m[g].text = id
                            /\ \A q \in (g + 1) .. n : m[q].type # "DISABLE"
    BY <1>6
  <2>2. \A p \in 1 .. n : m[p].type = "DISABLE" <=> m[p].kind # "module"
    BY DEF Titled
  <2>3. ~(g < h)
    <3>1. g < h => h \in (g + 1) .. n
      OBVIOUS
    <3>. QED  BY <1>6, <2>1, <2>2, <3>1
  <2>4. ~(h < g)
    <3>1. h < g => g \in (h + 1) .. n
      OBVIOUS
    <3>. QED  BY <1>6, <2>1, <2>2, <3>1
  <2>5. g = h
    BY <2>3, <2>4
  <2>6. m[h].kind \in Kinds
    <3>1. m[h] \in Entries
      BY ElementOfSeq
    <3>. QED  BY <3>1 DEF Entries
  <2>7. m[h].kind # "title"
    BY <2>1, <2>5 DEF Titled, NoTitle
  <2>. QED  BY <1>6, <2>1, <2>5, <2>6, <2>7 DEF Kinds
<1>7. ASSUME NEW h \in 1 .. (n + k + 1), NEW p \in 1 .. (n + k + 1), h < p, m2[h].kind # "module",
             \A q \in (h + 1) .. p : m2[q].kind = "module"
      PROVE  m2[h].kind = "heading" /\ m2[h].text = T[m2[p].own]
  <2>1. CASE p <= n
    <3>1. /\ h \in 1 .. n /\ p \in 1 .. n /\ m2[h] = m[h] /\ m2[p] = m[p]
          /\ \A q \in (h + 1) .. p : q \in 1 .. n /\ m2[q] = m[q]
      BY <1>7, <2>1
    <3>2. \A q \in (h + 1) .. p : m[q].kind = "module"
      BY <1>7, <3>1
    <3>3. m[h].kind = "heading" /\ m[h].text = T[m[p].own]
      <4>1. \A x, y \in 1 .. n :
              /\ x < y /\ m[x].kind # "module"
              /\ \A q \in (x + 1) .. y : m[q].kind = "module"
              => m[x].kind = "heading" /\ m[x].text = T[m[y].own]
        BY DEF Titled
      <4>2. h < p /\ m[h].kind # "module"
        BY <1>7, <3>1
      <4>. QED  BY <3>1, <3>2, <4>1, <4>2
    <3>. QED  BY <3>1, <3>3
  <2>2. CASE k = 1 /\ p = n + 1
    <3>1. p \in (h + 1) .. p
      BY <1>7
    <3>. QED  BY <1>3, <1>7, <2>2, <3>1
  <2>3. CASE k = 1 /\ p = n + k + 1
    <3>1. CASE h = n + 1
      BY <1>2, <1>3, <2>3, <3>1
    <3>2. CASE h # n + 1
      <4>1. n + 1 \in (h + 1) .. p
        BY <1>7, <2>3, <3>2
      <4>. QED  BY <1>3, <1>7, <2>3, <4>1
    <3>. QED  BY <3>1, <3>2
  <2>4. CASE k = 0 /\ p = n + k + 1
    <3>1. h \in 1 .. n /\ m2[h] = m[h]
      BY <1>7, <2>4
    <3>2. \A q \in (h + 1) .. n : q \in (h + 1) .. p /\ q \in 1 .. n /\ m2[q] = m[q]
      BY <1>7, <2>4, <3>1
    <3>3. \A q \in (h + 1) .. n : m[q].kind = "module"
      BY <1>7, <3>2
    <3>. QED  BY <1>2, <1>6, <1>7, <2>4, <3>1, <3>3
  <2>. QED  BY <1>4, <2>1, <2>2, <2>3, <2>4
<1>8. ASSUME NEW p \in 1 .. (n + k), m2[p].kind = "module", m2[p + 1].kind = "module"
      PROVE  T[m2[p].own] = T[m2[p + 1].own]
  <2>1. CASE p + 1 <= n
    <3>1. p \in 1 .. (n - 1) /\ m2[p] = m[p] /\ m2[p + 1] = m[p + 1]
      BY <2>1
    <3>. QED  BY <1>8, <3>1 DEF Titled
  <2>2. CASE k = 1 /\ (p = n \/ p = n + 1)
    BY <1>3, <1>8, <2>2
  <2>3. CASE k = 0 /\ p = n
    <3>1. PICK g \in 1 .. n : /\ m[g].type = "DISABLE" /\ m[g].text = id
                              /\ \A q \in (g + 1) .. n : m[q].type # "DISABLE"
      BY <2>3
    <3>2. \A q \in 1 .. n : m[q].type = "DISABLE" <=> m[q].kind # "module"
      BY DEF Titled
    <3>3. n \in 1 .. n /\ m[n].kind = "module" /\ m2[n] = m[n] /\ m2[n + 1].own = l
      BY <1>1, <1>2, <1>8, <2>3
    <3>4. g < n /\ m[g].kind # "module" /\ \A q \in (g + 1) .. n : m[q].kind = "module"
      <4>1. m[g].kind # "module" /\ g # n
        BY <3>1, <3>2, <3>3
      <4>2. ASSUME NEW q \in (g + 1) .. n PROVE m[q].kind = "module"
        <5>1. q \in 1 .. n /\ m[q].type # "DISABLE"
          BY <3>1
        <5>. QED  BY <3>2, <5>1
      <4>. QED  BY <4>1, <4>2
    <3>5. m[g].text = T[m[n].own]
      BY <3>3, <3>4 DEF Titled
    <3>. QED  BY <2>3, <3>1, <3>3, <3>5
  <2>. QED  BY <2>1, <2>2, <2>3
<1>. QED  BY <1>1, <1>5, <1>7, <1>8 DEF Titled

(* m2 is the list m of n entries without the module at s.                  *)
Shorter(m, n, m2, s) ==
  /\ n = Len(m) /\ Len(m2) = n - 1 /\ m[s].kind = "module"
  /\ \A p \in 1 .. (n - 1) : m2[p] = [m[Before(p, s)] EXCEPT !.index = p - 1]

(* The same when a module is deleted: the headings stay where they are.    *)
LEMMA TitledRemove ==
  ASSUME NEW T, NEW m \in Seq(Entries), NEW n \in Nat, NEW m2 \in Seq(Entries),
         NEW s \in 1 .. n, Titled(m, T), Shorter(m, n, m2, s)
  PROVE  Titled(m2, T)
<1>0. /\ n = Len(m) /\ Len(m2) = n - 1 /\ m[s].kind = "module"
      /\ \A p \in 1 .. (n - 1) : m2[p] = [m[Before(p, s)] EXCEPT !.index = p - 1]
  BY DEF Shorter
<1>. USE <1>0
<1>1. ASSUME NEW p \in 1 .. (n - 1)
      PROVE  /\ Before(p, s) \in 1 .. n /\ Before(p, s) # s
             /\ m2[p].kind = m[Before(p, s)].kind /\ m2[p].type = m[Before(p, s)].type
             /\ m2[p].text = m[Before(p, s)].text /\ m2[p].own = m[Before(p, s)].own
  <2>1. PICK q \in 1 .. n : q = Before(p, s) /\ q # s
    BY DEF Before
  <2>2. PICK e \in Entries : e = m[q]
    BY ElementOfSeq
  <2>. QED  BY <2>1, <2>2 DEF Entries
<1>2. s # 1 /\ n - 1 >= 1 /\ Before(1, s) = 1
  <2>1. m[1].kind = "title"
    BY DEF Titled
  <2>2. s # 1
    BY <2>1
  <2>. QED  BY <2>2 DEF Before
<1>3. m2[1].kind = "title"
  BY <1>1, <1>2 DEF Titled
<1>4. \A p \in 1 .. (n - 1) : /\ m2[p].type = "DISABLE" <=> m2[p].kind # "module"
                              /\ m2[p].kind = "title" => m2[p].text = NoTitle
  BY <1>1 DEF Titled
<1>5. ASSUME NEW h \in 1 .. (n - 1), NEW p \in 1 .. (n - 1), h < p, m2[h].kind # "module",
             \A q \in (h + 1) .. p : m2[q].kind = "module"
      PROVE  m2[h].kind = "heading" /\ m2[h].text = T[m2[p].own]
  <2>1. PICK a, b \in 1 .. n : a = Before(h, s) /\ b = Before(p, s) /\ a < b
    BY <1>1, <1>5 DEF Before
  <2>2. ASSUME NEW q \in (a + 1) .. b PROVE m[q].kind = "module"
    <3>1. CASE q = s
      BY <3>1
    <3>2. CASE q < s
      <4>1. q \in (h + 1) .. p /\ q \in 1 .. (n - 1) /\ Before(q, s) = q
        BY <2>1, <3>2 DEF Before
      <4>. QED  BY <1>1, <1>5, <4>1
    <3>3. CASE q > s
      <4>1. q - 1 \in (h + 1) .. p /\ q - 1 \in 1 .. (n - 1) /\ Before(q - 1, s) = q
        BY <2>1, <3>3 DEF Before
      <4>. QED  BY <1>1, <1>5, <4>1
    <3>. QED  BY <3>1, <3>2, <3>3
  <2>3. m[a].kind # "module"
    BY <1>1, <1>5, <2>1
  <2>4. m[a].kind = "heading" /\ m[a].text = T[m[b].own]
    BY <2>1, <2>2, <2>3 DEF Titled
  <2>. QED  BY <1>1, <2>1, <2>4
<1>6. ASSUME NEW p \in 1 .. (n - 2), m2[p].kind = "module", m2[p + 1].kind = "module"
      PROVE  T[m2[p].own] = T[m2[p + 1].own]
  <2>1. p \in 1 .. (n - 1) /\ p + 1 \in 1 .. (n - 1)
    OBVIOUS
  <2>2. /\ m[Before(p, s)].kind = "module" /\ m[Before(p + 1, s)].kind = "module"
        /\ m2[p].own = m[Before(p, s)].own /\ m2[p + 1].own = m[Before(p + 1, s)].own
    BY <1>1, <1>6, <2>1
  <2>3. \A q \in 1 .. (n - 1) :
          m[q].kind = "module" /\ m[q + 1].kind = "module" => T[m[q].own] = T[m[q + 1].own]
    BY DEF Titled
  <2>4. CASE p + 1 = s
    <3>1. /\ Before(p, s) = p /\ Before(p + 1, s) = p + 2 /\ s - 1 = p
          /\ p + 1 \in 1 .. (n - 1) /\ (p + 1) + 1 = p + 2
      BY <2>4 DEF Before
    <3>2. T[m[p].own] = T[m[p + 1].own]
      BY <2>1, <2>2, <2>3, <2>4, <3>1
    <3>3. T[m[p + 1].own] = T[m[p + 2].own]
      BY <2>2, <2>3, <2>4, <3>1
    <3>. QED  BY <2>2, <3>1, <3>2, <3>3
  <2>5. CASE p + 1 # s
    <3>1. Before(p, s) \in 1 .. (n - 1) /\ Before(p + 1, s) = Before(p, s) + 1
      BY <2>5 DEF Before
    <3>. QED  BY <2>2, <2>3, <3>1
  <2>. QED  BY <2>4, <2>5
<1>7. (n - 1) - 1 = n - 2
  OBVIOUS
<1>. QED  BY <1>2, <1>3, <1>4, <1>5, <1>6, <1>7 DEF Titled

(* The same when the type of a module changes.                             *)
LEMMA TitledMark ==
  ASSUME NEW T, NEW m \in Seq(Entries), Titled(m, T), NEW s \in 1 .. Len(m),
         m[s].kind = "module", NEW t \in {"NONE", "WARNING"},
         NEW m2 \in Seq(Entries), Len(m2) = Len(m),
         m2 = [m EXCEPT ![s] = [m[s] EXCEPT !.type = t]]
  PROVE  Titled(m2, T)
<1>1. PICK n \in Nat : n = Len(m) /\ DOMAIN m = 1 .. n
  BY LenProperties
<1>2. ASSUME NEW p \in 1 .. n
      PROVE  /\ m2[p].kind = m[p].kind /\ m2[p].text = m[p].text /\ m2[p].own = m[p].own
             /\ m2[p].type = IF p = s THEN t ELSE m[p].type
  <2>1. PICK e \in Entries : e = m[p]
    BY <1>1, ElementOfSeq
  <2>. QED  BY <1>1, <2>1 DEF Entries
<1>3. m2[1].kind = "title" /\ n >= 1
  BY <1>1, <1>2 DEF Titled
<1>4. \A p \in 1 .. n : /\ m2[p].type = "DISABLE" <=> m2[p].kind # "module"
                        /\ m2[p].kind = "title" => m2[p].text = NoTitle
  BY <1>1, <1>2 DEF Titled
<1>5. ASSUME NEW h \in 1 .. n, NEW p \in 1 .. n, h < p, m2[h].kind # "module",
             \A q \in (h + 1) .. p : m2[q].kind = "module"
      PROVE  m2[h].kind = "heading" /\ m2[h].text = T[m2[p].own]
  <2>1. \A q \in (h + 1) .. p : q \in 1 .. n /\ m[q].kind = "module"
    BY <1>2, <1>5
  <2>. QED  BY <1>1, <1>2, <1>5, <2>1 DEF Titled
<1>6. ASSUME NEW p \in 1 .. (n - 1), m2[p].kind = "module", m2[p + 1].kind = "module"
      PROVE  T[m2[p].own] = T[m2[p + 1].own]
  <2>1. p \in 1 .. n /\ p + 1 \in 1 .. n
    BY <1>1
  <2>. QED  BY <1>1, <1>2, <1>6, <2>1 DEF Titled
<1>. QED  BY <1>1, <1>3, <1>4, <1>5, <1>6 DEF Titled

(* dump_thread at a module has the title of it.                            *)
Passed ==
  /\ dpc # "idle" /\ menu_entry # 0 /\ dump_menu[menu_entry].kind = "module"
       => titleid = Title[dump_menu[menu_entry].own]
  /\ dpc = "decrypt" => dump_menu[menu_entry].kind = "module"

TitleInv ==
  /\ tampered \in BOOLEAN
  /\ ~tampered => Titled(dump_menu, Title) /\ Passed

(* The list is empty at first but for its title line.                      *)
LEMMA TitleStart == FagMenuInit => TitleInv
<1>. SUFFICES ASSUME FagMenuInit PROVE TitleInv
  OBVIOUS
<1>1. /\ Len(dump_menu) = 1 /\ dump_menu[1].kind = "title" /\ dump_menu[1].text = NoTitle
      /\ dump_menu[1].type = "DISABLE"
  BY DEF FagMenuInit, Entry
<1>2. Titled(dump_menu, Title)
  BY <1>1 DEF Titled
<1>. QED  BY <1>2 DEF FagMenuInit, TitleInv, Passed

(* The entry after the one dump_thread is at, if it is a module, has its   *)
(* title: the one of the module, or the text of the heading.               *)
LEMMA TitleOfNext ==
  ASSUME FagMenuInv, Titled(dump_menu, Title), menu_entry # 0,
         NEW q, q = NextEntry(menu_entry), q # 0, dump_menu[q].kind = "module"
  PROVE  /\ dump_menu[menu_entry].kind # "title"
         /\ dump_menu[menu_entry].kind = "module" =>
              Title[dump_menu[q].own] = Title[dump_menu[menu_entry].own]
         /\ dump_menu[menu_entry].kind = "heading" =>
              Title[dump_menu[q].own] = dump_menu[menu_entry].text
<1>1. PICK n \in Nat : n = Len(dump_menu) /\ menu_entry \in 1 .. n
  BY LenProperties DEF FagMenuInv, FagTypes
<1>2. q = menu_entry + 1 /\ q \in 1 .. n /\ menu_entry \in 1 .. (n - 1)
  BY <1>1 DEF NextEntry
<1>3. \A x \in (menu_entry + 1) .. q : dump_menu[x].kind = "module"
  BY <1>1, <1>2
<1>4. dump_menu[menu_entry].kind # "module" =>
        dump_menu[menu_entry].kind = "heading" /\ dump_menu[menu_entry].text = Title[dump_menu[q].own]
  BY <1>1, <1>2, <1>3 DEF Titled
<1>5. dump_menu[menu_entry].kind = "module" =>
        Title[dump_menu[menu_entry].own] = Title[dump_menu[q].own]
  BY <1>1, <1>2 DEF Titled
<1>. QED  BY <1>4, <1>5

(* The walk.                                                               *)
LEMMA TitleWalk ==
  ASSUME FagMenuInv, TitleInv, dumpStart \/ dumpThread
  PROVE  TitleInv'
<1>1. UNCHANGED <<titles, dump_menu, tampered>>
  BY DEF dumpStart, dumpThread, SystemHeading, TitleHeading, dumpSkipGame, TitleLine, Decrypt,
         Decrypted, DumpDone, Round, leftVars, dumpMenuVars
<1>2. Title' = Title
  BY <1>1 DEF Title, TitleOn, games
<1>. SUFFICES ASSUME ~tampered PROVE Passed'
  BY <1>1, <1>2 DEF TitleInv
<1>3. Titled(dump_menu, Title) /\ Passed
  BY DEF TitleInv
<1>4. CASE dumpStart
  <2>1. menu_entry' = 1 /\ dpc' = "loop" /\ dump_menu[1].kind = "title"
    BY <1>3, <1>4 DEF dumpStart, Titled
  <2>. QED  BY <1>1, <2>1 DEF Passed
<1>5. CASE SystemHeading \/ TitleHeading
  <2>1. /\ menu_entry # 0 /\ dump_menu[menu_entry].kind = "heading"
        /\ titleid' = dump_menu[menu_entry].text /\ dpc' = "loop"
        /\ menu_entry' = NextEntry(menu_entry)
    BY <1>5 DEF SystemHeading, TitleHeading, Advance, Walking
  <2>2. menu_entry' # 0 /\ dump_menu[menu_entry'].kind = "module"
          => titleid' = Title[dump_menu[menu_entry'].own]
    BY <1>3, <2>1, TitleOfNext
  <2>. QED  BY <1>1, <1>2, <2>1, <2>2 DEF Passed
<1>6. CASE TitleLine
  <2>1. /\ menu_entry # 0 /\ dump_menu[menu_entry].kind = "title" /\ dpc' = "loop"
        /\ menu_entry' = NextEntry(menu_entry)
    BY <1>6 DEF TitleLine, Advance, Walking
  <2>2. ~(menu_entry' # 0 /\ dump_menu[menu_entry'].kind = "module")
    BY <1>3, <2>1, TitleOfNext
  <2>. QED  BY <1>1, <2>1, <2>2 DEF Passed
<1>7. CASE Decrypted
  <2>1. /\ menu_entry # 0 /\ dump_menu[menu_entry].kind = "module" /\ dpc' = "loop"
        /\ menu_entry' = NextEntry(menu_entry) /\ titleid' = titleid
        /\ titleid = Title[dump_menu[menu_entry].own]
    BY <1>3, <1>7 DEF Decrypted, Advance, FagMenuInv, ThreadInv, Passed
  <2>2. menu_entry' # 0 /\ dump_menu[menu_entry'].kind = "module"
          => titleid' = Title[dump_menu[menu_entry'].own]
    BY <1>3, <2>1, TitleOfNext
  <2>. QED  BY <1>1, <1>2, <2>1, <2>2 DEF Passed
<1>8. CASE Decrypt
  BY <1>1, <1>2, <1>3, <1>8 DEF Decrypt, Walking, Passed
<1>9. CASE DumpDone
  BY <1>9 DEF DumpDone, Passed
<1>10. CASE dumpSkipGame
  <2>1. PICK n \in Nat : n = Len(dump_menu) /\ menu_entry \in 0 .. n
    BY LenProperties DEF FagMenuInv, FagTypes
  <2>. DEFINE later == {q \in (menu_entry + 1) .. n : dump_menu[q].type = "DISABLE"}
  <2>2. /\ dpc' = "loop"
        /\ menu_entry' = IF later = {} THEN 0 ELSE CHOOSE q \in later : \A x \in later : q <= x
    BY <1>10, <2>1 DEF dumpSkipGame, Walking
  <2>3. CASE later = {}
    BY <2>2, <2>3 DEF Passed
  <2>4. CASE later # {}
    <3>1. later \subseteq 1 .. n /\ later \subseteq Nat
      BY <2>1
    <3>2. \E q \in later : \A x \in later : q <= x
      BY <2>4, <3>1, Least
    <3>3. menu_entry' \in later
      BY <2>2, <2>4, <3>2
    <3>4. dump_menu[menu_entry'].kind # "module"
      BY <1>3, <2>1, <3>1, <3>3 DEF Titled
    <3>. QED  BY <1>1, <2>2, <3>4 DEF Passed
  <2>. QED  BY <2>3, <2>4
<1>. QED
  BY <1>4, <1>5, <1>6, <1>7, <1>8, <1>9, <1>10 DEF dumpThread

(* A module is added under the heading of its title.                       *)
LEMMA TitleAdd ==
  ASSUME FagMenuInv, TitleInv, line # 0, Add,
         UNCHANGED <<titles, line, menu_entry, dpc, titleid, tampered>>
  PROVE  TitleInv'
<1>1. PICK k \in {0, 1} : Grown(TitleOn(line), k)
  BY Added
<1>2. PICK n \in Nat : n = Len(dump_menu) /\ menu_entry \in 0 .. n
  BY LenProperties DEF FagMenuInv, FagTypes
<1>3. Title' = Title
  BY DEF Title, TitleOn, games
<1>. SUFFICES ASSUME ~tampered PROVE Titled(dump_menu', Title) /\ Passed'
  BY <1>3 DEF TitleInv
<1>4. Titled(dump_menu, Title) /\ Passed /\ dump_menu \in Seq(Entries)
  BY DEF TitleInv, FagMenuInv, FagTypes
<1>5. \A p \in 1 .. n : dump_menu'[p] = dump_menu[p]
  BY <1>1, <1>2 DEF Grown
<1>6. Passed'
  <2>1. menu_entry # 0 => dump_menu'[menu_entry] = dump_menu[menu_entry]
    BY <1>2, <1>5
  <2>2. dpc = "decrypt" => menu_entry # 0
    BY DEF FagMenuInv, ThreadInv
  <2>. QED  BY <1>3, <1>4, <2>1, <2>2 DEF Passed
<1>7. LastHeading \in 1 .. n /\ dump_menu[LastHeading].type = "DISABLE"
        /\ \A q \in (LastHeading + 1) .. n : dump_menu[q].type # "DISABLE"
  <2>. DEFINE D == {p \in 1 .. n : dump_menu[p].type = "DISABLE"}
  <2>1. 1 \in D /\ D \subseteq 0 .. n /\ DOMAIN dump_menu = 1 .. n
    BY <1>2, <1>4, LenProperties DEF FagMenuInv, TitleStays
  <2>2. PICK x \in D : \A y \in D : y <= x
    BY <2>1, Greatest
  <2>3. \A q \in (x + 1) .. n : dump_menu[q].type # "DISABLE"
    <3>1. ASSUME NEW q \in (x + 1) .. n, dump_menu[q].type = "DISABLE" PROVE FALSE
      <4>1. q \in D /\ q > x
        BY <1>2, <3>1
      <4>. QED  BY <1>2, <2>2, <4>1
    <3>. QED  BY <3>1
  <2>4. x \in DOMAIN dump_menu /\ dump_menu[x].type = "DISABLE"
    BY <2>1
  <2>. QED  BY <1>2, <2>1, <2>3, <2>4 DEF LastHeading
<1>8. Titled(dump_menu', Title)
  <2>1. PICK l \in Nat, id \in Nat : l = line /\ id = TitleOn(line) /\ Title[l] = id
    BY Added DEF FagMenuInv, FagTypes, Title
  <2>2. /\ dump_menu' \in Seq(Entries) /\ Len(dump_menu') = n + k + 1
        /\ dump_menu'[n + k + 1] = Entry("module", 0, l, "NONE", n + k)
        /\ k = 1 => dump_menu'[n + 1] = Entry("heading", id, 0, "DISABLE", n)
        /\ k = 0 => dump_menu[LastHeading].text = id
    BY <1>1, <1>2, <2>1 DEF Grown
  <2>3. PICK m, m2, T : m = dump_menu /\ m2 = dump_menu' /\ T = Title
    OBVIOUS
  <2>4. m \in Seq(Entries) /\ m2 \in Seq(Entries) /\ Titled(m, T) /\ T[l] = id
    BY <1>4, <2>1, <2>2, <2>3
  <2>5. Longer(m, n, m2, k, l, id)
    BY <1>2, <1>5, <1>7, <2>1, <2>2, <2>3 DEF Longer
  <2>6. Titled(m2, T)
    BY <2>4, <2>5, TitledAppend
  <2>. QED  BY <2>3, <2>6
<1>. QED  BY <1>6, <1>8

(* Only modules can be marked without tampering, and only they deleted.    *)
LEMMA TitleMark == ASSUME FagMenuInv, TitleInv, Mark PROVE TitleInv'
<1>1. PICK t \in {"NONE", "WARNING"} :
        dump_menu' = [dump_menu EXCEPT ![selected] = [dump_menu[selected] EXCEPT !.type = t]]
  BY Marked
<1>2. PICK n \in Nat : n = Len(dump_menu) /\ menu_entry \in 0 .. n /\ DOMAIN dump_menu = 1 .. n
  BY LenProperties DEF FagMenuInv, FagTypes
<1>3. /\ selected \in 1 .. n /\ dump_menu \in Seq(Entries)
      /\ dump_menu' \in Seq(Entries) /\ Len(dump_menu') = n
  BY <1>2, Marked DEF FagMenuInv, FagTypes
<1>4. UNCHANGED <<titles, menu_entry, dpc, titleid>>
  BY DEF Mark, leftVars, walkVars
<1>5. Title' = Title
  BY <1>4 DEF Title, TitleOn, games
<1>6. tampered' \in BOOLEAN /\ (~tampered' => ~tampered /\ dump_menu[selected].kind = "module")
  BY DEF Mark, TitleInv
<1>. SUFFICES ASSUME ~tampered' PROVE Titled(dump_menu', Title) /\ Passed'
  BY <1>5, <1>6 DEF TitleInv
<1>7. Titled(dump_menu, Title) /\ Passed /\ dump_menu[selected].kind = "module"
  BY <1>6 DEF TitleInv
<1>8. Titled(dump_menu', Title)
  <2>1. PICK m, m2, T, s : m = dump_menu /\ m2 = dump_menu' /\ T = Title /\ s = selected
    OBVIOUS
  <2>. QED  BY <1>1, <1>2, <1>3, <1>7, <2>1, TitledMark
<1>9. Passed'
  <2>1. ASSUME NEW p \in 1 .. n
        PROVE  dump_menu'[p].kind = dump_menu[p].kind /\ dump_menu'[p].own = dump_menu[p].own
    <3>1. PICK e \in Entries : e = dump_menu[p]
      BY <1>2, <1>3, ElementOfSeq
    <3>. QED  BY <1>1, <1>2, <1>3, <3>1 DEF Entries
  <2>2. dpc = "decrypt" => menu_entry # 0
    BY DEF FagMenuInv, ThreadInv
  <2>3. menu_entry # 0 => menu_entry \in 1 .. n
    BY <1>2
  <2>. QED  BY <1>4, <1>5, <1>7, <2>1, <2>2, <2>3 DEF Passed
<1>. QED  BY <1>8, <1>9

(* A deletion moves dump_thread's place along with the entry it is at.     *)
LEMMA TitleDelete == ASSUME FagMenuInv, TitleInv, MenuDeleteEntry PROVE TitleInv'
<1>1. PICK n \in Nat : n = Len(dump_menu) /\ menu_entry \in 0 .. n /\ DOMAIN dump_menu = 1 .. n
                       /\ selected \in 1 .. n
  BY LenProperties DEF FagMenuInv, FagTypes, IndexIsPlace, MenuDeleteEntry
<1>2. /\ dump_menu \in Seq(Entries) /\ dump_menu' \in Seq(Entries) /\ Len(dump_menu') = n - 1
      /\ \A p \in 1 .. (n - 1) :
           dump_menu'[p] = [dump_menu[Before(p, selected)] EXCEPT !.index = p - 1]
  BY <1>1, Deleted DEF Shrunk, FagMenuInv, FagTypes
<1>3. UNCHANGED <<titles, dpc, titleid>>
  BY DEF MenuDeleteEntry, leftVars
<1>4. Title' = Title
  BY <1>3 DEF Title, TitleOn, games
<1>5. /\ tampered' \in BOOLEAN
      /\ ~tampered' => ~tampered /\ ~(dpc # "idle" /\ menu_entry = selected)
      /\ dump_menu[selected].type = "WARNING"
  BY DEF MenuDeleteEntry, TitleInv
<1>. SUFFICES ASSUME ~tampered' PROVE Titled(dump_menu', Title) /\ Passed'
  BY <1>4, <1>5 DEF TitleInv
<1>6. Titled(dump_menu, Title) /\ Passed /\ ~(dpc # "idle" /\ menu_entry = selected)
  BY <1>5 DEF TitleInv
<1>7. dump_menu[selected].kind = "module"
  BY <1>1, <1>5, <1>6 DEF Titled
<1>8. Titled(dump_menu', Title)
  <2>1. PICK m, m2, T, s : m = dump_menu /\ m2 = dump_menu' /\ T = Title /\ s = selected
    OBVIOUS
  <2>2. m \in Seq(Entries) /\ m2 \in Seq(Entries) /\ Titled(m, T) /\ s \in 1 .. n
    BY <1>1, <1>2, <1>6, <2>1
  <2>4. Shorter(m, n, m2, s)
    BY <1>1, <1>2, <1>7, <2>1 DEF Shorter
  <2>3. Titled(m2, T)
    BY <2>2, <2>4, TitledRemove
  <2>. QED  BY <2>1, <2>3
<1>9. CASE dpc = "idle"
  BY <1>3, <1>8, <1>9 DEF Passed
<1>10. CASE dpc # "idle" /\ menu_entry = 0
  <2>1. menu_entry' = 0
    BY <1>1, <1>10 DEF MenuDeleteEntry, Past
  <2>. QED  BY <1>3, <1>8, <1>10, <2>1 DEF Passed, FagMenuInv, ThreadInv
<1>11. CASE dpc # "idle" /\ menu_entry # 0
  <2>1. menu_entry # selected /\ menu_entry' = Past(menu_entry, selected)
    BY <1>6, <1>11 DEF MenuDeleteEntry
  <2>2. menu_entry' \in 1 .. (n - 1) /\ Before(menu_entry', selected) = menu_entry
    BY <1>1, <1>11, <2>1 DEF Past, Before
  <2>3. PICK e \in Entries : e = dump_menu[menu_entry]
    BY <1>1, <1>2, <1>11, ElementOfSeq
  <2>4. dump_menu'[menu_entry'] = [e EXCEPT !.index = menu_entry' - 1]
    BY <1>2, <2>2, <2>3
  <2>5. dump_menu'[menu_entry'].kind = dump_menu[menu_entry].kind
          /\ dump_menu'[menu_entry'].own = dump_menu[menu_entry].own
    BY <2>3, <2>4 DEF Entries
  <2>. QED  BY <1>3, <1>4, <1>6, <1>8, <1>11, <2>5 DEF Passed
<1>. QED  BY <1>9, <1>10, <1>11

(* For any number of titles, modules and system folders, and whatever is   *)
(* added, marked and deleted while dump_thread walks the list              *)
(* (dumpAddEntry, handleSpecInput, dumpThread): a module is decrypted with *)
(* the licence of the title on the line it was added from.                 *)
THEOREM TitleCorrect == FagMenuSpec => []DecryptedAsItsTitle
<1>1. FagMenuInit => FagMenuInv /\ TitleInv
  BY FagMenuStart, TitleStart
<1>2. FagMenuInv /\ TitleInv /\ [FagMenuNext]_fagMenuVars => FagMenuInv' /\ TitleInv'
  <2>. SUFFICES ASSUME FagMenuInv, TitleInv, [FagMenuNext]_fagMenuVars PROVE TitleInv'
    BY FagMenuStep
  <2>1. CASE AddOne \/ (all_entry # 0 /\ AddNext)
    BY <2>1, TitleAdd DEF AddOne, AddNext, leftVars, walkVars, FagMenuInv, FagTypes
  <2>2. CASE Mark
    BY <2>2, TitleMark
  <2>3. CASE MenuDeleteEntry
    BY <2>3, TitleDelete
  <2>4. CASE dumpStart \/ dumpThread
    BY <2>4, TitleWalk
  <2>5. CASE \/ OpenTitle \/ dumpModuleEntryBackCB \/ dumpAllCB \/ AllAdded \/ MoveSelection
             \/ handleSpecInput \/ dumpPopulateThread \/ UNCHANGED fagMenuVars
    <3>1. UNCHANGED <<titles, dump_menu, menu_entry, dpc, titleid, tampered>>
      BY <2>5 DEF OpenTitle, dumpGenerateModuleMenu, dumpModuleEntryBackCB, dumpAllCB, AllAdded,
                  MoveSelection, handleSpecInput, dumpPopulateThread, fagMenuVars, leftVars,
                  dumpMenuVars, walkVars
    <3>2. Title' = Title
      BY <3>1 DEF Title, TitleOn, games
    <3>. QED  BY <3>1, <3>2 DEF TitleInv, Passed
  <2>. QED  BY <2>1, <2>2, <2>3, <2>4, <2>5 DEF FagMenuNext, UserStep
<1>3. FagMenuInv /\ TitleInv => DecryptedAsItsTitle
  <2>. SUFFICES ASSUME FagMenuInv, TitleInv, dpc = "decrypt", ~tampered
       PROVE  titleid = TitleOn(dump_menu[menu_entry].own)
    BY DEF DecryptedAsItsTitle
  <2>1. menu_entry \in DOMAIN dump_menu /\ dump_menu \in Seq(Entries)
    BY DEF FagMenuInv, FagTypes, ThreadInv
  <2>2. dump_menu[menu_entry].own \in Nat
    <3>1. dump_menu[menu_entry] \in Entries
      BY <2>1, ElementOfSeq
    <3>. QED  BY <3>1 DEF Entries
  <2>3. titleid = Title[dump_menu[menu_entry].own]
    BY <2>1 DEF TitleInv, Passed, FagMenuInv, ThreadInv
  <2>. QED  BY <2>2, <2>3 DEF Title
<1>. QED  BY <1>1, <1>2, <1>3, PTL DEF FagMenuSpec
=============================================================================
