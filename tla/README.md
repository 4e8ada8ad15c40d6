# PSVita-RE-tools: a verification project in TLA+

The repository is a collection of tools for reverse engineering on the PS Vita:
kernel modules and applications that run on the console, and command line
programs that run on a PC. This directory models the parts in which something
can go wrong that a test would hardly show (threads, interrupts of a protocol,
retries, power losses), checks the models with TLC and proves theorems about
them with TLAPS.

Every module names the functions it models; `PROJECT.json` maps each definition
to its lines, lists the hazards each property is for, and gives for every
property a faulty variant of the code (the definitions marked *Faulty* in the
modules) under which TLC must find it violated.

Run `tlc -config X.cfg MC_Y` for a check and `tlapm YProofs.tla` for the proofs.

## 1. Inventory

### Logging on the console

| Component | Source | State | Operations |
|---|---|---|---|
| Ring buffer | `PrincessLog/.../ringbuf.c`, the same file in `PSMLogUSB` | memory block, `get_ptr`, `put_ptr`, mutex, event flag | `ringbuf_init/term`, `put`, `put_clobber`, `get`, `get_wait` |
| Sending thread | `PrincessLog/.../kernel_module/src/main.c` | `buf`, socket, connection | printf callbacks, `net_thread`, `net_connect`, `net_close` |
| Module and configuration | same file | flags, `NetLoggingMgrConfig`, `server` | `module_start`, `NetLoggingMgrInit`, `UpdateConfig`, `LoadConfigForKernel` |
| Settings application | `.../settings_app/src/main.c` | the copy being edited, the file, pad and selection | main menu, dialogs, update, save, `CreateConfigFile`, `ReadConfig` |
| PSMLogUSB | `PSMLogUSB/src/main.c` | event flag with two bits, serial driver, UMS state | callbacks, `usb_thread`, hooks on storage start/stop, `module_start/stop` |
| ShipLog 2.0 (obsolete) | `ShipLog2.0/src` | an unlocked buffer, event flag, configuration file | handlers, system calls, `main_netdbg`, settings application |
| NetDbgLogPc | `PrincessLog/src/NetDbgLogPc` | a socket | accept and receive |

Any thread of the console runs the printf callbacks, which put into the ring;
one thread drains it. The settings application talks to the kernel module by
two system calls and through a file that the module reads at boot.

*Hard:* callbacks and the thread interleave at every kernel call; the event flag
is tested outside the mutex; every network call fails; the configuration is
replaced while the thread uses it; the file is truncated before it is written;
the USB port changes hands between two parties that only share two bits.

*Correct means:* a FIFO that loses its oldest bytes first and nothing else; a
reader never sleeps on a ring with bytes; each byte goes out once and in order,
or in a chunk that is known to have failed; nothing uses a ring that is not
there; the server in use is the configured one; mounting, stopping and logging
all make progress.

### Decryption on the console

| Component | Source | State | Operations |
|---|---|---|---|
| FAGDec dump | `FAGDec/src/app/dump.c`, `kplugin/kentente.c`, `uplugin/userAllied.c` | status word, request, event flag, segment files, ELF and SELF files | `dumpThread`, `decompressThread`, `decrypt_thread`, `kuEntente*` |
| FAGDec menus | `FAGDec/src/app/{main,menu,game,sfo,status}.c` | menu tree, lists | selection, reading of titles |

*Hard:* three threads with one status word that is overwritten and one event
flag; each allocation, read and write may fail; the list that `dump_thread` walks
is edited meanwhile. *Correct means:* requests do not overlap, a segment file is
only seen when it is finished, buffers are freed once, a result that is called
verified is complete, a dump ends, and a module is decrypted with the licence
and under the mount of its own title.

### Other kernel modules

ioPlus, noASLR, physmem-dumper, PSVita-RTC-set, unity_debug, base_hooker:
hooks and patches, mostly without state. Kdumper relies on undocumented behaviour
of one firmware.

### PC tools

vitadecompiler-mod (relocations, NID database, decompilation), THGN,
vita-unmake-fself, elf_injector, PSVita-ELF-builder, three `psp2-*-extract`
tools, kdump-extract, unarzl, PSVita-error-code-resolver. They are sequential.

*Hard:* bit fields at the ends of their range, values that survive from one entry
of a table to the next, offsets that shift when a segment grows, an attempt
repeated over the remains of the one before, a parser that looks one event
ahead. *Correct means:* what a decoder writes is what its input stands for; every
instruction is rewritten once; a relocated instruction reaches its target; what
is injected into a file comes out of it; a tree is the stream's tree or there is
a message.

## 2. Modules

| Module | Models | Uses |
|---|---|---|
| `LogFifo` | abstract: what the ring promises | |
| `RingBuf` | `ringbuf.c`, one step per kernel call and per byte | implements `LogFifo` |
| `NetThread` | callbacks, `net_thread`, `net_connect`, `net_close` | the promise of `LogFifo` |
| `NetLoggingMgr` | start-up with every failure, the configuration, which server is in use | `NetThread` seen from far away |
| `Menu` | pad, `MainMenu`, `QafSettings` of the settings application | |
| `SettingsApp` | the configuration: file, edited copy, kernel copy, boots and power losses | `Menu` chooses the callback |
| `PSMLogUSB` | the USB logger with its two storage hooks | the ring as a counter of chunks |
| `FAGDec` | the three threads of a dump | |
| `FagMenu` | FAGDec's two panes, the title list, `dump_thread`'s walk over the list | `FAGDec` as one step, "decrypt" |
| `ShipLog` | ShipLog's handlers, system calls and `main_netdbg` on an unlocked buffer | |
| `Arzl` | `unarzl`: decoder of tokens, copies of matches, the doubling of the buffer | |
| `ArzlBranch` | `arzl_deobfuscate`, the branch filter behind the decoder | |
| `Relocate` | `uvl_relocate` of vitadecompiler-mod | |
| `Fself` | elf_injector, then vita-unmake-fself | |
| `YamlTree` | `yamltree.c` of THGN and vitadecompiler-mod | |
| `MC_RingBuf` | the ring in both places its block may have; the refinement | `RingBuf` twice, `LogFifo` |
| `MC_SettingsApp` | the two applications with menus | `Menu`, `SettingsApp`, `FagMenu` |
| `MC_Tools` | the plugin and the PC tools | `ShipLog` to `YamlTree` |
| other `MC_*` | one component each | |
| `*Proofs` | theorems | |

Modules that share no variable share a run: a variable `part` says which of them
moves in a behaviour, because their product would only repeat the same states.

**RingBuf.** Pointers are addresses, because `idx()` reduces an address and not
an offset: how the ring behaves depends on `Base % BufLen`. The kernel aligns
blocks to 4 KiB pages and the ring has 8 KiB, so two placements exist.
In the first (aligned) the ring keeps `BufLen - 1` bytes; in the second (half
its length off) it is still a FIFO, of `BufLen / 2 - 1` bytes. `MC_RingBuf`
instantiates the module once for each. Each thread
has a program counter over the kernel calls of `put`, `put_clobber`, `get` and
`get_wait`; the mutex and the event flag are the kernel's.

**NetThread.** Bytes are numbered in the order in which they are logged, so the
ring is two numbers and sets of numbers say what was sent, what was sent on the
open connection, what was overwritten and what was cut off. The network may fail
at any call, and `ksceNetSend` may take a part of a chunk and then fail.

**NetLoggingMgr.** `server` is two words that are loaded and stored separately.
`last` is the result of the last call that ended. The module stays resident
however `NetLoggingMgrInit` ends, as `module_start` always returns success.

**SettingsApp.** A file is absent, empty or whole; rewriting it is an open that
truncates and a write, with a possible boot in between. A boot is with or
without the kernel module and with or without L held. A port is what `atoi`
returns modulo 2^16. Reads of the file are taken to succeed.

**Menu.** The user presses and releases buttons at any time; `ReadPad` samples
them. The list may be longer than the screen.

**PSMLogUSB.** The event flag is a set of bits with the kernel's operations:
`ksceKernelClearEventFlag` keeps the bits it is given, so the call in
`usb_thread` clears the bit that it does not name. Other USB drivers may take the
port at any time, and the cable comes and goes.

**FAGDec.** `status` is the single message of the plugin, which a later message
overwrites. Which segments are encrypted is given per module. Every segment of a
result carries the module it came from, so that a mix-up would be seen.

**FagMenu.** A linked list of entries is a sequence, a pointer to an entry its
position; the `index` field by which `menu.c` finds entries again is kept, since
deletions must renumber it. How many titles exist is a choice of `Init`; they are
numbered in the order of the list. `dumpAllCB` adds one module per step, while
`dump_thread` and `dumpPopulateThread` go on. Headings
carry the text they are drawn with, and every module remembers the line it was
added from (`own`), which the code forgets; the two properties compare them.

**ShipLog.** The buffer is a number of bytes. `buf_pos += len` is a load and a
store. `main_netdbg` prints too ("Connected!"), so that even with one printing
thread two handlers can overlap; `overlapped` records it.

**Arzl.** The adaptive range coder is left out: a stream is the bits that it
yields, followed by zeros. The meaning of the bits (literal, length classes,
distance slots, the end code), the copy of a match over the bytes it produces, and
the loop that doubles the buffer and starts again are kept; widths are
parameters. A stream that is corrupt is not followed past the error.

**ArzlBranch, Relocate.** Real widths: 16-bit halfwords, the code's branch fields,
signed 32-bit addresses. A word of `Relocate` is two halfwords. `value` is the
local variable that survives from one entry to the next.

**Fself.** A file is a function from places to the part of a segment they hold. The
ELF that is injected has the SELF's program headers, in ascending order, as after
taking it out and editing it in place. zlib is external, the compressed length a
free choice.

**YamlTree.** libyaml is external: any stream of its grammar, with an error in
place of any event. The recursive functions are frames of a stack. What a tree
describes is defined by walking it depth first with the nodes that are left to
be visited, one event per step (`Describes`).

## 3. Runs

| Run | Instance | Distinct states | Shows |
|---|---|---|---|
| `ringbuf` | one writer, one reader; 4 slots aligned with calls of up to 2 bytes, and 8 slots half a length off, one call at a time | 259 000 | flag = "not empty", no lost wake-up, init/term balance, refinement of `LogFifo`, calls return |
| `netthread` | ring of 3, buffer of 2, 1 + 6 bytes logged | 109 000 | where each byte ends up, order, repetition, sockets, every byte leaves |
| `netmgr` | one caller, 2 addresses, 2 ports | 320 000 | nothing runs without a ring, server = configuration, an update takes effect once the log is quiet |
| `netmgr_update` | as above | | *violation*: with a log that is never quiet an update never takes effect |
| `psm` | ring of 2 chunks | 7 600 | the ring outlives its reader, the device ends up closed, logging resumes, mounting and stopping return |
| `psm_ums` | as above | | *violation*: serial driver started while storage is mounted |
| `fagdec` | 2 modules of 2 segments, one of them with a plain segment; all failures | 1 560 000 | segment files, requests, path buffers, verified SELF |
| `fagdec_finishes` | same, no failures | | *violation*: a dump that never ends |
| `settings` | 20 items on 10 lines, 2 buttons at once; one address, ports 0, 21, 65536, 65557; one system folder, one title, 5 entries | 2 060 000 | selection, callbacks, one press one effect, magic, repair after a power loss, update = reboot; licence of the right title, index = place |
| `settings_saved` | as in the code: 7 items; no failing writes | | *violation*: saved settings that are not in force after a boot |
| `fagmenu_mount` | as in `settings`, with 2 titles | | *violation*: a module decrypted while another title is mounted |
| `tools` | see below | 629 000 | overflow of ShipLog's buffer only with two printers, what was printed leaves it; decoder, branch filter, relocations, injection and YAML tree against reference definitions |

*Why the bounds are enough.* A ring of 4 slots wraps, becomes full and overwrites
with calls of 2 bytes, and a call longer than what is free occurs. A chunk of 2
bytes can be cut in the middle and fail in the middle; 7 bytes through a ring of
3 overwrite, fill the buffer and leave a remainder. Two modules are the least
with which the end of one request meets the start of the next, two segments the
least with which one message can replace another. With 20 items on 10 lines all
four directions reach each of their branches (7 at a time, to the edge, beyond
it). 65536 and 65557 wrap to 0 and to 21. Five entries are two headings with
modules between them, so that deletions happen before, at and behind the place
of `dump_thread`; `fagmenu_mount` needs two titles. Symmetry is not used: the
sets of threads are singletons.

In `tools`: a buffer of 3 and texts of 1 and 2, three of them, fill it, do not
fit and pass the end; 12 bits with the narrowest widths hold a literal, matches
that overlap themselves, and the end code, and the buffer grows from 2 to 8; four
halfwords out of six values (two first halves of a BL, one of which begins a MOVT
too, two second halves, the second half of a MOVT, and one that is neither) place
an instruction at every offset and two next to each other; text and data are 16 MB apart with addends of
-1 and 1, so both ends of the range of a BL are reached and passed; two segments
of up to 2 places, with room behind, before and between them, grow, shrink and
fail to compress; ten events nest twice and
begin a second document.

Deadlock is checked except in `netthread` (the log is bounded), `psm` (the
module has been stopped), `fagdec` (the dump is over, or hangs, which
`fagdec_finishes` is about) and `tools` (a tool ends).

Each module states its types (`TypeOK` and the like). They are proved, by
themselves (`TypeCorrect`) or as a part of an inductive invariant, wherever a
theorem needs them, and no run spends its time on them.

### Fairness

- `RingBuf`: weak fairness of a thread inside the mutex, strong fairness of
  taking it, because the kernel hands a mutex over in the order of the queue.
  A reader that waits for a byte is not assumed to be woken. `MCFairness` says
  the same for the placement a behaviour is about.
- `NetThread`: weak fairness of the thread; strong fairness of a successful
  `socket`, `connect` and `send`: the network comes back again and again, and
  this is what the retry loops wait for.
- `NetLoggingMgr`: weak fairness of the thread and of a call that has started.
- `PSMLogUSB`: weak fairness of `usb_thread`, of the hooks and of `module_stop`
  once they are running; the cable is finally plugged in and a send that is
  tried again and again succeeds; who mounts storage unmounts it.
  `MountReturns` additionally assumes that the console keeps printing, and
  `LogResumes` and `StopReturns` that it is mounted finitely often; these
  assumptions are part of the properties.
- `FAGDec`: weak fairness of the three threads.
- `ShipLog`: weak fairness of the handlers and of the net thread; strong fairness
  of a connection that succeeds and of a transfer that goes on: the network does
  not refuse for ever, which is what `main_netdbg` retries for.

## 4. Theorems

All are proved from the assumptions named in the modules that declare the
constants, and for every value of them.

**RingBufProofs** (any threads, length, sizes). `TypeCorrect`: the pointers never
leave the block, at any address. `MutexCorrect` and `ObjectsCorrect` rest on
`LockInv`: mutual exclusion is inductive together with "no call is running
unless the ring is ready" and with the objects owned at each stage of
`ringbuf_init`.

`FlagCorrect`, `WakeupCorrect` and `RingIsFifo` hold for every placement of the
block in which the ring can fill up (`ASSUME Placed` in the theorem: full() becomes
true after some number of bytes). `TwoPages` shows that this is no restriction for
the two modules: a block of two pages (their `RINGBUF_LEN`) is such a placement at
every page, with room for all but one byte on a multiple of its length, and for
one page less a byte elsewhere. idx() reduces an address, so that `inc` moves a
pointer by `Stride` slots modulo the length; `At(g, k)` is the place k increments
behind g, and `NoReturn` says that a pointer is back only after `BufLen` of them:
if the ring fills up after c bytes, c strides are -1 modulo the length, hence k
strides that are 0 make k itself 0. `HeldInv` (put_ptr is at most `Capacity`
increments behind get_ptr) is what every pointer argument then uses.

`FlagInv` strengthens "flag iff not empty" by what the flag says at every place
inside a call, since `put` sets it only after its loop and `get` clears it after
its own. `RingIsFifo`: the ring implements `LogFifo`, the queue that drops its
oldest byte when it is full. `QueueInv` says that the queue is the bytes met on the
way from `get_ptr` to `put_ptr`; lemmas say what storing a byte, moving either
pointer and overwriting the oldest byte do to that sequence, and each step of
`put`, `get` and `inc` is shown to be a step of the queue or a stutter.

**NetThreadProofs** (any ring, buffer and log length): `Accounting`, `Order`,
`Repeats`, `Clobbering`, `Sockets` from one invariant: the sets of bytes
partition what has left the ring, the buffer holds the newest of them in an
interval, and only a failed chunk is both in the buffer and sent.

**NetLoggingMgrProofs** (any addresses and ports, every failure of
`NetLoggingMgrInit`). `StartCorrect`: no callback is registered and no thread runs
without a ring; `StartInv` says what exists at each stage of the initialisation
and of its way back. `ServerCorrect`: when no call is running, `server` is what
the last successful configuration says. It is stated under `OneCaller`: the two
words of `server` are stored one after the other without a lock, and two
overlapping calls leave the address of one and the port of the other. The
invariant says which of the words a running call has stored (`WordsInv`).

**PSMLogUSBProofs** (a ring of any size): `RingCorrect` and `ClosedCorrect`. What
both need is `Joined`: once `ksceKernelWaitThreadEnd` has returned, `usb_thread`
has ended, so nobody reads the ring that is deleted next and nobody opens again
what `module_stop` closes after it.

**FAGDecProofs** (any list, any segments, all failures). `Requests` and
`PathBuffers`: the invariant relates the plugin's thread of a module to the
place of `dumpThread`: a request is running only while `dumpThread` waits for
that module, and a buffer is owned exactly between two places of the plugin.
`SegFilesCorrect` needs that a segment file is renamed only when it has been
closed (`RenameInv`). `VerifiedSelfCorrect`: an entry that was verified has, in
its SELF, each of its own segments except those that could not be written.
The hash is the one of the ELF, so the proof has to show that the SELF
is never behind the ELF (`BehindSelf`), that nothing of an entry is written
before its turn (`NotBefore`), and that what `dumpThread` holds in its buffer
and in its name belongs to the entry it is at (`HeldInv`, `NameInv`).

**SettingsAppProofs**, `Menu` (a list of any length, a screen of any height):
`SelectionCorrect`, `CallbackCorrect` and the action properties `MovesCorrect` and
`PressCorrect`. Lemmas give for each direction where it leads; the invariant is
that the selection is a position and that, outside a redraw, `sel_idx` is the item
drawn next to the star. For `PressCorrect` it is that only buttons that are held
have had their effect (`PressInv`).

**SettingsAppProofs**, `SettingsApp` (any addresses and ports, any number of boots,
failed writes and power losses): `MagicCorrect`, `RepairCorrect` and
`UpdateCorrect`, from one invariant: what a launch of the application has loaded
by each of its steps (`LaunchInv`), and that the kernel's server is the one of the
kernel's configuration (`ServerInv`).

**FagMenuProofs** (any number of system folders, titles, modules and entries).
`IndexCorrect` rests on two facts more: the title line stays first, is never
selected and so never marked or deleted (`TitleStays`), hence `MenuFindType`
always finds an entry; and `dump_thread` is at an entry when it decrypts
(`ThreadInv`). menu.c's searches are CHOOSEs of a nearest place; `Least` and
`Greatest` show that there is one. `TitleCorrect` needs what the list says of
itself (`Titled`: the last heading above a module is the one of its title) and
what the walk has seen (`Passed`: at a module, `titleid` is its title), and that
`gameEntryCB`'s arithmetic takes a line back to its game (`Games`). `Titled` alone
would not do when `dump_thread` comes to a module from the module above it; it
says that neighbours have one title, too. `Titled` is kept by a deletion
because only modules are deleted (`TitledRemove`); a mark on a heading would make
it invisible to `MenuFindType`, which is why the property excepts it
(`tampered`).

**ToolsProofs**, `ArzlBranch` (code of any length and content): `BranchesCorrect`.
`EveryBranchOnce` is inductive together with `Pointer`: no BL straddles the
pointer (in version 2 no MOVT either) and it is at most one past the end. Without
that the halfword in front of the pointer could be the first half of an
instruction that nobody will look at again. Lemmas about the bit fields say that
a moved BL is still a BL, that the opposite offset undoes the move, across a wrap
of the 22 bits too, and that two instructions never share a halfword.

**ToolsProofs**, `Relocate` (any segments, addresses, instruction words and
entries): `RelocationCorrect`. One lemma per encoding says that decoding the word
that `uvl_relocate` makes gives the target back, for any word that was there and
any offset in range. Addresses are unbounded numbers here; the differences are
those of the code as long as they fit into 32 bits.

**ToolsProofs**, `Fself` (any number of segments of any lengths):
`InjectCorrect`. The table is corrected one entry at a time, so the invariant
speaks about the place a segment will have once the injector has come past it
(`Place`): these places stay in order and behind the headers (`SelfInOrder`)
whatever has grown, hence nothing is written over a segment that was written
before, and `uncompress` finds each where the table says.

**ToolsProofs**, `ShipLog` (any threads, buffer and texts): `OverflowCorrect`. As long as
nobody overlapped, one thread is inside a handler at most (`Alone`); once it has
passed the test there is room for its text (`Room`), since the others only empty
the buffer, and it stores a position that was tested (`Tested`).

**ToolsProofs**, `Arzl` (streams of any length and content, any widths of the
code): `DecoderCorrect`, that is `DecodedInPlace`. The reference is recursive: a
number is read from its bits, a text and a code are built from tokens. The
library's induction theorems cannot be used (they take an operator); `Induction`
is a lemma about a *set* of numbers, proved from its least counterexample
(`Least`). With it each recursive function is shown to exist (`PowExists`,
`BitsExist`, `CoderExists`) and to have its step (`PowSucc`, `BitsRead`,
`CoderAppend`). `LengthRead` and `DistanceRead` then say that what the decoder reads
a length and a distance from is the code of the value it gets. The invariant adds
to the property what holds inside a match: the bytes copied so far repeat the ones
in front of them with the period of the distance (`Repeats` in `OutputInv`), and
the code of the token is used up already (`CodeInv`).

**ToolsProofs**, `YamlTree` (streams of any length and depth, an error of libyaml
anywhere): `TreeCorrect`, that is `TreeOrProblem`. The reference walks down the
finished tree and names an event at each node; the parser builds the tree from
the inside. `Items(events, nodes, i, j)` says that the walk over these nodes takes
the events from i to j *whatever is left to be visited after them*; quantifying
over the rest is what makes it hold of a part of a tree, and composable
(`ItemScalar`, `ItemClosed`, `ItemsAppend`). The invariant (`Where`) says at which
event each open frame began and that its items so far end where the next frame
began (`OpenAt`), and that libyaml has the same sequences and mappings open as the
parser, one event ahead (`Levels`, `Ahead`). That no end belongs to another frame,
that a mapping never ends between a key and its value, and that the last branch
of `process_node` is never taken (`NodeAhead`) follow from the latter.

*Only model-checked:* liveness (`CallsReturn`, `EveryByteLeaves`,
`UpdateTakesEffectWhenQuiet`, `LogResumes`, `MountReturns`, `StopReturns`,
`PrintedLeaves`), which needs fairness and ENABLED. Everything else that a passing
run checks is stated by a theorem (`ImplementsFifo` by `RingIsFifo`).

## 5. What was found

1. `netmgr_update`: README says an update of the configuration works without a
   reboot. `net_thread` keeps an open connection while chunks arrive within a
   second of each other; with a log that never pauses, the old server stays in
   use. Once the log pauses the update takes effect
   (`UpdateTakesEffectWhenQuiet`).
2. `psm_ums`: README says the serial connection is interrupted during UMS.
   `usb_thread` restarts it when it finds SERIAL_STOP, which may be left over.
3. `fagdec_finishes`: the plugin's status word holds one message. When DONESEG
   is replaced before it is polled, or a module has no encrypted segment,
   `dumpThread` waits for ever; a DONE between poll and `kuEntenteGetLogs` is
   lost. `VerifiedSelfIsWhole` says what the verification covers: the hash is
   the one of the temporary ELF, so a SELF may still lack what could not be
   written to it.
4. `settings_saved`: with the kernel module loaded and no valid configuration
   (no file, or L held at boot), the settings application takes over a zero
   magic, reports "Save Config Success." and writes a file that is never used
   and never repaired. `MagicSurvives` shows that this is the only way to lose
   the magic.
5. `fagmenu_mount`: `gamePfsDecrypt` does not use the title it is given; it mounts
   the one whose module list was opened last. With modules of two titles in the
   list, those of one are read under the mount of the other. The licence is
   the right one (`DecryptedAsItsTitle`).

Smaller observations: a port above 65535 wraps around instead of being refused; a
refused port stays stored; `module_stop` of PSMLogUSB hangs on an empty ring; with
network and file enabled ShipLog waits for the next print after a failed
transfer before it reconnects; a branch that is out of range is overwritten with
the value of the entry before it; the bound on `r_offset` is the size of the
relocation segment and not of the segment that is patched; `len < 0` in
`unarzl.c` is never true; elf_injector truncates its output before it compares
the numbers of segments; a second YAML document is refused, not read.

## 6. Plan

The models of section 2 are complete as far as the code allows (section 7), and
every invariant, action property and refinement that a run checks is proved
(section 4). When the code changes:

1. Change the module the table of section 2 names, let its run and its mutants
   pass, then repair the proofs; the inductive invariants are named above.
2. A ring of another length than two pages, or an allocator with another
   alignment, needs its own `TwoPages`: there are placements in which the ring
   never fills up and overwrites itself.

## 7. Not modelled

- Nine copies of `elf.h`, other vendored headers and fonts: about two thirds of
  the lines of the repository, constants and layouts without behaviour.
- Drawing, SHA-256 and zlib: the models say what is hashed and unpacked, not how.
- Decompilation: printing of strings driven by a disassembler library. THGN's walk
  over the import table prints one hook per entry.
- Extractors and builders (`psp2-*-extract`, kdump-extract, PSVita-ELF-builder,
  PSVita-error-code-resolver): one pass over a table, one file or line per entry,
  with nothing that one entry does to another.
- ShipLog's settings application: obsolete, of the same kind as the one that is
  modelled, and without a call into the plugin.
- NetDbgLogPc: accept, receive and print. `NetThread` already lets the peer end,
  cut and refuse connections at any time.
- ioPlus, noASLR, unity_debug, base_hooker, PSVita-RTC-set, physmem-dumper: hooks
  and patches that pass a call on, or one loop in one thread. ioPlus 0.2 keeps a
  device table, but fills it from calls of a system module outside the repository.
- Kdumper: undocumented behaviour of one firmware.

Within the modelled components: formatting of log messages (a message is a number
of bytes), the range coder of `unarzl`, zlib, libyaml beyond its grammar, reading
of SFO files beyond the title they yield, and scrolling of FAGDec's panes.
