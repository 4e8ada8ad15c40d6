----------------------------- MODULE SettingsApp -----------------------------
(***************************************************************************)
(* The life of PrincessLog's configuration: the file                       *)
(* ur0:data/NetLoggingMgrConfig.bin, the copy the settings application     *)
(* edits, and the copy of the kernel module, over any number of launches,  *)
(* boots and power losses.                                                 *)
(*                                                                         *)
(* A file is rewritten in two steps, an open that truncates it and a       *)
(* write, and the power may fail between them.  The console may be booted  *)
(* with the kernel module in config.txt or not, and with L held, in which  *)
(* case the module is loaded and does nothing.  How buttons choose a       *)
(* callback is Menu's part; here any callback may be next.                 *)
(***************************************************************************)
EXTENDS Integers

CONSTANTS TypedIPv4s,     \* addresses the user may type
          TypedPorts,     \* numbers the user may type as a port
          WriteMayFail    \* whether the file may resist being rewritten

ASSUME SettingsAssumption ==
  /\ TypedIPv4s \subseteq Nat
  /\ \A t \in TypedPorts : t \in Nat /\ t <= 99999
  /\ WriteMayFail \in BOOLEAN

DEFAULT_PORT == 8080

(* port is a uint16_t: what atoi returns is stored modulo 2^16.            *)
StoredPort(typed) == typed % 65536

InvalidPort(port) == port < 1 \/ port > 65535

(* flags is its one bit, qaf.                                              *)
ZeroConfig == [magic |-> FALSE, IPv4 |-> 0, qaf |-> FALSE, port |-> 0]

NoFile == [size |-> "none", data |-> ZeroConfig]
Empty == [size |-> "empty", data |-> ZeroConfig]
Whole(c) == [size |-> "whole", data |-> c]

NoServer == [addr |-> 0, port |-> 0]

ServerOf(c) ==
  [addr |-> c.IPv4, port |-> IF c.port # 0 THEN c.port ELSE DEFAULT_PORT]

VARIABLES
  file,      \* the configuration file
  apppc,     \* where the application is; "off" when it does not run
  mem,       \* NetLoggingMgrConfig of the application
  resident,  \* the kernel module is loaded
  kconfig,   \* NetLoggingMgrConfig of the kernel module
  server,    \* the server the kernel module connects to
  msg,       \* what the last operation told the user
  saved,     \* the file as the user last saw it saved, {} when unknown
  lost,      \* the last write of the file failed
  skipped    \* some boot loaded the module without a valid configuration

appVars == <<apppc, mem>>
kernelVars == <<resident, kconfig, server>>
settingsVars == <<file, apppc, mem, resident, kconfig, server, msg, saved, lost, skipped>>

------------------------------------------------------------------------------
(* Boot, wanted or not.  NetLoggingMgrLoadConfigForKernel takes the server *)
(* from a whole file with the right magic; a whole file with a wrong one   *)
(* is in NetLoggingMgrConfig all the same.                                 *)

Accepts == file.size = "whole" /\ file.data.magic

BootWithModule ==
  /\ resident' = TRUE
  /\ kconfig' = file.data
  /\ server' = IF Accepts THEN ServerOf(file.data) ELSE NoServer
  /\ msg' = "booted"
  /\ skipped' = (skipped \/ ~Accepts)

BootHoldingL ==
  /\ resident' = TRUE
  /\ kconfig' = ZeroConfig
  /\ server' = NoServer
  /\ msg' = "none"
  /\ skipped' = TRUE

BootWithoutModule ==
  /\ resident' = FALSE
  /\ kconfig' = ZeroConfig
  /\ server' = NoServer
  /\ msg' = "none"
  /\ UNCHANGED skipped

Boot ==
  /\ apppc' = "off"
  /\ mem' = ZeroConfig
  /\ BootWithModule \/ BootHoldingL \/ BootWithoutModule
  /\ UNCHANGED <<file, saved, lost>>

------------------------------------------------------------------------------
(* main: CreateConfigFile, ReadConfig, MainMenu.                           *)

Goto(where) == apppc' = where

Launch ==
  /\ apppc = "off"
  /\ Goto("stat")
  /\ mem' = ZeroConfig
  /\ msg' = "none"
  /\ UNCHANGED <<file, kernelVars, saved, lost, skipped>>

(* Faulty: a file that is there is left alone, whatever its size.          *)
CreateConfigFileExists ==
  /\ apppc = "stat"
  /\ IF file.size # "none"
     THEN Goto("search") /\ UNCHANGED <<file, mem>>
     ELSE /\ mem' = [mem EXCEPT !.magic = TRUE]
          /\ file' = Empty
          /\ Goto("create")
  /\ UNCHANGED <<kernelVars, msg, saved, lost, skipped>>

(* Faulty: forgets the magic.                                              *)
CreateConfigFileNoMagic ==
  /\ apppc = "stat"
  /\ IF file.size = "whole"
     THEN Goto("search") /\ UNCHANGED <<file, mem>>
     ELSE file' = Empty /\ Goto("create") /\ UNCHANGED mem
  /\ UNCHANGED <<kernelVars, msg, saved, lost, skipped>>

(* CreateConfigFile up to its sceIoOpen; with no descriptor the write that *)
(* follows fails as well.                                                  *)
CreateConfigFile ==
  /\ apppc = "stat"
  /\ IF file.size = "whole"
     THEN Goto("search") /\ UNCHANGED <<file, mem, lost>>
     ELSE /\ mem' = [mem EXCEPT !.magic = TRUE]
          /\ \/ file' = Empty /\ Goto("create") /\ UNCHANGED lost
             \/ WriteMayFail /\ lost' = TRUE /\ Goto("search") /\ UNCHANGED file
  /\ UNCHANGED <<kernelVars, msg, saved, skipped>>

(* A write of the whole configuration; nobody looks at its result.         *)
WriteConfig ==
  \/ file' = Whole(mem) /\ lost' = FALSE
  \/ WriteMayFail /\ lost' = TRUE /\ UNCHANGED file

CreateWrite ==
  /\ apppc = "create"
  /\ WriteConfig
  /\ Goto("search")
  /\ UNCHANGED <<mem, kernelVars, msg, saved, skipped>>

(* ReadConfig: from the kernel module when there is one, else from the     *)
(* file.  A wrong magic leads to CreateConfigFile, which finds a file of   *)
(* the right size and leaves it.                                           *)
ReadConfig ==
  /\ apppc = "search"
  /\ mem' = IF resident THEN kconfig
            ELSE IF file.size = "whole" THEN file.data ELSE mem
  /\ Goto("menu")
  /\ UNCHANGED <<file, kernelVars, msg, saved, lost, skipped>>

------------------------------------------------------------------------------
(* The callbacks of MainMenu.                                              *)

Edit(new, told) ==
  /\ mem' = new
  /\ msg' = told
  /\ UNCHANGED <<file, apppc, kernelVars, saved, lost, skipped>>

(* The dialog fails, or its text is no address, or it is one.              *)
SetServerIPv4 ==
  /\ apppc = "menu"
  /\ \/ Edit(mem, "error")
     \/ \E a \in TypedIPv4s : Edit([mem EXCEPT !.IPv4 = a], "ipv4 set")

(* The number is stored first and looked at after that; what is refused    *)
(* stays stored.                                                           *)
SetServerPort ==
  /\ apppc = "menu"
  /\ \/ Edit(mem, "error")
     \/ \E t \in TypedPorts :
          LET port == StoredPort(t)
          IN Edit([mem EXCEPT !.port = port],
                  IF InvalidPort(port) THEN "invalid port" ELSE "port set")

(* Line 0 of QafSettings.                                                  *)
ToggleQaf ==
  /\ apppc = "menu"
  /\ Edit([mem EXCEPT !.qaf = ~@], "none")

(* Faulty: the kernel module keeps the server it has.                      *)
UpdateConfigOnly ==
  /\ apppc = "menu"
  /\ IF resident /\ mem.magic
     THEN kconfig' = mem /\ msg' = "updated"
     ELSE msg' = "error" /\ UNCHANGED kconfig
  /\ UNCHANGED <<server, file, appVars, resident, saved, lost, skipped>>

(* UpdateConfig and the system call NetLoggingMgrUpdateConfig, which       *)
(* refuses a wrong magic.                                                  *)
UpdateConfig ==
  /\ apppc = "menu"
  /\ IF resident /\ mem.magic
     THEN kconfig' = mem /\ server' = ServerOf(mem) /\ msg' = "updated"
     ELSE msg' = "error" /\ UNCHANGED <<kconfig, server>>
  /\ UNCHANGED <<file, appVars, resident, saved, lost, skipped>>

(* SaveConfig up to its sceIoOpen, which may fail.                         *)
SaveConfig ==
  /\ apppc = "menu"
  /\ \/ /\ file' = Empty
        /\ saved' = {}
        /\ Goto("save")
        /\ UNCHANGED msg
     \/ msg' = "error" /\ UNCHANGED <<file, saved, apppc>>
  /\ UNCHANGED <<mem, kernelVars, lost, skipped>>

(* "Save Config Success."                                                  *)
SaveWrite ==
  /\ apppc = "save"
  /\ WriteConfig
  /\ Goto("menu")
  /\ msg' = "saved"
  /\ saved' = {mem}
  /\ UNCHANGED <<mem, kernelVars, skipped>>

Exit ==
  /\ apppc = "menu"
  /\ Goto("off")
  /\ msg' = "none"
  /\ UNCHANGED <<file, mem, kernelVars, saved, lost, skipped>>

------------------------------------------------------------------------------
SettingsInit ==
  /\ file = NoFile
  /\ apppc = "off"
  /\ mem = ZeroConfig
  /\ resident = FALSE
  /\ kconfig = ZeroConfig
  /\ server = NoServer
  /\ msg = "none"
  /\ saved = {}
  /\ lost = FALSE
  /\ skipped = FALSE

AppStep ==
  \/ Launch \/ CreateConfigFile \/ CreateWrite \/ ReadConfig
  \/ SetServerIPv4 \/ SetServerPort \/ ToggleQaf
  \/ UpdateConfig \/ SaveConfig \/ SaveWrite \/ Exit

SettingsNext == Boot \/ AppStep

SettingsSpec == SettingsInit /\ [][SettingsNext]_settingsVars
------------------------------------------------------------------------------
(* As long as every boot that loaded the kernel module found a valid file  *)
(* (and L was not held), the magic is never lost: not in a whole file, not *)
(* in the copy that is edited, and not in the kernel, however often the    *)
(* power fails in the middle of a save.                                    *)
MagicSurvives ==
  ~skipped =>
    /\ file.size = "whole" => file.data.magic
    /\ apppc \in {"menu", "save"} => mem.magic
    /\ resident => kconfig.magic

(* A file that a power loss left empty is whole again when the menu        *)
(* appears: only a write that failed leaves it empty.                      *)
RepairedOnLaunch ==
  apppc \in {"search", "menu"} => file.size = "whole" \/ lost

(* "Update Config" together with "Save Config" stands for a reboot: when   *)
(* the file holds what a running kernel module uses, booting with it       *)
(* changes nothing.                                                        *)
UpdateStandsForReboot ==
  [][resident /\ server # NoServer /\ file = Whole(kconfig) /\ msg' = "booted"
       => server' = server]_settingsVars

(* Settings that the user was told are saved are the ones in force after   *)
(* the next boot with the kernel module.                                   *)
SavedReachesServer ==
  msg = "booted" => \A c \in saved : server = ServerOf(c)
==============================================================================
