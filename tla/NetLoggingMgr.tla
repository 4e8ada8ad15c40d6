---------------------------- MODULE NetLoggingMgr ----------------------------
(***************************************************************************)
(* PrincessLog's kernel module around its sending thread: module_start and *)
(* NetLoggingMgrInit with every way they fail, the configuration, the      *)
(* server address derived from it, the two calls that replace it while     *)
(* net_thread runs (NetLoggingMgrUpdateConfig, a system call, and          *)
(* NetLoggingMgrLoadConfigForKernel, an export for kernel modules), and    *)
(* which server the thread's connections go to.                            *)
(*                                                                         *)
(* Nothing is locked: `server' is written word by word while net_thread    *)
(* reads it.  A store whose value is loaded from the global configuration  *)
(* is a load step and a store step.                                        *)
(*                                                                         *)
(* net_thread is NetThread seen from far away: only whether there is a     *)
(* connection, to where, and whether bytes are waiting to be sent.         *)
(***************************************************************************)
EXTENDS Integers

CONSTANTS Callers,    \* the threads that change the configuration
          IPv4s,      \* the addresses a configuration may hold
          Ports       \* the ports it may hold; 0 stands for "not set"

DEFAULT_PORT == 8080

ASSUME NetLoggingMgrAssumption ==
  /\ IPv4s \subseteq Nat
  /\ Ports \subseteq Nat

(* `flags' of the configuration only gates the QAF hook's return value.    *)
ConfigData == [magic : BOOLEAN, IPv4 : IPv4s, port : Ports]
ZeroConfig == [magic |-> FALSE, IPv4 |-> 0, port |-> 0]
NoServer == [addr |-> 0, port |-> 0]
NotConnected == [addr |-> -1, port |-> -1]

VARIABLES
  initpc,     \* the next step of NetLoggingMgrInit, or how it ended
  ring,       \* the ring buffer is initialised
  hooked,     \* hook_uid[0] is installed
  handlers,   \* the printf callbacks are registered
  flags,      \* NetLoggingMgrFlags
  config,     \* NetLoggingMgrConfig
  server,     \* the address net_connect uses
  call,       \* the call each caller is in
  callpc,     \* where it is in that call
  arg,        \* what the call copies or reads into config
  reg,        \* the word loaded for the store to come
  last,       \* the result of the last call that ended
  thread,     \* net_thread: "none", "idle", "connect", "send" or "more"
  conn,       \* the server the open connection goes to
  pending     \* the ring holds bytes

startVars == <<initpc, ring, hooked, handlers>>
callVars == <<call, callpc, arg, reg, last>>
threadVars == <<thread, conn, pending>>
vars == <<initpc, ring, hooked, handlers, flags, config, server,
          call, callpc, arg, reg, last, thread, conn, pending>>

------------------------------------------------------------------------------
(* The server address of a configuration.                                  *)

PortOf(c) == IF c.port # 0 THEN c.port ELSE DEFAULT_PORT

ServerOf(c) == [addr |-> c.IPv4, port |-> PortOf(c)]

------------------------------------------------------------------------------
(* The two calls.  Both replace config, and then store the address and the *)
(* port of the GLOBAL config in server.                                    *)

Idle == \A c \in Callers : callpc[c] = "idle"

(* The module is resident once module_start has returned, however it ended.*)
Resident == initpc \in {"done", "failed", "skipped"}

Goto(c, where) ==
  /\ callpc' = [callpc EXCEPT ![c] = where]
  /\ UNCHANGED <<call, last>>

Return(c, res) ==
  /\ callpc' = [callpc EXCEPT ![c] = "idle"]
  /\ call' = [call EXCEPT ![c] = "none"]
  /\ last' = res
  /\ UNCHANGED <<arg, reg>>

(* UpdateConfig first copies four bytes and refuses a wrong magic.         *)
NetLoggingMgrUpdateConfig(c, new) ==
  /\ Resident
  /\ callpc[c] = "idle"
  /\ \/ /\ new.magic
        /\ callpc' = [callpc EXCEPT ![c] = "copy"]
        /\ call' = [call EXCEPT ![c] = "update"]
        /\ arg' = [arg EXCEPT ![c] = new]
        /\ UNCHANGED <<reg, last>>
     \/ Return(c, "error")
  /\ UNCHANGED <<startVars, flags, config, server, threadVars>>

CopyConfig(c) ==
  /\ callpc[c] = "copy"
  /\ \/ /\ config' = arg[c]
        /\ Goto(c, "loadaddr")
        /\ UNCHANGED <<arg, reg>>
     \/ /\ Return(c, "error")
        /\ UNCHANGED config
  /\ UNCHANGED <<startVars, flags, server, threadVars>>

(* LoadConfigForKernel reads the file into config before it looks at the   *)
(* magic; a file that is too short replaces a first part of config.        *)
ShortRead(new) ==
  {[config EXCEPT !.magic = new.magic], [new EXCEPT !.port = config.port]}

(* A wrong magic is reported as success.                                   *)
NetLoggingMgrLoadConfigForKernel(c, new) ==
  /\ Resident
  /\ callpc[c] = "idle"
  /\ \/ config' \in {config} \cup ShortRead(new) /\ Return(c, "error")
     \/ config' = new /\ ~new.magic /\ Return(c, "ok")
     \/ /\ config' = new /\ new.magic
        /\ callpc' = [callpc EXCEPT ![c] = "loadaddr"]
        /\ call' = [call EXCEPT ![c] = "load"]
        /\ UNCHANGED <<arg, reg, last>>
  /\ UNCHANGED <<startVars, flags, server, threadVars>>

LoadAddr(c) ==
  /\ callpc[c] = "loadaddr"
  /\ reg' = [reg EXCEPT ![c] = config.IPv4]
  /\ Goto(c, "storeaddr")
  /\ UNCHANGED <<startVars, flags, config, server, arg, threadVars>>

StoreAddr(c) ==
  /\ callpc[c] = "storeaddr"
  /\ server' = [server EXCEPT !.addr = reg[c]]
  /\ Goto(c, "loadport")
  /\ UNCHANGED <<startVars, flags, config, arg, reg, threadVars>>

LoadPort(c) ==
  /\ callpc[c] = "loadport"
  /\ reg' = [reg EXCEPT ![c] = PortOf(config)]
  /\ Goto(c, "storeport")
  /\ UNCHANGED <<startVars, flags, config, server, arg, threadVars>>

(* Faulty: the port of the old configuration stays in force.               *)
StorePortLost(c) ==
  /\ callpc[c] = "storeport"
  /\ Return(c, "ok")
  /\ UNCHANGED <<startVars, flags, config, server, threadVars>>

(* A load that gets this far also records that the file was good.          *)
StorePort(c) ==
  /\ callpc[c] = "storeport"
  /\ server' = [server EXCEPT !.port = reg[c]]
  /\ flags' = IF call[c] = "load" THEN flags \cup {"CONFIG_LOADED"} ELSE flags
  /\ Return(c, "ok")
  /\ UNCHANGED <<startVars, config, threadVars>>

------------------------------------------------------------------------------
(* module_start and NetLoggingMgrInit.  Whatever fails, NLM_BIT_INIT is    *)
(* set, module_start succeeds, and what was set up so far stays.           *)

Fail ==
  /\ initpc' = "failed"
  /\ flags' = flags \cup {"INIT"}

(* Faulty: the handlers are registered before the ring exists.             *)
module_start_early ==
  /\ initpc = "start"
  /\ initpc' \in {"skipped", "load"}
  /\ handlers' = (initpc' = "load")
  /\ UNCHANGED <<ring, hooked, flags, config, server, callVars, threadVars>>

(* The left trigger held down at boot skips everything.                    *)
module_start ==
  /\ initpc = "start"
  /\ initpc' \in {"skipped", "load"}
  /\ UNCHANGED <<ring, hooked, handlers, flags, config, server, callVars, threadVars>>

InitLoadConfig(new) ==
  /\ initpc = "load"
  /\ \/ Fail /\ UNCHANGED <<config, server>>
     \/ Fail /\ config' \in ShortRead(new) /\ UNCHANGED server
     \/ /\ config' = new
        /\ initpc' = "ring"
        /\ server' = IF new.magic THEN ServerOf(new) ELSE server
        /\ flags' = IF new.magic THEN flags \cup {"CONFIG_LOADED"} ELSE flags
  /\ UNCHANGED <<ring, hooked, handlers, callVars, threadVars>>

InitRing ==
  /\ initpc = "ring"
  /\ \/ Fail /\ UNCHANGED ring
     \/ initpc' = "exports" /\ ring' = TRUE /\ UNCHANGED flags
  /\ UNCHANGED <<hooked, handlers, config, server, callVars, threadVars>>

(* Seven kernel functions are looked up, six of them under two NIDs.       *)
InitExports ==
  /\ initpc = "exports"
  /\ \/ Fail
     \/ initpc' = "hook" /\ UNCHANGED flags
  /\ UNCHANGED <<ring, hooked, handlers, config, server, callVars, threadVars>>

(* The QAF hook; its failure is ignored, that of DisableInfoDump is not.   *)
InitHook ==
  /\ initpc = "hook"
  /\ hooked' \in BOOLEAN
  /\ \/ Fail
     \/ initpc' = "handlers" /\ UNCHANGED flags
  /\ UNCHANGED <<ring, handlers, config, server, callVars, threadVars>>

(* The handlers are registered; an Enso user's thread will start late.     *)
InitHandlers ==
  /\ initpc = "handlers"
  /\ handlers' = TRUE
  /\ flags' \in {flags, flags \cup {"DELAY_NET_THREAD"}}
  /\ initpc' = "thread"
  /\ UNCHANGED <<ring, hooked, config, server, callVars, threadVars>>

InitThread ==
  /\ initpc = "thread"
  /\ \/ Fail /\ UNCHANGED thread
     \/ initpc' = "done" /\ flags' = flags \cup {"INIT"} /\ thread' = "idle"
  /\ UNCHANGED <<ring, hooked, handlers, config, server, callVars, conn, pending>>

------------------------------------------------------------------------------
(* The thread and those who print.                                         *)

Callback ==
  /\ handlers
  /\ pending' = TRUE
  /\ UNCHANGED <<startVars, flags, config, server, callVars, thread, conn>>

ThreadMoves(from, to) == thread = from /\ thread' = to

GetFirst ==
  /\ pending
  /\ ThreadMoves("idle", "connect")
  /\ pending' = FALSE
  /\ UNCHANGED <<startVars, flags, config, server, callVars, conn>>

net_connect ==
  /\ ThreadMoves("connect", "send")
  /\ conn' = server
  /\ UNCHANGED <<startVars, flags, config, server, callVars, pending>>

Send ==
  /\ ThreadMoves("send", "more")
  /\ UNCHANGED <<startVars, flags, config, server, callVars, conn, pending>>

SendError ==
  /\ ThreadMoves("send", "connect")
  /\ conn' = NotConnected
  /\ UNCHANGED <<startVars, flags, config, server, callVars, pending>>

GetMore ==
  /\ pending
  /\ ThreadMoves("more", "send")
  /\ pending' = FALSE
  /\ UNCHANGED <<startVars, flags, config, server, callVars, conn>>

(* Faulty: the connection stays open when the log falls silent.            *)
GetTimeoutKeeps ==
  /\ ~pending
  /\ ThreadMoves("more", "idle")
  /\ UNCHANGED <<startVars, flags, config, server, callVars, conn, pending>>

GetTimeout ==
  /\ ~pending
  /\ ThreadMoves("more", "idle")
  /\ conn' = NotConnected
  /\ UNCHANGED <<startVars, flags, config, server, callVars, pending>>

------------------------------------------------------------------------------
Init ==
  /\ initpc = "start"
  /\ ring = FALSE /\ hooked = FALSE /\ handlers = FALSE
  /\ flags = {}
  /\ config = ZeroConfig
  /\ server = NoServer
  /\ call = [c \in Callers |-> "none"]
  /\ callpc = [c \in Callers |-> "idle"]
  /\ arg = [c \in Callers |-> ZeroConfig]
  /\ reg = [c \in Callers |-> 0]
  /\ last = "none"
  /\ thread = "none"
  /\ conn = NotConnected
  /\ pending = FALSE

Start ==
  \/ module_start
  \/ \E new \in ConfigData : InitLoadConfig(new)
  \/ InitRing \/ InitExports \/ InitHook \/ InitHandlers \/ InitThread

CallStep(c) ==
  \/ CopyConfig(c)
  \/ LoadAddr(c) \/ StoreAddr(c)
  \/ LoadPort(c) \/ StorePort(c)

Call(c) ==
  \E new \in ConfigData :
    \/ NetLoggingMgrUpdateConfig(c, new)
    \/ NetLoggingMgrLoadConfigForKernel(c, new)

net_thread == GetFirst \/ net_connect \/ Send \/ SendError \/ GetMore \/ GetTimeout

Next ==
  \/ Start
  \/ \E c \in Callers : Call(c) \/ CallStep(c)
  \/ Callback
  \/ net_thread

Spec == Init /\ [][Next]_vars

(* The kernel runs the thread and the callers.                             *)
Fairness ==
  /\ WF_vars(net_thread)
  /\ \A c \in Callers : WF_vars(CallStep(c))

FairSpec == Spec /\ Fairness

(* The log falls silent some day.                                          *)
Quiet == <>[][~Callback]_vars

------------------------------------------------------------------------------
(* Properties.                                                             *)

(* Every variable has its type.                                            *)
TypeOK ==
  /\ initpc \in {"start", "skipped", "load", "ring", "exports", "hook",
                 "handlers", "thread", "done", "failed"}
  /\ ring \in BOOLEAN /\ hooked \in BOOLEAN /\ handlers \in BOOLEAN
  /\ flags \subseteq {"INIT", "DELAY_NET_THREAD", "CONFIG_LOADED"}
  /\ config \in [magic : BOOLEAN, IPv4 : IPv4s \cup {0}, port : Ports \cup {0}]
  /\ server.port \in Ports \cup {0, DEFAULT_PORT}
  /\ server.addr \in IPv4s \cup {0}
  /\ call \in [Callers -> {"none", "update", "load"}]
  /\ callpc \in [Callers -> {"idle", "copy", "loadaddr", "storeaddr", "loadport", "storeport"}]
  /\ last \in {"none", "ok", "error"}
  /\ thread \in {"none", "idle", "connect", "send", "more"}
  /\ pending \in BOOLEAN

(* A printf callback, and net_thread, only ever run on an initialised ring *)
(* buffer, whichever step of NetLoggingMgrInit fails; and the thread never *)
(* runs without the callbacks that feed it.                                *)
CallbacksNeedRing ==
  /\ handlers => ring
  /\ thread # "none" => handlers

(* Once a call that replaced the configuration has returned success with a *)
(* valid magic, the address used for connecting is the one it says, the    *)
(* default port standing for port 0.                                       *)
ServerFollowsConfig ==
  Idle /\ last = "ok" /\ config.magic => server = ServerOf(config)

(* An open connection to another server than the configured one does not   *)
(* stay open for ever while the configuration stays as it is.              *)
UpdateTakesEffect ==
  \A s \in {ServerOf(c) : c \in ConfigData} :
    (server = s /\ conn \notin {s, NotConnected})
      ~> (server # s \/ conn \in {s, NotConnected})

(* That much is true of a log that falls silent: net_thread then closes    *)
(* the connection after its second of waiting and reads the new address.   *)
UpdateTakesEffectWhenQuiet == Quiet => UpdateTakesEffect
==============================================================================
