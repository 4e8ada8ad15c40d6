------------------------- MODULE NetLoggingMgrProofs -------------------------
(***************************************************************************)
(* Proofs about NetLoggingMgr for any addresses, any ports, any outcome of *)
(* every step of NetLoggingMgrInit and any interleaving with net_thread.   *)
(*                                                                         *)
(* CallbacksNeedRing holds for any number of callers.  ServerFollowsConfig *)
(* needs calls that do not overlap: the code stores the two words of       *)
(* `server' without a lock, and two callers leave the address of one and   *)
(* the port of the other.  That is the assumption OneCaller.               *)
(***************************************************************************)
EXTENDS NetLoggingMgr, TLAPS

(* What NetLoggingMgrInit has done when it is about to take a step.        *)
StartInv ==
  /\ initpc \in {"exports", "hook", "handlers", "thread"} => ring
  /\ initpc = "thread" => handlers
  /\ CallbacksNeedRing

(* The calls leave alone what module_start has set up.                     *)
LEMMA CallsKeepStart ==
  ASSUME NEW c \in Callers, Call(c) \/ CallStep(c)
  PROVE  UNCHANGED <<startVars, threadVars>>
BY DEF Call, NetLoggingMgrUpdateConfig, NetLoggingMgrLoadConfigForKernel, CallStep,
       CopyConfig, LoadAddr, StoreAddr, LoadPort, StorePort, startVars, threadVars

(* Whichever step of NetLoggingMgrInit fails, and however the thread and   *)
(* the callers interleave with it, a printf callback only ever runs on a   *)
(* ring that was initialised, and net_thread only with its callbacks.      *)
THEOREM StartCorrect == Spec => []CallbacksNeedRing
<1>1. Init => StartInv
  BY DEF Init, StartInv, CallbacksNeedRing
<1>2. StartInv /\ [Next]_vars => StartInv'
  <2>. SUFFICES ASSUME StartInv, [Next]_vars PROVE StartInv'
    OBVIOUS
  <2>. USE DEF StartInv, CallbacksNeedRing
  <2>1. CASE module_start
    BY <2>1 DEF module_start, threadVars
  <2>2. ASSUME NEW new \in ConfigData, InitLoadConfig(new) PROVE StartInv'
    BY <2>2 DEF InitLoadConfig, Fail, threadVars
  <2>3. CASE InitRing
    BY <2>3 DEF InitRing, Fail, threadVars
  <2>4. CASE InitExports
    BY <2>4 DEF InitExports, Fail, threadVars
  <2>5. CASE InitHook
    BY <2>5 DEF InitHook, Fail, threadVars
  <2>6. CASE InitHandlers
    BY <2>6 DEF InitHandlers, threadVars
  <2>7. CASE InitThread
    BY <2>7 DEF InitThread, Fail
  <2>8. ASSUME NEW c \in Callers, Call(c) \/ CallStep(c) PROVE StartInv'
    BY <2>8, CallsKeepStart DEF startVars, threadVars
  <2>9. CASE Callback
    BY <2>9 DEF Callback, startVars
  <2>10. CASE net_thread
    BY <2>10 DEF net_thread, GetFirst, net_connect, Send, SendError, GetMore,
                 GetTimeout, ThreadMoves, startVars
  <2>11. CASE UNCHANGED vars
    BY <2>11 DEF vars
  <2>. QED
    BY <2>1, <2>2, <2>3, <2>4, <2>5, <2>6, <2>7, <2>8, <2>9, <2>10, <2>11
    DEF Next, Start
<1>3. StartInv => CallbacksNeedRing
  BY DEF StartInv
<1>. QED
  BY <1>1, <1>2, <1>3, PTL DEF Spec

------------------------------------------------------------------------------
(* Two calls never overlap.                                                *)
OneCaller == \A c, d \in Callers : c = d

ServerTypes ==
  /\ config \in [magic : BOOLEAN, IPv4 : Nat, port : Nat]
  /\ server \in [addr : Nat, port : Nat]
  /\ arg \in [Callers -> [magic : BOOLEAN, IPv4 : Nat, port : Nat]]
  /\ reg \in [Callers -> Nat]
  /\ callpc \in [Callers -> {"idle", "copy", "loadaddr", "storeaddr", "loadport", "storeport"}]

(* Where a call is, and how much of `server' is already the new one.       *)
WordsInv ==
  \A c \in Callers :
    /\ callpc[c] = "storeaddr" => reg[c] = config.IPv4
    /\ callpc[c] \in {"loadport", "storeport"} => server.addr = config.IPv4
    /\ callpc[c] = "storeport" => reg[c] = PortOf(config)

(* Nobody calls before module_start has returned.                          *)
ResidentInv == ~Resident => Idle /\ last = "none"

ServerInv == ServerTypes /\ WordsInv /\ ResidentInv /\ ServerFollowsConfig

(* A configuration of the file is a configuration.                         *)
LEMMA ConfigTypes ==
  ASSUME NEW new \in ConfigData
  PROVE  /\ new \in [magic : BOOLEAN, IPv4 : Nat, port : Nat]
         /\ ServerOf(new) \in [addr : Nat, port : Nat]
<1>1. /\ new = [magic |-> new.magic, IPv4 |-> new.IPv4, port |-> new.port]
      /\ new.magic \in BOOLEAN /\ new.IPv4 \in IPv4s /\ new.port \in Ports
  BY DEF ConfigData
<1>2. new.IPv4 \in Nat /\ new.port \in Nat
  BY <1>1, NetLoggingMgrAssumption
<1>3. PortOf(new) \in Nat
  BY <1>2 DEF PortOf, DEFAULT_PORT
<1>. QED
  BY <1>1, <1>2, <1>3 DEF ServerOf

(* Nothing has been configured.                                            *)
LEMMA ServerInit == Init => ServerInv
<1>. SUFFICES ASSUME Init PROVE ServerInv
  OBVIOUS
<1>1. ServerTypes
  BY DEF Init, ServerTypes, ZeroConfig, NoServer
<1>2. Idle /\ last = "none"
  BY DEF Init, Idle
<1>. QED
  BY <1>1, <1>2 DEF ServerInv, WordsInv, ResidentInv, ServerFollowsConfig, Idle

(* Steps of NetLoggingMgrInit: nobody has called yet.                      *)
LEMMA ServerStart ==
  ASSUME ServerInv, Start
  PROVE  ServerInv'
<1>1. UNCHANGED callVars /\ ~Resident
  BY DEF Start, module_start, InitLoadConfig, InitRing, InitExports, InitHook,
         InitHandlers, InitThread, Resident
<1>2. Idle /\ last = "none"
  BY <1>1 DEF ServerInv, ResidentInv
<1>3. /\ config' \in [magic : BOOLEAN, IPv4 : Nat, port : Nat]
      /\ server' \in [addr : Nat, port : Nat]
  <2>1. ASSUME NEW new \in ConfigData, InitLoadConfig(new)
        PROVE  /\ config' \in [magic : BOOLEAN, IPv4 : Nat, port : Nat]
               /\ server' \in [addr : Nat, port : Nat]
    BY <2>1, ConfigTypes DEF InitLoadConfig, ShortRead, ServerInv, ServerTypes
  <2>2. CASE UNCHANGED <<config, server>>
    BY <2>2 DEF ServerInv, ServerTypes
  <2>. QED
    BY <2>1, <2>2 DEF Start, module_start, InitRing, InitExports, InitHook,
                      InitHandlers, InitThread
<1>. QED
  BY <1>1, <1>2, <1>3 DEF ServerInv, ServerTypes, WordsInv, ResidentInv,
                          ServerFollowsConfig, Idle, callVars

(* The steps of the only caller.                                           *)
LEMMA ServerCall ==
  ASSUME OneCaller, ServerInv, NEW c \in Callers, Call(c) \/ CallStep(c)
  PROVE  ServerInv'
<1>1. ServerTypes /\ WordsInv /\ ResidentInv /\ ServerFollowsConfig
  BY DEF ServerInv
<1>2. Resident
  BY <1>1 DEF Call, NetLoggingMgrUpdateConfig, NetLoggingMgrLoadConfigForKernel, CallStep,
              CopyConfig, LoadAddr, StoreAddr, LoadPort, StorePort, ResidentInv, Idle
<1>3. ResidentInv'
  BY <1>2, CallsKeepStart DEF ResidentInv, Resident, startVars
<1>4. \A d \in Callers : d = c
  BY DEF OneCaller
<1>5. ASSUME NEW w, callpc' = [callpc EXCEPT ![c] = w]
      PROVE  callpc'[c] = w /\ (Idle' <=> w = "idle")
  BY <1>1, <1>4, <1>5 DEF ServerTypes, Idle
<1>6. ASSUME NEW new \in ConfigData, NetLoggingMgrUpdateConfig(c, new)
      PROVE  ServerTypes' /\ WordsInv' /\ ServerFollowsConfig'
  <2>1. ServerTypes'
    BY <1>1, <1>6, ConfigTypes DEF NetLoggingMgrUpdateConfig, Return, ServerTypes
  <2>2. \/ callpc'[c] = "copy" /\ ~Idle'
        \/ callpc'[c] = "idle" /\ last' = "error"
    BY <1>5, <1>6 DEF NetLoggingMgrUpdateConfig, Return
  <2>. QED
    BY <1>4, <2>1, <2>2 DEF WordsInv, ServerFollowsConfig
<1>7. ASSUME NEW new \in ConfigData, NetLoggingMgrLoadConfigForKernel(c, new)
      PROVE  ServerTypes' /\ WordsInv' /\ ServerFollowsConfig'
  <2>1. config' \in [magic : BOOLEAN, IPv4 : Nat, port : Nat]
    BY <1>1, <1>7, ConfigTypes
    DEF NetLoggingMgrLoadConfigForKernel, ShortRead, ServerTypes
  <2>2. ServerTypes'
    BY <1>1, <1>7, <2>1 DEF NetLoggingMgrLoadConfigForKernel, Return, ServerTypes
  <2>3. \/ callpc'[c] = "loadaddr" /\ ~Idle'
        \/ callpc'[c] = "idle" /\ (last' = "error" \/ ~config'.magic)
    BY <1>5, <1>7 DEF NetLoggingMgrLoadConfigForKernel, Return
  <2>. QED
    BY <1>4, <2>2, <2>3 DEF WordsInv, ServerFollowsConfig
<1>8. CASE CopyConfig(c)
  <2>1. ServerTypes'
    BY <1>1, <1>8 DEF CopyConfig, Goto, Return, ServerTypes
  <2>2. \/ callpc'[c] = "loadaddr" /\ ~Idle'
        \/ callpc'[c] = "idle" /\ last' = "error"
    BY <1>5, <1>8 DEF CopyConfig, Goto, Return
  <2>. QED
    BY <1>3, <1>4, <2>1, <2>2 DEF ServerInv, WordsInv, ServerFollowsConfig
<1>9. CASE LoadAddr(c)
  <2>1. ServerTypes'
    BY <1>1, <1>9 DEF LoadAddr, Goto, ServerTypes
  <2>2. callpc'[c] = "storeaddr" /\ ~Idle'
    BY <1>5, <1>9 DEF LoadAddr, Goto
  <2>3. reg'[c] = config'.IPv4
    BY <1>1, <1>9 DEF LoadAddr, ServerTypes
  <2>. QED
    BY <1>3, <1>4, <2>1, <2>2, <2>3 DEF ServerInv, WordsInv, ServerFollowsConfig
<1>10. CASE StoreAddr(c)
  <2>1. reg[c] = config.IPv4 /\ reg[c] \in Nat
    BY <1>1, <1>10 DEF StoreAddr, WordsInv, ServerTypes
  <2>2. ServerTypes'
    BY <1>1, <1>10, <2>1 DEF StoreAddr, Goto, ServerTypes
  <2>3. callpc'[c] = "loadport" /\ ~Idle'
    BY <1>5, <1>10 DEF StoreAddr, Goto
  <2>4. server'.addr = config'.IPv4
    BY <1>1, <1>10, <2>1 DEF StoreAddr, ServerTypes
  <2>. QED
    BY <1>3, <1>4, <2>2, <2>3, <2>4 DEF ServerInv, WordsInv, ServerFollowsConfig
<1>11. CASE LoadPort(c)
  <2>1. PortOf(config) \in Nat
    BY <1>1 DEF ServerTypes, PortOf, DEFAULT_PORT
  <2>2. ServerTypes'
    BY <1>1, <1>11, <2>1 DEF LoadPort, Goto, ServerTypes
  <2>3. callpc'[c] = "storeport" /\ ~Idle'
    BY <1>5, <1>11 DEF LoadPort, Goto
  <2>4. config' = config /\ server' = server /\ server.addr = config.IPv4
    BY <1>1, <1>11 DEF LoadPort, WordsInv
  <2>5. reg'[c] = PortOf(config')
    BY <1>1, <1>11, <2>4 DEF LoadPort, ServerTypes
  <2>. QED
    BY <1>3, <1>4, <2>2, <2>3, <2>4, <2>5 DEF ServerInv, WordsInv, ServerFollowsConfig
<1>12. CASE StorePort(c)
  <2>1. server.addr = config.IPv4 /\ reg[c] = PortOf(config) /\ reg[c] \in Nat
    BY <1>1, <1>12 DEF StorePort, WordsInv, ServerTypes
  <2>2. ServerTypes'
    BY <1>1, <1>12, <2>1 DEF StorePort, Return, ServerTypes
  <2>3. callpc'[c] = "idle"
    BY <1>5, <1>12 DEF StorePort, Return
  <2>4. server' = ServerOf(config) /\ config' = config
    BY <1>1, <1>12, <2>1 DEF StorePort, ServerTypes, ServerOf
  <2>. QED
    BY <1>3, <1>4, <2>2, <2>3, <2>4 DEF ServerInv, WordsInv, ServerFollowsConfig
<1>. QED
  BY <1>3, <1>6, <1>7, <1>8, <1>9, <1>10, <1>11, <1>12 DEF Call, CallStep, ServerInv

(* Whoever prints, and net_thread, only read the address.                  *)
LEMMA ServerOthers ==
  ASSUME ServerInv, UNCHANGED <<config, server, callVars, initpc>>
  PROVE  ServerInv'
BY DEF ServerInv, ServerTypes, WordsInv, ResidentInv, ServerFollowsConfig, Idle,
       Resident, callVars

(* When calls do not overlap, a call that replaced the configuration and   *)
(* returned success leaves the configured server in use, word by word and  *)
(* with the default port for 0, after any sequence of earlier calls that   *)
(* failed half way, for any addresses and ports.                           *)
THEOREM ServerCorrect ==
  ASSUME OneCaller
  PROVE  Spec => []ServerFollowsConfig
<1>1. ServerInv /\ [Next]_vars => ServerInv'
  <2>. SUFFICES ASSUME ServerInv, [Next]_vars PROVE ServerInv'
    OBVIOUS
  <2>1. CASE Callback
    BY <2>1, ServerOthers DEF Callback, startVars
  <2>2. CASE net_thread
    BY <2>2, ServerOthers DEF net_thread, GetFirst, net_connect, Send, SendError,
                              GetMore, GetTimeout, startVars
  <2>3. CASE UNCHANGED vars
    BY <2>3, ServerOthers DEF vars, callVars
  <2>. QED
    BY <2>1, <2>2, <2>3, ServerStart, ServerCall DEF Next
<1>2. ServerInv => ServerFollowsConfig
  BY DEF ServerInv
<1>. QED
  BY <1>1, <1>2, ServerInit, PTL DEF Spec
==============================================================================
