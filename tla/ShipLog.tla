------------------------------- MODULE ShipLog -------------------------------
(***************************************************************************)
(* ShipLog 2.0's kernel plugin: every thread that prints appends to one    *)
(* buffer (debugHandler, putchar_handler), main_netdbg empties it into a   *)
(* socket or into a file, and two system calls clear it.  Nothing is       *)
(* locked: the event flag SEND_OUT only keeps main_netdbg from starting    *)
(* while a thread is inside a handler, it does not wait for a transfer     *)
(* that has begun, nor does it keep two handlers apart.                    *)
(*                                                                         *)
(* The buffer is the number of bytes in it; the properties do not tell its *)
(* characters apart.  The net thread prints "Connected!" itself, so it is  *)
(* a writer too.                                                           *)
(***************************************************************************)
EXTENDS Integers

CONSTANTS Printers,   \* the threads that print
          NetThd,     \* vitanetdbg_thd
          BUF_SIZE,
          PrintLen,   \* the lengths of the texts that are printed
          MaxPrints   \* bound: how many texts are printed

Handlers == Printers \cup {NetThd}

ASSUME ShipLogAssumption ==
  /\ NetThd \notin Printers
  /\ BUF_SIZE \in Nat
  /\ PrintLen \subseteq 0 .. BUF_SIZE
  /\ 1 \in PrintLen
  /\ MaxPrints \in Nat

VARIABLES
  config,        \* the configuration read at boot: netEnable and fileLog
  buf_pos,
  SEND_OUT,
  is_connected,
  netpc,         \* where main_netdbg is
  sent,
  hpc,           \* where each thread is in a handler
  len,           \* the length it appends
  loaded,        \* the buf_pos it has loaded to add its length to
  prints,        \* the texts printed so far
  overlapped     \* two threads have been inside a handler at the same time

shipVars == <<config, buf_pos, SEND_OUT, is_connected, netpc, sent, hpc, len,
              loaded, prints, overlapped>>
netVars == <<is_connected, netpc, sent>>
handlerVars == <<hpc, len, loaded, prints, overlapped>>

------------------------------------------------------------------------------
(* The handlers, one step per access to what the threads share.            *)

bufClear == buf_pos' = 0

HGoto(h, from, to) == hpc[h] = from /\ hpc' = [hpc EXCEPT ![h] = to]

(* Entering a handler: the text is formatted into a local buffer and       *)
(* stopSend clears the flag.                                               *)
Enter(h, l) ==
  /\ HGoto(h, "out", "test")
  /\ len' = [len EXCEPT ![h] = l]
  /\ SEND_OUT' = FALSE
  /\ overlapped' = (overlapped \/ \E g \in Handlers \ {h} : hpc[g] # "out")
  /\ UNCHANGED <<config, buf_pos, loaded>>

Count ==
  /\ prints < MaxPrints
  /\ prints' = prints + 1
  /\ UNCHANGED netVars

debugHandler(h) == Count /\ \E l \in PrintLen : Enter(h, l)

putchar_handler(h) == Count /\ Enter(h, 1)

HandlerOnly == UNCHANGED <<config, netVars, len, prints, overlapped>>

(* Faulty: the length of the new text is forgotten.                        *)
MakeRoomLate(h) ==
  /\ HGoto(h, "test", "copy")
  /\ IF buf_pos > BUF_SIZE THEN bufClear ELSE UNCHANGED buf_pos
  /\ UNCHANGED <<SEND_OUT, loaded>>
  /\ HandlerOnly

(* A text that does not fit: the whole buffer goes to the file first.      *)
MakeRoom(h) ==
  /\ HGoto(h, "test", "copy")
  /\ IF buf_pos + len[h] > BUF_SIZE THEN bufClear ELSE UNCHANGED buf_pos
  /\ UNCHANGED <<SEND_OUT, loaded>>
  /\ HandlerOnly

(* memcpy to buffer + buf_pos, and the load of `buf_pos += length'.        *)
Copy(h) ==
  /\ HGoto(h, "copy", "store")
  /\ loaded' = [loaded EXCEPT ![h] = buf_pos]
  /\ UNCHANGED <<buf_pos, SEND_OUT>>
  /\ HandlerOnly

Store(h) ==
  /\ HGoto(h, "store", "start")
  /\ buf_pos' = loaded[h] + len[h]
  /\ loaded' = [loaded EXCEPT ![h] = 0]
  /\ len' = [len EXCEPT ![h] = 0]
  /\ UNCHANGED <<config, SEND_OUT, netVars, prints, overlapped>>

startSend(h) ==
  /\ HGoto(h, "start", "out")
  /\ SEND_OUT' = TRUE
  /\ UNCHANGED <<buf_pos, loaded>>
  /\ HandlerOnly

Handle(h) == MakeRoom(h) \/ Copy(h) \/ Store(h) \/ startSend(h)

(* shipLogBufClear, and shipLogDumpToDisk which saves the buffer first.    *)
shipLogBufClear ==
  /\ bufClear
  /\ UNCHANGED <<config, SEND_OUT, netVars, handlerVars>>

------------------------------------------------------------------------------
(* main_netdbg.                                                            *)

NGoto(from, to) == netpc = from /\ netpc' = to
NetOnly == UNCHANGED <<config, handlerVars>>

(* Faulty: nothing is printed about the connection.                        *)
ConnectSilently ==
  /\ config.netEnable /\ ~is_connected
  /\ NGoto("top", "check")
  /\ is_connected' = TRUE
  /\ UNCHANGED <<buf_pos, SEND_OUT, sent>>
  /\ NetOnly

Connect ==
  /\ config.netEnable /\ ~is_connected
  /\ NGoto("top", "printed")
  /\ is_connected' = TRUE
  /\ Enter(NetThd, 1)
  /\ UNCHANGED <<sent, prints>>

ConnectFails ==
  /\ config.netEnable /\ ~is_connected
  /\ NGoto("top", "check")
  /\ UNCHANGED <<buf_pos, SEND_OUT, is_connected, sent>>
  /\ NetOnly

NoConnect ==
  /\ config.netEnable => is_connected
  /\ NGoto("top", "check")
  /\ UNCHANGED <<buf_pos, SEND_OUT, is_connected, sent>>
  /\ NetOnly

Printed ==
  /\ hpc[NetThd] = "out"
  /\ NGoto("printed", "check")
  /\ UNCHANGED <<buf_pos, SEND_OUT, is_connected, sent>>
  /\ NetOnly

(* What there is to do with the buffer.                                    *)
CheckBuffer ==
  /\ netpc = "check"
  /\ netpc' = CASE buf_pos = 0                        -> "top"
                [] buf_pos # 0 /\ is_connected        -> "wait"
                [] buf_pos # 0 /\ ~is_connected
                               /\ config.fileLog      -> "fwait"
                [] OTHER                              -> "top"
  /\ UNCHANGED <<buf_pos, SEND_OUT, is_connected, sent>>
  /\ NetOnly

(* The wait for SEND_OUT has no timeout and clears the flag.               *)
WaitSendOut ==
  /\ SEND_OUT
  /\ \/ NGoto("wait", "send")
     \/ NGoto("fwait", "fwrite")
  /\ SEND_OUT' = FALSE
  /\ sent' = 0
  /\ UNCHANGED <<buf_pos, is_connected>>
  /\ NetOnly

(* One round of the loop: bufLength() bytes from bufGet() + sent are given *)
(* to ksceNetSend, which takes some of them.                               *)
Send ==
  /\ netpc = "send" /\ sent < buf_pos
  /\ sent' \in (sent + 1) .. (sent + buf_pos)
  /\ UNCHANGED <<buf_pos, SEND_OUT, is_connected, netpc>>
  /\ NetOnly

SendFails ==
  /\ sent < buf_pos
  /\ NGoto("send", "top")
  /\ is_connected' = FALSE
  /\ sent' = 0
  /\ UNCHANGED <<buf_pos, SEND_OUT>>
  /\ NetOnly

AllSent ==
  /\ sent >= buf_pos
  /\ NGoto("send", "clear")
  /\ sent' = 0
  /\ UNCHANGED <<buf_pos, SEND_OUT, is_connected>>
  /\ NetOnly

WriteFile ==
  /\ NGoto("fwrite", "clear")
  /\ UNCHANGED <<buf_pos, SEND_OUT, is_connected, sent>>
  /\ NetOnly

Clear ==
  /\ NGoto("clear", "top")
  /\ bufClear
  /\ UNCHANGED <<SEND_OUT, is_connected, sent>>
  /\ NetOnly

main_netdbg ==
  \/ Connect \/ ConnectFails \/ NoConnect \/ Printed \/ CheckBuffer
  \/ WaitSendOut \/ Send \/ SendFails \/ AllSent \/ WriteFile \/ Clear

------------------------------------------------------------------------------
(* module_start reads the configuration and starts the net thread.         *)
ShipInit ==
  /\ config \in [netEnable : BOOLEAN, fileLog : BOOLEAN]
  /\ buf_pos = 0 /\ SEND_OUT = FALSE
  /\ is_connected = FALSE /\ netpc = "top" /\ sent = 0
  /\ hpc = [h \in Handlers |-> "out"]
  /\ len = [h \in Handlers |-> 0]
  /\ loaded = [h \in Handlers |-> 0]
  /\ prints = 0 /\ overlapped = FALSE

ShipNext ==
  \/ main_netdbg
  \/ shipLogBufClear
  \/ \E h \in Handlers : Handle(h)
  \/ \E h \in Printers : debugHandler(h) \/ putchar_handler(h)

ShipSpec == ShipInit /\ [][ShipNext]_shipVars

(* Threads that are inside a handler leave it, the net thread runs, and    *)
(* the network does not refuse every connection and every transfer.        *)
ShipFairness ==
  /\ \A h \in Handlers : WF_shipVars(Handle(h))
  /\ WF_shipVars(main_netdbg)
  /\ SF_shipVars(Connect) /\ SF_shipVars(AllSent) /\ SF_shipVars(Send)

------------------------------------------------------------------------------
(* The buffer overflows only when two threads are in the handlers at the   *)
(* same time: the test of debugHandler is enough against main_netdbg and   *)
(* against the system calls, which take bytes away between any two of its  *)
(* accesses.                                                               *)
OverflowNeedsTwoPrinters == buf_pos > BUF_SIZE => overlapped

(* What has been printed leaves the buffer again when the plugin logs to   *)
(* the net alone or to the file alone.  After a failed transfer the bytes  *)
(* are kept and SEND_OUT is already consumed; it is main_netdbg's own      *)
(* "Connected!" that sets it again.  With both enabled main_netdbg waits   *)
(* for SEND_OUT before it would reconnect, until somebody prints.          *)
PrintedLeaves ==
  config.netEnable # config.fileLog => (buf_pos > 0 ~> buf_pos = 0)
=============================================================================
