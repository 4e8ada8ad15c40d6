------------------------------ MODULE NetThread ------------------------------
(***************************************************************************)
(* PrincessLog's sending side: the printf callbacks that any thread runs,  *)
(* and net_thread, which drains the ring buffer to a TCP server, opens a   *)
(* connection when there is something to send, sends a chunk again on a    *)
(* new connection when sending it failed, and closes the connection after  *)
(* a second of silence.                                                    *)
(*                                                                         *)
(* The ring buffer is used through its promise (LogFifo, which RingBuf is  *)
(* shown to implement): bytes are numbered 1, 2, ... in the order in which *)
(* they were logged, and the ring holds the bytes get + 1 .. put.          *)
(*                                                                         *)
(* The network is external: ksceNetSocket and ksceNetConnect may fail at   *)
(* any time; ksceNetSend may accept all of a chunk, accept a first part of *)
(* it and return that count when SO_SNDTIMEO expires, or fail after it has *)
(* accepted a part.                                                        *)
(***************************************************************************)
EXTENDS Integers, FiniteSetsExt

CONSTANTS RingCap,    \* the bytes the ring holds
          BufLen,     \* sizeof(buf), in net_thread and in the callbacks
          Banner,     \* the bytes net_thread prints when it starts
          MaxLog      \* bound: the callbacks stop at so many logged bytes

ASSUME NetThreadAssumption ==
  /\ RingCap \in Nat \ {0}
  /\ BufLen \in Nat \ {0}
  /\ Banner \in Nat
  /\ MaxLog \in Nat

VARIABLES
  put,        \* the number of bytes logged
  get,        \* the number of bytes that have left the ring, at either end
  pc,         \* where net_thread is
  buf,        \* the bytes in net_thread's buf that are still to be sent
  sockets,    \* the number of sockets it has open
  wire,       \* history: the bytes accepted on the open connection
  handed,     \* history: the bytes accepted on any connection
  twice,      \* history: the bytes accepted more than once
  failed,     \* history: the bytes of chunks that were sent with an error
  cut,        \* history: the rest of chunks that were accepted in part
  clobbered   \* history: the bytes overwritten in the full ring

ringVars == <<put, get, clobbered>>
wireVars == <<wire, handed, twice, failed, cut>>
vars == <<put, get, pc, buf, sockets, wire, handed, twice, failed, cut, clobbered>>

Ring == (get + 1) .. put

------------------------------------------------------------------------------
(* The ring buffer, one call at a time.                                    *)

ringbuf_put_clobber(size) ==
  LET first == Max({get, put + size - RingCap})
  IN  /\ put' = put + size
      /\ get' = first
      /\ clobbered' = clobbered \cup ((get + 1) .. first)

(* Faulty: the last byte taken is left in the ring as well.                *)
ringbuf_get_again ==
  LET n == Min({BufLen, put - get})
  IN  /\ Ring # {}
      /\ buf' = (get + 1) .. (get + n)
      /\ get' = get + n - 1
      /\ UNCHANGED <<put, clobbered>>

(* ringbuf_get_wait returns at most BufLen bytes, oldest first.            *)
ringbuf_get_wait ==
  LET n == Min({BufLen, put - get})
  IN  /\ Ring # {}
      /\ buf' = (get + 1) .. (get + n)
      /\ get' = get + n
      /\ UNCHANGED <<put, clobbered>>

------------------------------------------------------------------------------
(* The callbacks, run by whichever thread prints.                          *)

UserDebugPrintfCallback ==
  /\ put < MaxLog
  /\ ringbuf_put_clobber(1)
  /\ UNCHANGED <<pc, buf, sockets, wireVars>>

(* vsnprintf returns the length the text would have, or a negative number. *)
KernelDebugPrintfCallback(ret) ==
  LET len == Min({Max({ret, 0}), BufLen - 1})
  IN  /\ put + len <= MaxLog
      /\ ringbuf_put_clobber(len)
      /\ UNCHANGED <<pc, buf, sockets, wireVars>>

------------------------------------------------------------------------------
(* net_thread.                                                             *)

(* The optional delay, then the banner, which goes through the callback.   *)
StartThread ==
  /\ pc = "start"
  /\ pc' = "idle"
  /\ ringbuf_put_clobber(Banner)
  /\ UNCHANGED <<buf, sockets, wireVars>>

(* The wait without a timeout.                                             *)
GetFirst ==
  /\ pc = "idle"
  /\ ringbuf_get_wait
  /\ pc' = "socket"
  /\ UNCHANGED <<sockets, wireVars>>

(* net_connect: a socket, a connection, and again from the start after a   *)
(* second if either fails.                                                 *)
Socket ==
  /\ pc = "socket"
  /\ pc' = "connect"
  /\ sockets' = sockets + 1
  /\ UNCHANGED <<ringVars, buf, wireVars>>

SocketError ==
  /\ pc = "socket"
  /\ UNCHANGED vars

Connect ==
  /\ pc = "connect"
  /\ pc' = "send"
  /\ wire' = {}
  /\ UNCHANGED <<ringVars, buf, sockets, handed, twice, failed, cut>>

(* Faulty: the socket of a refused connection is not closed.               *)
ConnectErrorLeaks ==
  /\ pc = "connect"
  /\ pc' = "socket"
  /\ UNCHANGED <<ringVars, buf, sockets, wireVars>>

ConnectError ==
  /\ pc = "connect"
  /\ pc' = "socket"
  /\ sockets' = sockets - 1
  /\ UNCHANGED <<ringVars, buf, wireVars>>

(* The network accepts the bytes of buf up to number k.                    *)
Accept(k) ==
  LET part == {i \in buf : i <= k}
  IN  /\ wire' = wire \cup part
      /\ handed' = handed \cup part
      /\ twice' = twice \cup (part \cap handed)

(* Any result that is not negative counts as sent, a short one too.        *)
Send(k) ==
  /\ pc = "send"
  /\ k \in buf
  /\ Accept(k)
  /\ cut' = cut \cup {i \in buf : i > k}
  /\ buf' = {}
  /\ pc' = "more"
  /\ UNCHANGED <<ringVars, sockets, failed>>

(* Faulty: a chunk whose sending failed is forgotten.                      *)
SendErrorForgets(k) ==
  /\ pc = "send"
  /\ k \in buf \cup {0}
  /\ Accept(k)
  /\ failed' = failed \cup buf
  /\ sockets' = sockets - 1
  /\ buf' = {}
  /\ pc' = "idle"
  /\ UNCHANGED <<ringVars, cut>>

(* Faulty: the chunk is sent again on the connection that failed.          *)
SendErrorRetries(k) ==
  /\ pc = "send"
  /\ k \in buf \cup {0}
  /\ Accept(k)
  /\ failed' = failed \cup buf
  /\ UNCHANGED <<pc, ringVars, buf, sockets, cut>>

(* The connection is closed, and the same chunk sent on a new one.         *)
SendError(k) ==
  /\ pc = "send"
  /\ k \in buf \cup {0}
  /\ Accept(k)
  /\ failed' = failed \cup buf
  /\ sockets' = sockets - 1
  /\ pc' = "socket"
  /\ UNCHANGED <<ringVars, buf, cut>>

(* The wait of a second, with the connection open.                         *)
GetMore ==
  /\ pc = "more"
  /\ ringbuf_get_wait
  /\ pc' = "send"
  /\ UNCHANGED <<sockets, wireVars>>

GetTimeout ==
  /\ pc = "more"
  /\ Ring = {}
  /\ sockets' = sockets - 1
  /\ pc' = "idle"
  /\ UNCHANGED <<ringVars, buf, wireVars>>

------------------------------------------------------------------------------
Init ==
  /\ put = 0
  /\ get = 0
  /\ pc = "start"
  /\ buf = {}
  /\ sockets = 0
  /\ wire = {}
  /\ handed = {}
  /\ twice = {}
  /\ failed = {}
  /\ cut = {}
  /\ clobbered = {}

Callback ==
  \/ UserDebugPrintfCallback
  \/ \E ret \in -1 .. (BufLen + 1) : KernelDebugPrintfCallback(ret)

SendSome == \E k \in buf : Send(k)
SendFails == \E k \in buf \cup {0} : SendError(k)

NetThread ==
  \/ StartThread
  \/ GetFirst
  \/ Socket \/ SocketError
  \/ Connect \/ ConnectError
  \/ SendSome \/ SendFails
  \/ GetMore
  \/ GetTimeout

Next == Callback \/ NetThread

Spec == Init /\ [][Next]_vars

(* The kernel runs the thread, and the network is not down for ever: a     *)
(* socket, a connection and a send that are tried again and again are some *)
(* day successful.                                                         *)
Fairness ==
  /\ WF_vars(StartThread \/ GetFirst \/ GetMore \/ GetTimeout)
  /\ SF_vars(Socket)
  /\ SF_vars(Connect)
  /\ SF_vars(SendSome)

FairSpec == Spec /\ Fairness

------------------------------------------------------------------------------
(* Properties.                                                             *)

(* Every variable has its type, the ring never holds more than RingCap     *)
(* bytes, and only bytes that have left the ring are anywhere else.        *)
TypeOK ==
  /\ put \in Nat /\ get \in Nat /\ get <= put /\ put - get <= RingCap
  /\ pc \in {"start", "idle", "socket", "connect", "send", "more"}
  /\ sockets \in Nat
  /\ buf \subseteq 1 .. get
  /\ wire \subseteq handed
  /\ twice \subseteq handed
  /\ handed \subseteq 1 .. get
  /\ failed \subseteq 1 .. get
  /\ cut \subseteq 1 .. get
  /\ clobbered \subseteq 1 .. get

(* No byte vanishes: each byte that a callback was given is in the ring,   *)
(* in net_thread's buffer or with the network, or it was overwritten in    *)
(* the full ring, or it is the rest of a chunk that ksceNetSend accepted   *)
(* only in part.  A failed connection or send loses nothing.               *)
BytesAccountedFor ==
  1 .. put = Ring \cup buf \cup handed \cup clobbered \cup cut

(* When net_thread sends, everything the connection has carried is older   *)
(* than what is about to be sent: on one connection the log arrives in     *)
(* order and without repetition, even after errors.                        *)
SendsInOrder ==
  pc = "send" => \A i \in wire, j \in buf : i < j

(* A byte reaches the network twice only if it belongs to a chunk whose    *)
(* send was reported as failed.                                            *)
RepeatsOnlyFailedChunks == twice \subseteq failed

(* A byte that was overwritten is never sent, and a byte is never counted  *)
(* lost at both ends: clobbering and draining take different bytes.        *)
ClobberedNeverSent == clobbered \cap (handed \cup buf \cup cut) = {}

(* Exactly one socket is open from ksceNetSocket until the close, however  *)
(* often connecting and sending fail, and none while net_thread sleeps.    *)
SocketsBalanced ==
  sockets = IF pc \in {"connect", "send", "more"} THEN 1 ELSE 0

(* Every byte that stays in the ring is taken out and given to the         *)
(* network, whatever errors come before.                                   *)
EveryByteLeaves ==
  \A i \in 1 .. (MaxLog + Banner) :
    i \in Ring ~> i \in handed \cup clobbered \cup cut
==============================================================================
