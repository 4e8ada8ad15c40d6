------------------------------ MODULE PSMLogUSB ------------------------------
(***************************************************************************)
(* PSMLogUSB: the same ring buffer as PrincessLog, drained by usb_thread   *)
(* to the USB serial driver.  Mounting the console as USB mass storage     *)
(* (UMS) needs the same port: the hooks on the storage driver's start and  *)
(* stop, run by whichever thread mounts, take the port away from           *)
(* usb_thread and give it back.  The two sides talk through the event flag *)
(* "Silly USB Flag" with the bits SERIAL_READY and SERIAL_STOP.            *)
(*                                                                         *)
(* The flag's operations are the kernel's: clearing ANDs the flag with the *)
(* argument, WAITCLEAR clears every bit once the wait is over, and a flag  *)
(* created with attribute 0 takes one waiter: the wait of a second thread  *)
(* returns an error at once (the constants are spelt out in ringbuf.c).    *)
(* No result of a wait is looked at.                                       *)
(*                                                                         *)
(* The serial driver is external: its status is "stopped" (0x80244401),    *)
(* "waiting" for a host (0), "connected" (1) or "taken" by another USB     *)
(* driver (0x80244403).                                                    *)
(***************************************************************************)
EXTENDS Integers

CONSTANT
  RingChunks  \* how many times usb_thread's buf a full ring holds

ASSUME PSMLogUSBAssumption == RingChunks \in Nat \ {0}

SERIAL_READY == "ready"
SERIAL_STOP == "stop"

VARIABLES
  stage,      \* the module: "boot", "run", the steps of module_stop, "stopped"
  handlers,   \* the printf callbacks are registered
  ring,       \* the ring buffer exists
  running,    \* g_usb_running
  pending,    \* the ring's content, in bufs
  buf,        \* usb_thread's buf holds bytes to send
  tpc,        \* where usb_thread is
  status,     \* the status it read last
  flag,       \* the bits of the event flag
  serial,     \* the serial driver
  ums         \* the storage driver and its hooks

moduleVars == <<stage, handlers, ring, running>>
vars == <<stage, handlers, ring, running, pending, buf, tpc, status, flag, serial, ums>>

Status == {"stopped", "waiting", "connected", "taken"}

------------------------------------------------------------------------------
(* The event flag.                                                         *)

(* Faulty: the flag is left as it is.                                      *)
SetNothing(bit) == UNCHANGED flag

SetEventFlag(bit) == flag' = flag \cup {bit}

ClearEventFlag(bits) == flag' = flag \cap bits

(* A wait ends when the bit is set, and then clears the flag, or fails     *)
(* because another thread is waiting on it.                                *)
WaitEventFlag(bit, othersWait) ==
  \/ bit \in flag /\ flag' = {}
  \/ bit \notin flag /\ othersWait /\ UNCHANGED flag

------------------------------------------------------------------------------
(* The callbacks and module_start.                                         *)

(* One more line: it starts a chunk or adds to the last; a full ring       *)
(* clobbers.                                                               *)
Callback ==
  /\ handlers
  /\ pending' \in {pending, pending + 1} \cap 1..RingChunks
  /\ UNCHANGED <<moduleVars, buf, tpc, status, flag, serial, ums>>

(* The flag starts with SERIAL_STOP set; the module prints its banner.     *)
module_start ==
  /\ stage = "boot"
  /\ stage' = "run"
  /\ handlers' = TRUE
  /\ ring' = TRUE
  /\ flag' = {SERIAL_STOP}
  /\ pending' = 1
  /\ tpc' = "head"
  /\ UNCHANGED <<running, buf, status, serial, ums>>

------------------------------------------------------------------------------
(* usb_thread.                                                             *)

ThreadOnly == UNCHANGED <<moduleVars, ums>>

LoopHead ==
  /\ tpc = "head"
  /\ tpc' = IF running THEN "get" ELSE "ended"
  /\ ThreadOnly /\ UNCHANGED <<pending, buf, status, flag, serial>>

(* ringbuf_get_wait without a timeout.                                     *)
GetFirst ==
  /\ tpc = "get"
  /\ pending > 0
  /\ pending' = pending - 1
  /\ buf' = TRUE
  /\ tpc' = "connect"
  /\ ThreadOnly /\ UNCHANGED <<status, flag, serial>>

sceUsbSerialStatus ==
  /\ tpc = "connect"
  /\ status' = serial
  /\ tpc' = CASE serial = "connected" -> "send"
              [] serial = "waiting"   -> "connect"
              [] OTHER                -> "waitstop"
  /\ ThreadOnly /\ UNCHANGED <<pending, buf, flag, serial>>

WaitStop ==
  /\ tpc = "waitstop"
  /\ WaitEventFlag(SERIAL_STOP, ums = "waitready")
  /\ tpc' = "start"
  /\ ThreadOnly /\ UNCHANGED <<pending, buf, status, serial>>

(* Start and Setup; a port that was taken is released and set up again.    *)
sceUsbSerialStart ==
  /\ tpc = "start"
  /\ serial' = IF serial = "stopped" \/ status = "taken" THEN "waiting" ELSE serial
  /\ tpc' = "ready"
  /\ ThreadOnly /\ UNCHANGED <<pending, buf, status, flag>>

SetReady ==
  /\ tpc = "ready"
  /\ SetEventFlag(SERIAL_READY)
  /\ tpc' = "send"
  /\ ThreadOnly /\ UNCHANGED <<pending, buf, status, serial>>

(* The mask is SERIAL_READY itself, so SERIAL_READY is the bit that stays. *)
ClearReady ==
  /\ tpc = "send"
  /\ buf
  /\ ClearEventFlag({SERIAL_READY})
  /\ tpc' = "sending"
  /\ ThreadOnly /\ UNCHANGED <<pending, buf, status, serial>>

Send ==
  /\ tpc = "sending"
  /\ serial = "connected"
  /\ buf' = FALSE
  /\ tpc' = "more"
  /\ ThreadOnly /\ UNCHANGED <<pending, status, flag, serial>>

(* Faulty: SERIAL_STOP is not set, so nobody tells WaitStop to go on.      *)
SendErrorSilent ==
  /\ tpc = "sending"
  /\ tpc' = "connect"
  /\ ThreadOnly /\ UNCHANGED <<pending, buf, status, flag, serial>>

SendError ==
  /\ tpc = "sending"
  /\ SetEventFlag(SERIAL_STOP)
  /\ tpc' = "connect"
  /\ ThreadOnly /\ UNCHANGED <<pending, buf, status, serial>>

(* ringbuf_get_wait for a second, then SERIAL_READY.                       *)
GetMore ==
  /\ tpc = "more"
  /\ \/ pending > 0 /\ pending' = pending - 1 /\ buf' = TRUE /\ tpc' = "moreready"
     \/ pending = 0 /\ tpc' = "idleready" /\ UNCHANGED <<pending, buf>>
  /\ ThreadOnly /\ UNCHANGED <<status, flag, serial>>

SetReadyAgain ==
  /\ tpc \in {"moreready", "idleready"}
  /\ SetEventFlag(SERIAL_READY)
  /\ tpc' = IF tpc = "moreready" THEN "send" ELSE "head"
  /\ ThreadOnly /\ UNCHANGED <<pending, buf, status, serial>>

------------------------------------------------------------------------------
(* The hooks on the storage driver, and cute_girls_dying.                  *)

UmsOnly == UNCHANGED <<moduleVars, pending, buf, tpc, status>>

Hooked == stage \in {"run", "join", "term"}

sceUsbstorVStorStart_patched ==
  /\ Hooked
  /\ ums = "off"
  /\ ums' = "waitready"
  /\ UmsOnly /\ UNCHANGED <<flag, serial>>

WaitReady ==
  /\ ums = "waitready"
  /\ WaitEventFlag(SERIAL_READY, tpc = "waitstop")
  /\ ums' = "closing"
  /\ UmsOnly /\ UNCHANGED serial

(* The serial driver is closed and storage goes on.                        *)
cute_girls_dying ==
  /\ ums = "closing"
  /\ serial' = "stopped"
  /\ ums' = "on"
  /\ UmsOnly /\ UNCHANGED flag

(* SERIAL_STOP is set before the storage driver's own stop runs.           *)
sceUsbstorVStorStop_patched ==
  /\ Hooked
  /\ ums = "on"
  /\ serial' = IF serial = "stopped" THEN serial ELSE "waiting"
  /\ SetEventFlag(SERIAL_STOP)
  /\ ums' = "stopping"
  /\ UmsOnly

VStorStopped ==
  /\ ums = "stopping"
  /\ ums' = "off"
  /\ UmsOnly /\ UNCHANGED <<flag, serial>>

------------------------------------------------------------------------------
(* The USB cable and other drivers: external.                              *)

HostChange(from, to) ==
  /\ serial \in from
  /\ serial' = to
  /\ UmsOnly /\ UNCHANGED <<flag, ums>>

HostAttaches == HostChange({"waiting"}, "connected")
HostDetaches == HostChange({"connected"}, "waiting")
RivalTakes == HostChange({"waiting", "connected"}, "taken")

------------------------------------------------------------------------------
(* module_stop.                                                            *)

StopOnly == UNCHANGED <<pending, buf, tpc, status, flag, ums>>

module_stop ==
  /\ stage = "run"
  /\ stage' = "join"
  /\ handlers' = FALSE
  /\ running' = FALSE
  /\ StopOnly /\ UNCHANGED <<ring, serial>>

(* Faulty: the ring is deleted without waiting for the thread.             *)
StopTermEarly ==
  /\ stage = "join"
  /\ ring' = FALSE
  /\ stage' = "term"
  /\ StopOnly /\ UNCHANGED <<handlers, running, serial>>

(* ksceKernelWaitThreadEnd, then ringbuf_term.                             *)
StopTerm ==
  /\ stage = "join"
  /\ tpc = "ended"
  /\ ring' = FALSE
  /\ stage' = "term"
  /\ StopOnly /\ UNCHANGED <<handlers, running, serial>>

(* Faulty: the serial driver is left open.                                 *)
StopLeavesOpen ==
  /\ stage = "term"
  /\ stage' = "stopped"
  /\ StopOnly /\ UNCHANGED <<handlers, ring, running, serial>>

(* cute_girls_dying, and the hooks are released.                           *)
StopClose ==
  /\ stage = "term"
  /\ serial' = "stopped"
  /\ stage' = "stopped"
  /\ StopOnly /\ UNCHANGED <<handlers, ring, running>>

------------------------------------------------------------------------------
Init ==
  /\ stage = "boot"
  /\ handlers = FALSE
  /\ ring = FALSE
  /\ running = TRUE
  /\ pending = 0
  /\ buf = FALSE
  /\ tpc = "none"
  /\ status = "stopped"
  /\ flag = {}
  /\ serial = "stopped"
  /\ ums = "off"

usb_thread ==
  \/ LoopHead \/ GetFirst
  \/ sceUsbSerialStatus \/ WaitStop \/ sceUsbSerialStart \/ SetReady
  \/ ClearReady \/ Send \/ SendError
  \/ GetMore \/ SetReadyAgain

UmsHook == WaitReady \/ cute_girls_dying \/ VStorStopped

StopStep == StopTerm \/ StopClose

Next ==
  \/ module_start
  \/ Callback
  \/ usb_thread
  \/ sceUsbstorVStorStart_patched \/ UmsHook \/ sceUsbstorVStorStop_patched
  \/ HostAttaches \/ HostDetaches \/ RivalTakes
  \/ module_stop \/ StopStep

Spec == Init /\ [][Next]_vars

(* The kernel runs the threads; a host is there and, from some time on,    *)
(* stays; sends to it do not fail for ever; a mounted storage is unmounted *)
(* some day.                                                               *)
Fairness ==
  /\ WF_vars(usb_thread)
  /\ WF_vars(UmsHook)
  /\ WF_vars(StopStep)
  /\ WF_vars(HostAttaches) /\ <>[][~HostDetaches]_vars
  /\ SF_vars(Send)
  /\ WF_vars(sceUsbstorVStorStop_patched)

FairSpec == Spec /\ Fairness

(* Storage is mounted finitely often.                                      *)
FewMounts == <>[][~sceUsbstorVStorStart_patched]_vars

(* The console keeps printing.                                             *)
Chatty == SF_vars(Callback)

------------------------------------------------------------------------------
(* Properties.                                                             *)

(* Every variable has its type.                                            *)
TypeOK ==
  /\ stage \in {"boot", "run", "join", "term", "stopped"}
  /\ handlers \in BOOLEAN /\ ring \in BOOLEAN /\ running \in BOOLEAN
  /\ pending \in 0..RingChunks /\ buf \in BOOLEAN
  /\ tpc \in {"none", "head", "get", "connect", "waitstop", "start", "ready",
              "send", "sending", "more", "moreready", "idleready", "ended"}
  /\ status \in Status /\ serial \in Status
  /\ flag \subseteq {SERIAL_READY, SERIAL_STOP}
  /\ ums \in {"off", "waitready", "closing", "on", "stopping"}

(* The ring buffer outlives the thread that reads it: module_stop never    *)
(* deletes it under usb_thread, whatever the thread is waiting for.        *)
RingOutlivesThread ==
  stage # "boot" /\ ~ring => tpc = "ended"

(* Once module_stop has returned the serial device is closed for good, as  *)
(* no thread is left to open it again.                                     *)
StoppedMeansClosed ==
  stage = "stopped" => serial = "stopped"

(* While storage is mounted the serial driver does not take the port back. *)
SerialNeverDuringUms ==
  ums = "on" => serial = "stopped"

(* Logging outlives UMS: whatever the mounts did to the flag, once they    *)
(* are over a chunk that is in the ring or in usb_thread's hands makes the *)
(* thread complete a send, unless another driver has taken the port.       *)
LogResumes ==
  FewMounts =>
    (stage = "run" /\ (pending > 0 \/ buf))
      ~> (tpc = "more" \/ serial = "taken" \/ stage # "run")

(* On a console that keeps printing, a thread that mounts storage is not   *)
(* held up for ever: sooner or later usb_thread gives it SERIAL_READY,     *)
(* unless the port is taken or the module is being stopped.                *)
MountReturns ==
  Chatty =>
    ums = "waitready" ~> (ums # "waitready" \/ serial = "taken" \/ stage # "run")

(* module_stop, which joins usb_thread, returns once the mounts are over,  *)
(* unless the port is taken or the thread sleeps on an empty ring that     *)
(* nobody fills any more.                                                  *)
StopReturns ==
  FewMounts =>
    (stage = "join" /\ ~(tpc = "get" /\ pending = 0))
      ~> (stage = "stopped" \/ serial = "taken")
==============================================================================
