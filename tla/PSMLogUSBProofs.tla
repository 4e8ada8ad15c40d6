--------------------------- MODULE PSMLogUSBProofs ---------------------------
(***************************************************************************)
(* The safety of PSMLogUSB's module_stop, for a ring of any size.  Both    *)
(* properties rest on one fact about the hand-over between module_stop and *)
(* usb_thread: once ksceKernelWaitThreadEnd has returned the thread has    *)
(* ended for good (Joined), so nobody reads the ring that is deleted next, *)
(* and nobody starts the serial driver that is closed after that.  The     *)
(* hooks go on running until the end; they only ever close the driver or   *)
(* give it back, and after StopClose they cannot start again.              *)
(***************************************************************************)
EXTENDS PSMLogUSB, TLAPS

Joined == stage \in {"term", "stopped"} => tpc = "ended"

IInv == Joined /\ RingOutlivesThread /\ StoppedMeansClosed

(* The module is not there yet.                                            *)
LEMMA InitIInv == Init => IInv
BY DEF Init, IInv, Joined, RingOutlivesThread, StoppedMeansClosed

(* usb_thread: no step leads out of "ended", and only sceUsbSerialStart,   *)
(* which an ended thread does not take, touches the serial driver.         *)
LEMMA ThreadIInv ==
  ASSUME IInv, usb_thread
  PROVE  IInv'
<1>1. tpc # "ended" /\ UNCHANGED <<stage, ring>>
  BY DEF usb_thread, LoopHead, GetFirst, sceUsbSerialStatus, WaitStop,
         sceUsbSerialStart, SetReady, ClearReady, Send, SendError, GetMore,
         SetReadyAgain, ThreadOnly, moduleVars
<1>2. stage \notin {"term", "stopped"} /\ (stage # "boot" => ring)
  BY <1>1 DEF IInv, Joined, RingOutlivesThread
<1>. QED
  BY <1>1, <1>2 DEF IInv, Joined, RingOutlivesThread, StoppedMeansClosed

(* The hooks and the cable: the driver that is stopped stays stopped       *)
(* unless usb_thread starts it.                                            *)
LEMMA PortIInv ==
  ASSUME IInv,
         \/ sceUsbstorVStorStart_patched \/ UmsHook \/ sceUsbstorVStorStop_patched
         \/ HostAttaches \/ HostDetaches \/ RivalTakes
  PROVE  IInv'
<1>1. UNCHANGED <<stage, ring, tpc>>
  BY DEF sceUsbstorVStorStart_patched, UmsHook, WaitReady, cute_girls_dying,
         VStorStopped, sceUsbstorVStorStop_patched, HostAttaches, HostDetaches,
         RivalTakes, HostChange, UmsOnly, moduleVars
<1>2. serial = "stopped" => serial' = "stopped"
  BY DEF sceUsbstorVStorStart_patched, UmsHook, WaitReady, cute_girls_dying,
         VStorStopped, sceUsbstorVStorStop_patched, HostAttaches, HostDetaches,
         RivalTakes, HostChange
<1>. QED
  BY <1>1, <1>2 DEF IInv, Joined, RingOutlivesThread, StoppedMeansClosed

(* module_start creates the ring, module_stop joins before it deletes it.  *)
LEMMA ModuleIInv ==
  ASSUME IInv, module_start \/ Callback \/ module_stop \/ StopStep
  PROVE  IInv'
<1>1. CASE module_start
  BY <1>1 DEF module_start, IInv, Joined, RingOutlivesThread, StoppedMeansClosed
<1>2. CASE Callback
  BY <1>2 DEF Callback, moduleVars, IInv, Joined, RingOutlivesThread, StoppedMeansClosed
<1>3. CASE module_stop
  BY <1>3 DEF module_stop, StopOnly, IInv, Joined, RingOutlivesThread, StoppedMeansClosed
<1>4. CASE StopTerm
  BY <1>4 DEF StopTerm, StopOnly, IInv, Joined, RingOutlivesThread, StoppedMeansClosed
<1>5. CASE StopClose
  BY <1>5 DEF StopClose, StopOnly, IInv, Joined, RingOutlivesThread, StoppedMeansClosed
<1>. QED
  BY <1>1, <1>2, <1>3, <1>4, <1>5 DEF StopStep

LEMMA Inductive == Spec => []IInv
<1>1. IInv /\ [Next]_vars => IInv'
  <2>. SUFFICES ASSUME IInv, [Next]_vars PROVE IInv'
    OBVIOUS
  <2>1. CASE UNCHANGED vars
    BY <2>1 DEF vars, IInv, Joined, RingOutlivesThread, StoppedMeansClosed
  <2>. QED
    BY <2>1, ThreadIInv, PortIInv, ModuleIInv DEF Next
<1>. QED
  BY <1>1, InitIInv, PTL DEF Spec

(* module_stop deletes the ring only after usb_thread has ended: the       *)
(* thread never reads a ring that is gone, whatever it was waiting for     *)
(* and however the mounts changed the event flag meanwhile.                *)
THEOREM RingCorrect == Spec => []RingOutlivesThread
<1>1. IInv => RingOutlivesThread
  BY DEF IInv
<1>. QED
  BY <1>1, Inductive, PTL

(* When module_stop has returned the serial driver is stopped, and none of *)
(* the hooks that may still be running, nor the cable, starts it again.    *)
THEOREM ClosedCorrect == Spec => []StoppedMeansClosed
<1>1. IInv => StoppedMeansClosed
  BY DEF IInv
<1>. QED
  BY <1>1, Inductive, PTL
==============================================================================
