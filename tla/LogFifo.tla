------------------------------- MODULE LogFifo -------------------------------
(***************************************************************************)
(* What the log ring buffer promises its callers, with no pointers, no     *)
(* lock and no event flag: a FIFO of at most Capacity bytes that forgets   *)
(* its OLDEST byte when a byte is written to a full queue, and hands bytes *)
(* to each reader in the order they were written.                          *)
(*                                                                         *)
(* RingBuf.tla, the model of ringbuf.c, is shown to implement this module. *)
(***************************************************************************)
EXTENDS Naturals, Sequences

CONSTANTS Threads,    \* the threads that log and that read the log
          Byte,       \* the characters that are logged
          Capacity    \* the most bytes the queue holds

VARIABLES open,       \* the buffer exists
          q,          \* the bytes logged and not yet read, oldest first
          dst         \* dst[t]: the bytes the last read call of t has received

fifoVars == <<open, q, dst>>

Init ==
  /\ open = FALSE
  /\ q = <<>>
  /\ dst = [t \in Threads |-> <<>>]

(* A byte is logged; a full queue makes room by dropping its oldest byte.  *)
Write(b) ==
  /\ open
  /\ q' = Append(IF Len(q) < Capacity THEN q ELSE Tail(q), b)
  /\ UNCHANGED <<open, dst>>

(* Reader t receives the oldest byte.                                      *)
Read(t) ==
  /\ open
  /\ q # <<>>
  /\ q' = Tail(q)
  /\ dst' = [dst EXCEPT ![t] = Append(@, Head(q))]
  /\ UNCHANGED open

(* Reader t starts a new call with an empty destination buffer.            *)
StartRead(t) ==
  /\ dst' = [dst EXCEPT ![t] = <<>>]
  /\ UNCHANGED <<open, q>>

(* The buffer is created empty; when it is deleted what it held is gone.   *)
OpenOrClose ==
  /\ open' = ~open
  /\ q' = <<>>
  /\ UNCHANGED dst

Next ==
  \/ \E b \in Byte : Write(b)
  \/ \E t \in Threads : Read(t) \/ StartRead(t)
  \/ OpenOrClose

Spec == Init /\ [][Next]_fifoVars
==============================================================================
