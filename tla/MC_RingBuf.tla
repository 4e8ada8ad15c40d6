----------------------------- MODULE MC_RingBuf -----------------------------
(***************************************************************************)
(* RingBuf for TLC, in the two places where a page-aligned block whose     *)
(* length is two pages can lie: at a multiple of its length, and half its  *)
(* length past one.  `half' says which of them a behaviour is about; the   *)
(* lengths are such that either ring holds the same number of bytes.  How  *)
(* calls interleave and wait does not depend on the place: in the second   *)
(* one there is one call at a time, and none that sleeps.                  *)
(***************************************************************************)
EXTENDS RingBuf

CONSTANTS HalfLen,      \* the length of the block that lies half its length
          HalfBase,     \* past a multiple of it, and its address
          HalfMaxSize

ASSUME HalfAssumption ==
  /\ Base % BufLen = 0
  /\ HalfLen = 2 * BufLen /\ HalfBase % HalfLen = HalfLen \div 2

VARIABLE half

Half == INSTANCE RingBuf WITH BufLen <- HalfLen, Base <- HalfBase,
                              MaxSize <- HalfMaxSize

mcVars == <<half, vars>>

MCInit ==
  \/ half = FALSE /\ Init
  \/ half = TRUE /\ Half!Init

OneCallAtATime ==
  \A t \in Threads : pc[t] = "idle" /\ pc'[t] # "idle" =>
    pc'[t] = "lock" /\ size'[t] > 0 /\ \A u \in Threads : pc[u] = "idle"

MCNext ==
  /\ UNCHANGED half
  /\ \/ ~half /\ Next
     \/ half /\ Half!Next /\ OneCallAtATime

(* LockMutex does not depend on the place.                                 *)
MCFairness ==
  \A t \in Threads :
    /\ WF_mcVars(UNCHANGED half /\ IF half THEN Half!Critical(t) ELSE Critical(t))
    /\ SF_mcVars(UNCHANGED half /\ LockMutex(t))

MCSpec == MCInit /\ [][MCNext]_mcVars /\ MCFairness

Fifo == INSTANCE LogFifo
          WITH open <- (phase = "ready"), Capacity <- Capacity,
               q <- IF half THEN Half!Queue ELSE Queue

(* Every step of ringbuf.c is a step of the drop-oldest FIFO or changes    *)
(* neither the queue nor a reader's buffer: no byte is lost except the     *)
(* oldest of a full ring, none is duplicated, reordered or made up.  A     *)
(* block that is not aligned to its length holds half as much.             *)
ImplementsFifo == Fifo!Spec
=============================================================================
