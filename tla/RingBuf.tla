------------------------------- MODULE RingBuf -------------------------------
(***************************************************************************)
(* ringbuf.c, the log buffer that PrincessLog and PSMLogUSB share: one     *)
(* memory block used as a ring of characters, a mutex around every access  *)
(* to it, and an event flag that is meant to be set exactly while the ring *)
(* is not empty, so that the sending thread can sleep on it.               *)
(*                                                                         *)
(* Pointers are the addresses the code uses.  idx() reduces an ADDRESS     *)
(* modulo the length of the block, not an offset, so how the ring behaves  *)
(* depends on Base % BufLen; nothing in ringbuf_init asks the allocator    *)
(* for an alignment.                                                       *)
(*                                                                         *)
(* A call takes one step per kernel call and per byte, so that the calls   *)
(* of different threads interleave as they do on the console.              *)
(***************************************************************************)
EXTENDS Integers, Sequences

CONSTANTS Writers,    \* the threads that log: any thread that prints
          Readers,    \* the threads that drain the log: the sending thread
          NoThread,   \* the mutex is free
          Byte,       \* the characters
          BufLen,     \* ringbuf_init's size
          Base,       \* the address of the memory block
          MaxSize     \* bound: the largest size argument of a call

Threads == Writers \cup Readers

ASSUME RingBufAssumption ==
  /\ NoThread \notin Threads
  /\ Byte # {}
  /\ BufLen \in Nat /\ BufLen >= 2
  /\ Base \in Nat /\ Base > 0
  /\ MaxSize \in Nat

VARIABLES
  phase,      \* how far ringbuf_init has got: "down", "evf", "mtx", "ready"
  objs,       \* the kernel objects the module owns
  mem,        \* the contents of the memory block
  get_ptr,
  put_ptr,
  evf,        \* the bits of the event flag
  mtx,        \* the thread that holds the mutex
  pc,         \* where each thread is in its call
  op,         \* the call it is in: "put", "clobber" or "get"
  size,       \* the size argument, counted down by the loop
  n,          \* n_put or n_get
  dst         \* the bytes a get has stored through c

initVars == <<phase, objs>>
ringVars == <<mem, get_ptr, put_ptr>>
callVars == <<op, size, n, dst>>
vars == <<phase, objs, mem, get_ptr, put_ptr, evf, mtx, pc, op, size, n, dst>>

NULL == 0
RINGBUF_EVF_NON_EMPTY == 1
Addr == Base .. (Base + BufLen - 1)
KernelObject == {"evf", "mtx", "mem"}
Op == {"none", "put", "clobber", "get"}

------------------------------------------------------------------------------
(* The pointer helpers.                                                    *)

idx(ptr) == ptr % BufLen

inc(ptr) == Base + idx(ptr + 1)

empty == get_ptr = put_ptr

(* Faulty: no slot is kept free.                                           *)
full_never == put_ptr = NULL

full == idx(put_ptr + 1) = idx(get_ptr)

------------------------------------------------------------------------------
(* ringbuf_init creates three kernel objects and unwinds on the first      *)
(* failure; ringbuf_term deletes them.                                     *)

CreateEventFlag ==
  /\ phase = "down"
  /\ phase' = "evf"
  /\ objs' = objs \cup {"evf"}
  /\ evf' = 0
  /\ UNCHANGED <<ringVars, mtx, pc, callVars>>

CreateMutex ==
  /\ phase = "evf"
  /\ \/ phase' = "mtx" /\ objs' = objs \cup {"mtx"}
     \/ phase' = "down" /\ objs' = objs \ {"evf"}
  /\ UNCHANGED <<ringVars, evf, mtx, pc, callVars>>

(* Faulty: a failed allocation leaves through fail_mtx.                    *)
AllocMemBlockLeaks ==
  /\ phase = "mtx"
  /\ \/ /\ phase' = "ready"
        /\ objs' = objs \cup {"mem"}
        /\ get_ptr' = Base
        /\ put_ptr' = Base
     \/ /\ phase' = "down"
        /\ objs' = objs \ {"evf"}
        /\ UNCHANGED <<get_ptr, put_ptr>>
  /\ UNCHANGED <<mem, evf, mtx, pc, callVars>>

AllocMemBlock ==
  /\ phase = "mtx"
  /\ \/ /\ phase' = "ready"
        /\ objs' = objs \cup {"mem"}
        /\ get_ptr' = Base
        /\ put_ptr' = Base
     \/ /\ phase' = "down"
        /\ objs' = (objs \ {"mtx"}) \ {"evf"}
        /\ UNCHANGED <<get_ptr, put_ptr>>
  /\ UNCHANGED <<mem, evf, mtx, pc, callVars>>

(* The callers' obligation: no thread is inside a call any more.           *)
ringbuf_term ==
  /\ phase = "ready"
  /\ \A t \in Threads : pc[t] = "idle"
  /\ phase' = "down"
  /\ objs' = ((objs \ {"evf"}) \ {"mtx"}) \ {"mem"}
  /\ get_ptr' = NULL
  /\ put_ptr' = NULL
  /\ UNCHANGED <<mem, evf, mtx, pc, callVars>>

------------------------------------------------------------------------------
(* Entering a call.  Only get_wait looks at the event flag, and it does so *)
(* before it takes the mutex.                                              *)

Enter(t, o, s, where) ==
  /\ phase = "ready"
  /\ pc[t] = "idle"
  /\ pc' = [pc EXCEPT ![t] = where]
  /\ op' = [op EXCEPT ![t] = o]
  /\ size' = [size EXCEPT ![t] = s]
  /\ n' = [n EXCEPT ![t] = 0]
  /\ UNCHANGED <<initVars, ringVars, evf, mtx>>

ringbuf_put(t, s) ==
  /\ Enter(t, "put", s, "lock")
  /\ UNCHANGED dst

ringbuf_put_clobber(t, s) ==
  /\ Enter(t, "clobber", s, "lock")
  /\ UNCHANGED dst

ringbuf_get(t, s) ==
  /\ Enter(t, "get", s, "lock")
  /\ dst' = [dst EXCEPT ![t] = <<>>]

(* "wait" is the wait without a timeout, "timedwait" the one with.         *)
ringbuf_get_wait(t, s, wait) ==
  /\ Enter(t, "get", s, IF evf = RINGBUF_EVF_NON_EMPTY THEN "lock" ELSE wait)
  /\ dst' = [dst EXCEPT ![t] = <<>>]

(* A call returns and its locals die.  dst is the caller's buffer.         *)
Leave(t) ==
  /\ pc' = [pc EXCEPT ![t] = "idle"]
  /\ op' = [op EXCEPT ![t] = "none"]
  /\ size' = [size EXCEPT ![t] = 0]
  /\ n' = [n EXCEPT ![t] = 0]
  /\ UNCHANGED dst

Waiting(t) == pc[t] \in {"wait", "timedwait"}

(* The wait fails: get_wait returns 0 without having touched the ring.     *)
WaitTimeout(t) ==
  /\ pc[t] = "timedwait"
  /\ Leave(t)
  /\ UNCHANGED <<initVars, ringVars, evf, mtx>>

LockMutex(t) ==
  /\ pc[t] = "lock"
  /\ mtx = NoThread
  /\ mtx' = t
  /\ pc' = [pc EXCEPT ![t] = "loop"]
  /\ UNCHANGED <<initVars, ringVars, evf, callVars>>

------------------------------------------------------------------------------
(* One iteration of the loops.  The byte a put stores is the caller's.     *)

InLoop(t, o) ==
  /\ pc[t] = "loop"
  /\ op[t] = o
  /\ size[t] > 0

Count(t) ==
  /\ size' = [size EXCEPT ![t] = @ - 1]
  /\ n' = [n EXCEPT ![t] = @ + 1]

Store(b) ==
  /\ mem' = [mem EXCEPT ![put_ptr] = b]
  /\ put_ptr' = inc(put_ptr)

put(t, b) ==
  /\ InLoop(t, "put")
  /\ ~full
  /\ Store(b)
  /\ Count(t)
  /\ UNCHANGED <<initVars, get_ptr, evf, mtx, pc, op, dst>>

put_clobber(t, b) ==
  /\ InLoop(t, "clobber")
  /\ get_ptr' = IF full THEN inc(get_ptr) ELSE get_ptr
  /\ Store(b)
  /\ Count(t)
  /\ UNCHANGED <<initVars, evf, mtx, pc, op, dst>>

get(t) ==
  /\ InLoop(t, "get")
  /\ ~empty
  /\ dst' = [dst EXCEPT ![t] = Append(@, mem[get_ptr])]
  /\ get_ptr' = inc(get_ptr)
  /\ Count(t)
  /\ UNCHANGED <<initVars, mem, put_ptr, evf, mtx, pc, op>>

(* The loop ends when size is used up or the byte operation returned -1.   *)
LoopEnds(t) ==
  /\ pc[t] = "loop"
  /\ \/ size[t] = 0
     \/ op[t] = "put" /\ full
     \/ op[t] = "get" /\ empty

------------------------------------------------------------------------------
(* After the loop: the event flag, then the mutex.  Setting the flag       *)
(* releases every thread that waits on it (the flag is MULTI), and a       *)
(* released thread goes on to the mutex even if the flag is cleared again  *)
(* before it runs.                                                         *)

SetEventFlag(t) ==
  /\ LoopEnds(t)
  /\ op[t] # "get"
  /\ evf' = IF n[t] > 0 THEN RINGBUF_EVF_NON_EMPTY ELSE evf
  /\ pc' = [u \in Threads |->
              IF u = t THEN "unlock"
              ELSE IF n[t] > 0 /\ Waiting(u) THEN "lock" ELSE pc[u]]
  /\ UNCHANGED <<initVars, ringVars, mtx, callVars>>

(* Faulty: the flag is cleared although bytes are left.                    *)
ClearAlways(t) ==
  /\ LoopEnds(t)
  /\ op[t] = "get"
  /\ evf' = 0
  /\ pc' = [pc EXCEPT ![t] = "unlock"]
  /\ UNCHANGED <<initVars, ringVars, mtx, callVars>>

ClearEventFlag(t) ==
  /\ LoopEnds(t)
  /\ op[t] = "get"
  /\ evf' = IF empty THEN 0 ELSE evf
  /\ pc' = [pc EXCEPT ![t] = "unlock"]
  /\ UNCHANGED <<initVars, ringVars, mtx, callVars>>

(* Faulty: a call that moved no byte returns with the mutex held.          *)
UnlockIfMoved(t) ==
  /\ pc[t] = "unlock"
  /\ mtx' = IF n[t] > 0 THEN NoThread ELSE mtx
  /\ Leave(t)
  /\ UNCHANGED <<initVars, ringVars, evf>>

UnlockMutex(t) ==
  /\ pc[t] = "unlock"
  /\ mtx' = NoThread
  /\ Leave(t)
  /\ UNCHANGED <<initVars, ringVars, evf>>

------------------------------------------------------------------------------
Init ==
  /\ phase = "down"
  /\ objs = {}
  /\ mem \in [Addr -> Byte]         \* whatever the block holds
  /\ get_ptr = NULL
  /\ put_ptr = NULL
  /\ evf = 0
  /\ mtx = NoThread
  /\ pc = [t \in Threads |-> "idle"]
  /\ op = [t \in Threads |-> "none"]
  /\ size = [t \in Threads |-> 0]
  /\ n = [t \in Threads |-> 0]
  /\ dst = [t \in Threads |-> <<>>]

InitOrTerm ==
  \/ CreateEventFlag
  \/ CreateMutex
  \/ AllocMemBlock
  \/ ringbuf_term

WriterCall(t) ==
  \E s \in 0 .. MaxSize : ringbuf_put(t, s) \/ ringbuf_put_clobber(t, s)

ReaderCall(t) ==
  \E s \in 0 .. MaxSize :
    \/ ringbuf_get(t, s)
    \/ ringbuf_get_wait(t, s, "wait")
    \/ ringbuf_get_wait(t, s, "timedwait")

(* The steps that a thread takes inside the mutex.                         *)
Critical(t) ==
  \/ \E b \in Byte : put(t, b) \/ put_clobber(t, b)
  \/ get(t)
  \/ SetEventFlag(t)
  \/ ClearEventFlag(t)
  \/ UnlockMutex(t)

Next ==
  \/ InitOrTerm
  \/ \E t \in Writers : WriterCall(t)
  \/ \E t \in Readers : ReaderCall(t)
  \/ \E t \in Threads : WaitTimeout(t) \/ LockMutex(t) \/ Critical(t)

Spec == Init /\ [][Next]_vars

(* The kernel runs a thread that holds the mutex, and hands the mutex to   *)
(* its waiters in FIFO order (SCE_KERNEL_MUTEX_ATTR_TH_FIFO), so a thread  *)
(* queued on it is not passed over for ever.                               *)
Fairness ==
  \A t \in Threads : WF_vars(Critical(t)) /\ SF_vars(LockMutex(t))

FairSpec == Spec /\ Fairness

------------------------------------------------------------------------------
(* Properties.                                                             *)

(* Every variable has its type, the two pointers never leave the memory    *)
(* block that ringbuf_init allocated, and a size is never counted below 0. *)
TypeOK ==
  /\ phase \in {"down", "evf", "mtx", "ready"}
  /\ objs \subseteq KernelObject
  /\ mem \in [Addr -> Byte]
  /\ get_ptr \in Addr \cup {NULL}
  /\ put_ptr \in Addr \cup {NULL}
  /\ phase = "ready" => get_ptr \in Addr /\ put_ptr \in Addr
  /\ evf \in {0, RINGBUF_EVF_NON_EMPTY}
  /\ mtx \in Threads \cup {NoThread}
  /\ pc \in [Threads -> {"idle", "wait", "timedwait", "lock", "loop", "unlock"}]
  /\ op \in [Threads -> Op]
  /\ size \in [Threads -> Nat]
  /\ n \in [Threads -> Nat]
  /\ dst \in [Threads -> Seq(Byte)]

(* A call is only ever under way between ringbuf_init and ringbuf_term.    *)
CallsWhileReady ==
  \A t \in Threads : pc[t] # "idle" => phase = "ready"

(* The mutex is held by exactly the thread that is between LockMutex and   *)
(* UnlockMutex, so the unlocked helpers put, get and inc never run in two  *)
(* threads at once.                                                        *)
MutualExclusion ==
  \A t \in Threads : pc[t] \in {"loop", "unlock"} <=> mtx = t

(* Between critical sections the event flag says exactly whether there is  *)
(* something to read: set too long and the sending thread spins on empty   *)
(* reads, cleared too early and it sleeps on data.                         *)
FlagTracksContents ==
  phase = "ready" /\ mtx = NoThread => (evf = RINGBUF_EVF_NON_EMPTY <=> ~empty)

(* No thread sleeps in ringbuf_get_wait while the ring holds bytes and no  *)
(* call is under way that will still wake it.                              *)
NoLostWakeup ==
  \A t \in Threads : Waiting(t) /\ mtx = NoThread => empty

(* Init and term balance: a module that is down owns no kernel object,     *)
(* whichever step of ringbuf_init failed, and one that is ready owns all.  *)
KernelObjectsBalanced ==
  /\ phase = "down" => objs = {}
  /\ phase = "ready" => objs = KernelObject

(* A call that has got past the event flag returns: the mutex is never     *)
(* left locked and the loops end.                                          *)
CallsReturn ==
  \A t \in Threads : pc[t] = "lock" ~> pc[t] = "idle"

------------------------------------------------------------------------------
(* The ring as the queue of LogFifo.  Successive slots are Stride addresses*)
(* apart modulo BufLen; the ring is full after Capacity bytes, BufLen - 1  *)
(* when the block is aligned to its length and less when it is not.        *)

Stride == 1 + (Base % BufLen)

Slot(k) == Base + ((get_ptr - Base + k * Stride) % BufLen)

Held ==
  IF phase = "ready"
  THEN CHOOSE k \in 0 .. (BufLen - 1) : Slot(k) = put_ptr
  ELSE 0

Queue == [i \in 1 .. Held |-> mem[Slot(i - 1)]]

Capacity ==
  CHOOSE c \in 1 .. (BufLen - 1) :
    /\ (c * Stride + 1) % BufLen = 0
    /\ \A d \in 1 .. (c - 1) : (d * Stride + 1) % BufLen # 0
=============================================================================
