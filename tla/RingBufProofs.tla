---------------------------- MODULE RingBufProofs ----------------------------
(***************************************************************************)
(* What is proved of ringbuf.c for every set of threads, every length of   *)
(* the ring and every size argument.                                       *)
(*                                                                         *)
(*   TypeCorrect        the pointers never leave the memory block          *)
(*   MutexCorrect       put, get and inc run in one thread at a time       *)
(*   ObjectsCorrect     ringbuf_init and ringbuf_term leak nothing         *)
(*   FlagCorrect        the event flag says whether the ring is empty      *)
(*   WakeupCorrect      no reader sleeps on a ring that holds bytes        *)
(*   RingIsFifo         the ring implements the queue of LogFifo           *)
(*   TwoPages           the placements in which the last three hold        *)
(*                                                                         *)
(* idx() reduces addresses and not offsets, so the slots are Stride apart, *)
(* modulo the length.  FlagCorrect, WakeupCorrect and RingIsFifo hold for  *)
(* every placement of the block in which the ring can fill up (Placed);    *)
(* TwoPages shows that a block of RINGBUF_LEN bytes has no other.          *)
(***************************************************************************)
EXTENDS RingBuf, SequenceTheorems, TLAPS

(* Euclidean division, as idx() uses it on addresses.                      *)
LEMMA DivMod ==
  ASSUME NEW x \in Nat, NEW m \in Nat, m > 0
  PROVE  /\ x \div m \in Nat
         /\ x % m \in 0 .. (m - 1)
         /\ x = m * (x \div m) + (x % m)
  OBVIOUS

(* A remainder below m is unique: what makes idx() of an aligned block     *)
(* computable.                                                             *)
LEMMA ModUnique ==
  ASSUME NEW m \in Nat, m > 0, NEW q \in Int, NEW p \in Int,
         NEW r \in 0 .. (m - 1), NEW s \in 0 .. (m - 1),
         m * q + r = m * p + s
  PROVE  r = s
  <1>1. m * (q - p) = s - r
    OBVIOUS
  <1>2. CASE q - p >= 1
    <2>1. m * (q - p) >= m
      BY <1>2
    <2> QED BY <2>1, <1>1
  <1>3. CASE q - p <= -1
    <2>1. m * (q - p) <= -m
      BY <1>3
    <2> QED BY <2>1, <1>1
  <1>4. CASE q = p
    BY <1>4
  <1> QED BY <1>2, <1>3, <1>4

(* idx() yields an offset inside the block, for any address.               *)
LEMMA IdxRange == \A p \in Nat : idx(p) \in 0 .. (BufLen - 1)
  BY RingBufAssumption DEF idx

(* inc() leaves every pointer inside the block, aligned or not.            *)
LEMMA IncInBlock == \A p \in Nat : inc(p) \in Addr
  BY IdxRange, RingBufAssumption DEF inc, Addr


------------------------------------------------------------------------------
(* The statics of ringbuf.c start with their types.                        *)
LEMMA TypeOKInit == Init => TypeOK
  BY RingBufAssumption DEF Init, TypeOK, Op, NULL, RINGBUF_EVF_NON_EMPTY

(* Both pointers are addresses or NULL, so idx() is defined on them.       *)
LEMMA PointersAreNat == TypeOK => get_ptr \in Nat /\ put_ptr \in Nat
  BY RingBufAssumption DEF TypeOK, Addr, NULL

(* Every step of every call keeps the types.                               *)
LEMMA TypeOKStep == TypeOK /\ CallsWhileReady /\ [Next]_vars => TypeOK'
  <1> SUFFICES ASSUME TypeOK, CallsWhileReady, [Next]_vars PROVE TypeOK'
    OBVIOUS
  <1> USE DEF initVars, ringVars, callVars
  <1>1. CASE InitOrTerm
    <2>1. Base \in Addr
      BY RingBufAssumption DEF Addr
    <2> QED BY <1>1, <2>1 DEF InitOrTerm, CreateEventFlag, CreateMutex, AllocMemBlock,
                       ringbuf_term, KernelObject, TypeOK, NULL
  <1>2. ASSUME NEW t \in Threads, NEW o \in Op, NEW s \in 0 .. MaxSize,
               NEW w \in {"wait", "timedwait", "lock"}, Enter(t, o, s, w),
               dst' = dst \/ dst' = [dst EXCEPT ![t] = <<>>]
        PROVE  TypeOK'
    <2>1. s \in Nat
      BY RingBufAssumption
    <2>2. dst' \in [Threads -> Seq(Byte)]
      <3>1. <<>> \in Seq(Byte) /\ dst \in [Threads -> Seq(Byte)]
        BY DEF TypeOK
      <3> QED BY <3>1, <1>2
    <2> QED BY <1>2, <2>1, <2>2 DEF Enter, TypeOK
  <1>3. ASSUME NEW t \in Writers, WriterCall(t) PROVE TypeOK'
    BY <1>3, <1>2 DEF WriterCall, ringbuf_put, ringbuf_put_clobber, Threads, Op
  <1>4. ASSUME NEW t \in Readers, ReaderCall(t) PROVE TypeOK'
    <2>1. PICK s \in 0 .. MaxSize :
             \/ ringbuf_get(t, s)
             \/ ringbuf_get_wait(t, s, "wait")
             \/ ringbuf_get_wait(t, s, "timedwait")
      BY <1>4 DEF ReaderCall
    <2>2. t \in Threads /\ "get" \in Op
      BY DEF Threads, Op
    <2>3. CASE ringbuf_get(t, s)
      BY <2>3, <2>2, <1>2 DEF ringbuf_get
    <2>4. ASSUME NEW w \in {"wait", "timedwait"}, ringbuf_get_wait(t, s, w)
          PROVE  TypeOK'
      <3> DEFINE where == IF evf = RINGBUF_EVF_NON_EMPTY THEN "lock" ELSE w
      <3>1. where \in {"wait", "timedwait", "lock"}
        OBVIOUS
      <3>2. Enter(t, "get", s, where) /\ dst' = [dst EXCEPT ![t] = <<>>]
        BY <2>4 DEF ringbuf_get_wait
      <3> HIDE DEF where
      <3> QED BY <3>1, <3>2, <2>2, <1>2
    <2> QED BY <2>1, <2>3, <2>4
  <1>5. ASSUME NEW t \in Threads, WaitTimeout(t) \/ UnlockMutex(t) PROVE TypeOK'
    <2>1. Leave(t) /\ UNCHANGED <<initVars, ringVars, evf>> /\ mtx' \in {mtx, NoThread}
      BY <1>5 DEF WaitTimeout, UnlockMutex
    <2> QED BY <2>1 DEF Leave, TypeOK, Op
  <1>6. ASSUME NEW t \in Threads, LockMutex(t) PROVE TypeOK'
    BY <1>6 DEF LockMutex, TypeOK
  <1>7. ASSUME NEW t \in Threads, InLoop(t, op[t]), Count(t)
        PROVE  size' \in [Threads -> Nat] /\ n' \in [Threads -> Nat]
    BY <1>7 DEF InLoop, Count, TypeOK
  <1>8. inc(put_ptr) \in Addr /\ inc(get_ptr) \in Addr
    BY PointersAreNat, IncInBlock
  <1>9. ASSUME NEW t \in Threads, NEW b \in Byte, put(t, b) PROVE TypeOK'
    <2>1. size' \in [Threads -> Nat] /\ n' \in [Threads -> Nat]
      BY <1>7, <1>9 DEF put, InLoop
    <2>2. mem' \in [Addr -> Byte] /\ put_ptr' \in Addr
      BY <1>8, <1>9 DEF put, Store, TypeOK
    <2> QED BY <1>9, <2>1, <2>2 DEF put, TypeOK
  <1>10. ASSUME NEW t \in Threads, NEW b \in Byte, put_clobber(t, b) PROVE TypeOK'
    <2>1. size' \in [Threads -> Nat] /\ n' \in [Threads -> Nat]
      BY <1>7, <1>10 DEF put_clobber, InLoop
    <2>2. mem' \in [Addr -> Byte] /\ put_ptr' \in Addr
      BY <1>8, <1>10 DEF put_clobber, Store, TypeOK
    <2>3. get_ptr' \in Addr \/ get_ptr' = get_ptr
      BY <1>8, <1>10 DEF put_clobber
    <2> QED BY <1>10, <2>1, <2>2, <2>3 DEF put_clobber, TypeOK
  <1>11. ASSUME NEW t \in Threads, get(t) PROVE TypeOK'
    <2>1. size' \in [Threads -> Nat] /\ n' \in [Threads -> Nat]
      BY <1>7, <1>11 DEF get, InLoop
    <2>2. get_ptr' \in Addr
      BY <1>8, <1>11 DEF get
    <2>3. mem[get_ptr] \in Byte
      BY <1>11 DEF get, InLoop, CallsWhileReady, TypeOK
    <2>4. dst[t] \in Seq(Byte)
      BY DEF TypeOK
    <2>5. Append(dst[t], mem[get_ptr]) \in Seq(Byte)
      BY <2>3, <2>4
    <2>6. dst' \in [Threads -> Seq(Byte)]
      BY <1>11, <2>5 DEF get, TypeOK
    <2> QED BY <1>11, <2>1, <2>2, <2>6 DEF get, TypeOK
  <1>12. ASSUME NEW t \in Threads, SetEventFlag(t) \/ ClearEventFlag(t) PROVE TypeOK'
    BY <1>12 DEF SetEventFlag, ClearEventFlag, TypeOK
  <1>13. CASE UNCHANGED vars
    BY <1>13 DEF vars, TypeOK
  <1> QED BY <1>1, <1>3, <1>4, <1>5, <1>6, <1>9, <1>10, <1>11, <1>12, <1>13 DEF Next, Critical

(* No step of ringbuf_init or ringbuf_term happens under a call.           *)
LEMMA ReadyStep == TypeOK /\ CallsWhileReady /\ [Next]_vars => CallsWhileReady'
  <1> SUFFICES ASSUME TypeOK, CallsWhileReady, [Next]_vars PROVE CallsWhileReady'
    OBVIOUS
  <1> USE DEF CallsWhileReady, initVars, TypeOK
  <1>1. CASE InitOrTerm
    BY <1>1 DEF InitOrTerm, CreateEventFlag, CreateMutex, AllocMemBlock, ringbuf_term
  <1>2. ASSUME NEW t \in Writers, WriterCall(t) PROVE CallsWhileReady'
    BY <1>2 DEF WriterCall, ringbuf_put, ringbuf_put_clobber, Enter
  <1>3. ASSUME NEW t \in Readers, ReaderCall(t) PROVE CallsWhileReady'
    BY <1>3 DEF ReaderCall, ringbuf_get, ringbuf_get_wait, Enter
  <1>4. ASSUME NEW t \in Threads, WaitTimeout(t) \/ LockMutex(t) \/ UnlockMutex(t)
        PROVE  CallsWhileReady'
    BY <1>4 DEF WaitTimeout, LockMutex, UnlockMutex, Leave
  <1>5. ASSUME NEW t \in Threads, NEW b \in Byte,
               put(t, b) \/ put_clobber(t, b) \/ get(t)
        PROVE  CallsWhileReady'
    BY <1>5 DEF put, put_clobber, get
  <1>6. ASSUME NEW t \in Threads, SetEventFlag(t) \/ ClearEventFlag(t)
        PROVE  CallsWhileReady'
    BY <1>6 DEF SetEventFlag, ClearEventFlag, LoopEnds
  <1>7. CASE UNCHANGED vars
    BY <1>7 DEF vars
  <1> QED BY <1>1, <1>2, <1>3, <1>4, <1>5, <1>6, <1>7, RingBufAssumption DEF Next, Critical

(* get_ptr and put_ptr never leave the block that ringbuf_init allocated,  *)
(* however calls interleave, for a block at any address: no get or put     *)
(* reads or writes outside it.                                             *)
THEOREM TypeCorrect == Spec => []TypeOK
  <1>1. Init => TypeOK /\ CallsWhileReady
    BY TypeOKInit DEF Init, CallsWhileReady
  <1>2. TypeOK /\ CallsWhileReady /\ [Next]_vars => (TypeOK /\ CallsWhileReady)'
    BY TypeOKStep, ReadyStep
  <1> QED BY <1>1, <1>2, PTL DEF Spec

------------------------------------------------------------------------------
(* Mutual exclusion and the kernel objects, at any address.                *)

(* What KernelObjectsBalanced needs to be inductive: the objects owned at  *)
(* every stage of ringbuf_init.                                            *)
ObjectsInv ==
  /\ phase = "down" => objs = {}
  /\ phase = "evf" => objs = {"evf"}
  /\ phase = "mtx" => objs = {"evf", "mtx"}
  /\ phase = "ready" => objs = KernelObject

(* The part of the inductive invariant that no address arithmetic is       *)
(* needed for.                                                             *)
LockInv == TypeOK /\ CallsWhileReady /\ MutualExclusion /\ ObjectsInv

(* ringbuf_init's unwinding and ringbuf_term keep the objects balanced.    *)
LEMMA ObjectsStep == TypeOK /\ ObjectsInv /\ [Next]_vars => ObjectsInv'
  <1> SUFFICES ASSUME TypeOK, ObjectsInv, [Next]_vars PROVE ObjectsInv'
    OBVIOUS
  <1> USE DEF ObjectsInv, initVars
  <1>1. CASE InitOrTerm
    BY <1>1 DEF InitOrTerm, CreateEventFlag, CreateMutex, AllocMemBlock,
                ringbuf_term, KernelObject, TypeOK
  <1>2. CASE UNCHANGED initVars
    BY <1>2
  <1>3. ASSUME NEW t \in Threads, WaitTimeout(t) \/ LockMutex(t) \/ Critical(t)
        PROVE  UNCHANGED initVars
    BY <1>3 DEF WaitTimeout, LockMutex, Critical, put, put_clobber, get,
                SetEventFlag, ClearEventFlag, UnlockMutex
  <1>4. ASSUME NEW t, WriterCall(t) \/ ReaderCall(t)
        PROVE  UNCHANGED initVars
    BY <1>4 DEF WriterCall, ReaderCall, ringbuf_put, ringbuf_put_clobber,
                ringbuf_get, ringbuf_get_wait, Enter
  <1> QED BY <1>1, <1>2, <1>3, <1>4 DEF Next, vars

(* Only LockMutex and UnlockMutex move a thread into or out of the         *)
(* critical section, and each changes the mutex with it.                   *)
LEMMA MutexStep == TypeOK /\ MutualExclusion /\ [Next]_vars => MutualExclusion'
  <1> SUFFICES ASSUME TypeOK, MutualExclusion, [Next]_vars PROVE MutualExclusion'
    OBVIOUS
  <1> USE RingBufAssumption DEF MutualExclusion, Threads
  <1>1. pc \in [Threads -> {"idle", "wait", "timedwait", "lock", "loop", "unlock"}]
    BY DEF TypeOK
  <1>2. CASE pc' = pc /\ mtx' = mtx
    BY <1>2
  <1>3. CASE InitOrTerm
    BY <1>2, <1>3 DEF InitOrTerm, CreateEventFlag, CreateMutex, AllocMemBlock, ringbuf_term
  <1>4. ASSUME NEW t \in Threads, NEW w \in {"idle", "wait", "timedwait", "lock"},
               pc[t] \notin {"loop", "unlock"},
               pc' = [pc EXCEPT ![t] = w], mtx' = mtx
        PROVE  MutualExclusion'
    BY <1>1, <1>4
  <1>5. ASSUME NEW t \in Writers, WriterCall(t) PROVE MutualExclusion'
    BY <1>4, <1>5 DEF WriterCall, ringbuf_put, ringbuf_put_clobber, Enter
  <1>6. ASSUME NEW t \in Readers, ReaderCall(t) PROVE MutualExclusion'
    BY <1>4, <1>6 DEF ReaderCall, ringbuf_get, ringbuf_get_wait, Enter
  <1>7. ASSUME NEW t \in Threads, WaitTimeout(t) PROVE MutualExclusion'
    BY <1>4, <1>7 DEF WaitTimeout, Leave
  <1>8. ASSUME NEW t \in Threads, LockMutex(t) PROVE MutualExclusion'
    BY <1>1, <1>8 DEF LockMutex
  <1>9. ASSUME NEW t \in Threads, UnlockMutex(t) PROVE MutualExclusion'
    BY <1>1, <1>9 DEF UnlockMutex, Leave
  <1>10. ASSUME NEW t \in Threads, SetEventFlag(t) PROVE MutualExclusion'
    BY <1>1, <1>10 DEF SetEventFlag, LoopEnds, Waiting
  <1>11. ASSUME NEW t \in Threads, ClearEventFlag(t) PROVE MutualExclusion'
    BY <1>1, <1>11 DEF ClearEventFlag, LoopEnds
  <1>12. ASSUME NEW t \in Threads, NEW b \in Byte,
                put(t, b) \/ put_clobber(t, b) \/ get(t)
         PROVE  MutualExclusion'
    BY <1>2, <1>12 DEF put, put_clobber, get
  <1>13. CASE UNCHANGED vars
    BY <1>2, <1>13 DEF vars
  <1> QED BY <1>3, <1>5, <1>6, <1>7, <1>8, <1>9, <1>10, <1>11, <1>12, <1>13 DEF Next, Critical

(* The lock invariant is inductive.                                        *)
LEMMA LockInvariant == Spec => []LockInv
  <1>1. Init => LockInv
    <2> SUFFICES ASSUME Init PROVE LockInv
      OBVIOUS
    <2>1. MutualExclusion
      BY RingBufAssumption DEF Init, MutualExclusion
    <2> QED BY TypeOKInit, <2>1 DEF Init, LockInv, CallsWhileReady, ObjectsInv
  <1>2. LockInv /\ [Next]_vars => LockInv'
    BY TypeOKStep, ReadyStep, MutexStep, ObjectsStep DEF LockInv
  <1> QED BY <1>1, <1>2, PTL DEF Spec

(* At most one thread is between ksceKernelLockMutex and                   *)
(* ksceKernelUnlockMutex, and it is the one that holds the mutex: no call  *)
(* returns with the mutex held and none unlocks another's.                 *)
THEOREM MutexCorrect == Spec => []MutualExclusion
  <1>1. LockInv => MutualExclusion
    BY DEF LockInv
  <1> QED BY <1>1, LockInvariant, PTL

(* However ringbuf_init fails and however often it is repeated, no event   *)
(* flag, mutex or memory block is left behind.                             *)
THEOREM ObjectsCorrect == Spec => []KernelObjectsBalanced
  <1>1. LockInv => KernelObjectsBalanced
    BY DEF LockInv, ObjectsInv, KernelObjectsBalanced
  <1> QED BY <1>1, LockInvariant, PTL

------------------------------------------------------------------------------
(* Where the slots of the ring are, for a block at any address.            *)

(* Two numbers that idx() does not tell apart.                             *)
Same(a, b) == \E q \in Int : a = b + BufLen * q

(* It is an equivalence, and adding keeps it.                              *)
LEMMA SameBothWays ==
  ASSUME NEW a \in Int, NEW b \in Int, NEW c \in Int
  PROVE  /\ Same(a, b) => Same(b, a)
         /\ Same(a, b) => Same(a + c, b + c)
         /\ Same(a, b) /\ Same(b, c) => Same(a, c)
  <1>1. BufLen \in Int
    BY RingBufAssumption
  <1>2. ASSUME Same(a, b) PROVE Same(b, a) /\ Same(a + c, b + c)
    <2>1. PICK q \in Int : a = b + BufLen * q
      BY <1>2 DEF Same
    <2>2. -q \in Int /\ b = a + BufLen * (-q) /\ a + c = b + c + BufLen * q
      BY <1>1, <2>1
    <2> QED BY <2>1, <2>2 DEF Same
  <1>3. ASSUME Same(a, b), Same(b, c) PROVE Same(a, c)
    <2>1. PICK q \in Int : a = b + BufLen * q
      BY <1>3 DEF Same
    <2>2. PICK p \in Int : b = c + BufLen * p
      BY <1>3 DEF Same
    <2>3. q + p \in Int /\ a = c + BufLen * (q + p)
      BY <1>1, <2>1, <2>2
    <2> QED BY <2>3 DEF Same
  <1> QED BY <1>2, <1>3

(* It is what idx() makes equal.                                           *)
LEMMA SameMod ==
  ASSUME NEW a \in Nat, NEW b \in Nat
  PROVE  a % BufLen = b % BufLen <=> Same(a, b)
  <1> DEFINE x == a \div BufLen
             y == b \div BufLen
             r == a % BufLen
             s == b % BufLen
  <1>1. BufLen \in Nat /\ BufLen > 0
    BY RingBufAssumption
  <1>2. /\ x \in Nat /\ r \in 0 .. (BufLen - 1) /\ a = BufLen * x + r
        /\ y \in Nat /\ s \in 0 .. (BufLen - 1) /\ b = BufLen * y + s
    BY <1>1, DivMod
  <1> HIDE DEF x, y, r, s
  <1>3. ASSUME r = s PROVE Same(a, b)
    <2>1. x - y \in Int /\ a = b + BufLen * (x - y)
      BY <1>1, <1>2, <1>3
    <2> QED BY <2>1 DEF Same
  <1>4. ASSUME Same(a, b) PROVE r = s
    <2>1. PICK q \in Int : a = b + BufLen * q
      BY <1>4 DEF Same
    <2>2. BufLen * x + r = BufLen * (y + q) + s
      BY <1>1, <1>2, <2>1
    <2> QED BY <1>1, <1>2, <2>2, ModUnique
  <1> QED BY <1>3, <1>4 DEF r, s

(* Only one address of the block is the same as a given number.            *)
LEMMA SameAddr ==
  ASSUME NEW p \in Addr, NEW q \in Addr, Same(p, q)
  PROVE  p = q
  <1>1. BufLen \in Nat /\ BufLen > 0 /\ Base \in Nat
    BY RingBufAssumption
  <1>2. PICK k \in Int : p = q + BufLen * k
    BY DEF Same
  <1>3. PICK r, s \in 0 .. (BufLen - 1) : p = Base + r /\ q = Base + s
    BY <1>1 DEF Addr
  <1>4. BufLen * 0 + r = BufLen * k + s
    BY <1>1, <1>2, <1>3
  <1>5. r = s
    BY <1>1, <1>3, <1>4, ModUnique
  <1> QED BY <1>3, <1>5

(* The place k slots behind g.                                             *)
At(g, k) == Base + ((g - Base + k * Stride) % BufLen)

(* The distance of two slots.                                              *)
LEMMA StrideNat == Stride \in Nat /\ Stride >= 1 /\ Stride <= BufLen
  <1>1. Base % BufLen \in 0 .. (BufLen - 1)
    BY DivMod, RingBufAssumption
  <1> QED BY <1>1, RingBufAssumption DEF Stride

(* The slot is in the block, k strides further but for whole lengths.      *)
LEMMA AtSame ==
  ASSUME NEW g \in Addr, NEW k \in Nat
  PROVE  At(g, k) \in Addr /\ Same(At(g, k), g + k * Stride)
  <1>1. BufLen \in Nat /\ BufLen > 0 /\ Base \in Nat
    BY RingBufAssumption
  <1>2. PICK m \in Nat : m = k * Stride
    BY StrideNat
  <1>3. PICK x \in Nat : x = g - Base + m
    BY <1>1 DEF Addr
  <1>4. /\ x \div BufLen \in Nat /\ x % BufLen \in 0 .. (BufLen - 1)
        /\ x = BufLen * (x \div BufLen) + (x % BufLen)
    BY <1>1, DivMod
  <1>5. PICK r \in 0 .. (BufLen - 1), d \in Nat : r = x % BufLen /\ x = BufLen * d + r
    BY <1>4
  <1>6. At(g, k) = Base + r
    BY <1>2, <1>3, <1>5 DEF At
  <1>7. -d \in Int /\ Base + r = g + m + BufLen * (-d)
    BY <1>1, <1>3, <1>5 DEF Addr
  <1>8. Base + r \in Addr
    BY <1>1 DEF Addr
  <1> QED BY <1>2, <1>6, <1>7, <1>8 DEF Same

(* It is the only one.                                                     *)
LEMMA AtOnly ==
  ASSUME NEW g \in Addr, NEW k \in Nat, NEW p \in Addr, Same(p, g + k * Stride)
  PROVE  p = At(g, k)
  <1>1. PICK m \in Nat : m = k * Stride
    BY StrideNat
  <1>2. At(g, k) \in Addr /\ Same(At(g, k), g + m)
    BY <1>1, AtSame
  <1>3. PICK a, b, c \in Int : a = p /\ b = g + m /\ c = At(g, k)
    BY <1>1, <1>2, RingBufAssumption DEF Addr
  <1>4. Same(a, b) /\ Same(c, b)
    BY <1>1, <1>2, <1>3
  <1>5. Same(a, c)
    BY <1>4, SameBothWays
  <1> QED BY <1>2, <1>3, <1>5, SameAddr

(* Slots are counted on from any slot.                                     *)
LEMMA AtAt ==
  ASSUME NEW g \in Addr, NEW j \in Nat, NEW k \in Nat
  PROVE  At(At(g, j), k) = At(g, j + k)
  <1>1. PICK m, l \in Nat : m = j * Stride /\ l = k * Stride /\ m + l = (j + k) * Stride
    BY StrideNat
  <1>2. PICK h \in Addr : h = At(g, j) /\ Same(h, g + m)
    BY <1>1, AtSame
  <1>3. PICK p \in Addr : p = At(h, k) /\ Same(p, h + l)
    BY <1>1, AtSame
  <1>4. g \in Int /\ h \in Int /\ p \in Int
    BY RingBufAssumption DEF Addr
  <1>5. Same(h + l, g + m + l)
    <2>1. PICK s, i \in Int : s = g + m /\ i = l
      BY <1>1, <1>4
    <2>2. Same(h + i, s + i)
      BY <1>2, <1>4, <2>1, SameBothWays
    <2> QED BY <2>1, <2>2
  <1>6. Same(p, g + m + l)
    BY <1>1, <1>3, <1>4, <1>5, SameBothWays
  <1>7. g + m + l = g + (j + k) * Stride
    BY <1>1, <1>4
  <1>8. Same(p, g + (j + k) * Stride)
    BY <1>6, <1>7
  <1>9. j + k \in Nat
    OBVIOUS
  <1>10. p = At(g, j + k)
    BY <1>8, <1>9, AtOnly
  <1> QED BY <1>2, <1>3, <1>10

(* The slot of a pointer itself.                                           *)
LEMMA AtZero ==
  ASSUME NEW g \in Addr
  PROVE  At(g, 0) = g
  <1>1. g \in Int /\ BufLen \in Int /\ 0 * Stride = 0 /\ g = g + BufLen * 0
    BY StrideNat, RingBufAssumption DEF Addr
  <1>2. Same(g, g + 0 * Stride)
    BY <1>1 DEF Same
  <1> QED BY <1>2, AtOnly

(* inc() goes to the next slot.                                            *)
LEMMA IncAt ==
  ASSUME NEW p \in Addr
  PROVE  inc(p) = At(p, 1)
  <1>1. BufLen \in Nat /\ BufLen > 0 /\ Base \in Nat /\ p \in Nat /\ p + 1 \in Nat
    BY RingBufAssumption DEF Addr
  <1>2. PICK r \in 0 .. (BufLen - 1), d \in Nat :
           r = (p + 1) % BufLen /\ p + 1 = BufLen * d + r
    BY <1>1, DivMod
  <1>3. PICK s \in 0 .. (BufLen - 1), e \in Nat :
           s = Base % BufLen /\ Base = BufLen * e + s
    BY <1>1, DivMod
  <1>4. inc(p) = Base + r /\ Stride = 1 + s
    BY <1>2, <1>3 DEF inc, idx, Stride
  <1>5. e - d \in Int /\ Base + r = p + 1 * Stride + BufLen * (e - d)
    BY <1>1, <1>2, <1>3, <1>4
  <1>6. Same(Base + r, p + 1 * Stride)
    BY <1>5 DEF Same
  <1>7. Base + r \in Addr
    BY <1>1 DEF Addr
  <1> QED BY <1>4, <1>6, <1>7, AtOnly

------------------------------------------------------------------------------
(* The ring can fill up: full() becomes true after some number of bytes.   *)
Placed == \E c \in 1 .. (BufLen - 1) : (c * Stride + 1) % BufLen = 0

(* Then a pointer is back where it was only after BufLen slots: a multiple *)
(* k of the stride that the ring does not see would, taken c times, make k *)
(* itself one.                                                             *)
LEMMA NoReturn ==
  ASSUME Placed, NEW k \in 1 .. (BufLen - 1)
  PROVE  ~Same(k * Stride, 0)
  <1> SUFFICES ASSUME Same(k * Stride, 0) PROVE FALSE
    OBVIOUS
  <1>1. BufLen \in Nat /\ BufLen > 0 /\ Stride \in Nat /\ k \in Nat
    BY StrideNat, RingBufAssumption
  <1>2. PICK c \in 1 .. (BufLen - 1) : (c * Stride + 1) % BufLen = 0
    BY DEF Placed
  <1>3. PICK y \in Nat : y = c * Stride
    BY <1>1
  <1>4. PICK p \in Nat : y + 1 = BufLen * p
    <2>1. y + 1 \in Nat /\ (y + 1) % BufLen = 0
      BY <1>2, <1>3
    <2>2. y + 1 = BufLen * ((y + 1) \div BufLen) /\ (y + 1) \div BufLen \in Nat
      BY <1>1, <2>1, DivMod
    <2> QED BY <2>2
  <1>5. PICK q \in Int : k * Stride = BufLen * q
    BY <1>1 DEF Same
  <1>6. c * (k * Stride) = k * y
    BY <1>1, <1>3
  <1>7. c * (BufLen * q) = k * y
    BY <1>5, <1>6
  <1>8. k * y + k = k * (BufLen * p)
    <2>1. k * (y + 1) = k * y + k
      BY <1>1
    <2> QED BY <1>4, <2>1
  <1>9. PICK t \in Int : t = k * p - c * q
    BY <1>1
  <1>10. k = BufLen * t
    <2>1. k * (BufLen * p) = BufLen * (k * p) /\ c * (BufLen * q) = BufLen * (c * q)
      BY <1>1
    <2>2. PICK u, v \in Int : u = k * p /\ v = c * q
      BY <1>1
    <2>3. BufLen * v + k = BufLen * u /\ t = u - v
      BY <1>7, <1>8, <1>9, <2>1, <2>2
    <2> QED BY <1>1, <2>2, <2>3
  <1>11. BufLen * t + 0 = BufLen * 0 + k
    BY <1>1, <1>10
  <1>12. 0 = k
    BY <1>1, <1>11, ModUnique
  <1> QED BY <1>12

(* Within one round no two slots are the same address.                     *)
LEMMA AtInjective ==
  ASSUME Placed, NEW g \in Addr, NEW j \in 0 .. (BufLen - 1), NEW k \in 0 .. (BufLen - 1),
         At(g, j) = At(g, k)
  PROVE  j = k
  <1>1. ASSUME NEW a \in Nat, NEW b \in Nat, a < b, b <= BufLen - 1, At(g, a) = At(g, b)
        PROVE  FALSE
    <2>1. PICK m, l \in Nat : m = a * Stride /\ l = b * Stride /\ l - m = (b - a) * Stride
      BY <1>1, StrideNat
    <2>2. PICK p \in Addr : p = At(g, a) /\ Same(p, g + m) /\ Same(p, g + l)
      BY <1>1, <2>1, AtSame
    <2>3. p \in Int /\ g \in Int
      BY RingBufAssumption DEF Addr
    <2>4. Same(g + l, g + m)
      BY <2>1, <2>2, <2>3, SameBothWays
    <2>5. PICK x, y, z \in Int : x = g + l /\ y = g + m /\ z = -(g + m)
      BY <2>1, <2>3
    <2>6. Same(x + z, y + z)
      BY <2>4, <2>5, SameBothWays
    <2>7. x + z = (b - a) * Stride /\ y + z = 0
      BY <2>1, <2>3, <2>5
    <2>8. b - a \in 1 .. (BufLen - 1)
      BY <1>1, RingBufAssumption
    <2> QED BY <2>6, <2>7, <2>8, NoReturn
  <1> QED BY <1>1, RingBufAssumption

(* Where full() is true: after one number of bytes and no other.           *)
LEMMA FullAt ==
  ASSUME NEW g \in Addr, NEW p \in Addr, NEW c \in 1 .. (BufLen - 1),
         (c * Stride + 1) % BufLen = 0
  PROVE  idx(p + 1) = idx(g) <=> p = At(g, c)
  <1>1. BufLen \in Nat /\ BufLen > 0 /\ p \in Nat /\ g \in Nat /\ p + 1 \in Nat
    BY RingBufAssumption DEF Addr
  <1>2. PICK m \in Nat : m = c * Stride
    BY StrideNat
  <1>3. Same(m + 1, 0)
    <2>1. m + 1 \in Nat /\ (m + 1) % BufLen = 0
      BY <1>2
    <2>2. m + 1 = 0 + BufLen * ((m + 1) \div BufLen) /\ (m + 1) \div BufLen \in Int
      BY <1>1, <2>1, DivMod
    <2> QED BY <2>2 DEF Same
  <1>4. Same(m + 1 + g, g)
    <2>1. PICK x, z, h \in Int : x = m + 1 /\ z = 0 /\ h = g /\ z + h = g
      BY <1>1
    <2>2. Same(x + h, z + h)
      BY <1>3, <2>1, SameBothWays
    <2> QED BY <2>1, <2>2
  <1>5. idx(p + 1) = idx(g) <=> Same(p + 1, g)
    BY <1>1, SameMod DEF idx
  <1>6. ASSUME Same(p + 1, g) PROVE p = At(g, c)
    <2>1. PICK x, y, z, o \in Int : x = p + 1 /\ y = g /\ z = m + 1 + g /\ o = -1
      BY <1>1
    <2>2. Same(x, z)
      BY <1>4, <1>6, <2>1, SameBothWays
    <2>3. Same(x + o, z + o)
      BY <2>1, <2>2, SameBothWays
    <2>4. x + o = p /\ z + o = g + c * Stride
      BY <1>1, <1>2, <2>1
    <2> QED BY <1>1, <2>3, <2>4, AtOnly
  <1>7. ASSUME p = At(g, c) PROVE Same(p + 1, g)
    <2>1. Same(p, g + m)
      BY <1>2, <1>7, AtSame
    <2>2. PICK x, y, z, o \in Int : x = p /\ y = g + m /\ z = m + 1 + g /\ y + o = z /\ o = 1
      BY <1>1
    <2>3. Same(x + o, y + o)
      BY <2>1, <2>2, SameBothWays
    <2> QED BY <1>1, <1>4, <2>2, <2>3, SameBothWays
  <1> QED BY <1>5, <1>6, <1>7

(* Capacity is that number.                                                *)
LEMMA CapacityOnly ==
  ASSUME Placed
  PROVE  /\ Capacity \in 1 .. (BufLen - 1)
         /\ (Capacity * Stride + 1) % BufLen = 0
         /\ \A c \in 1 .. (BufLen - 1) : (c * Stride + 1) % BufLen = 0 => c = Capacity
  <1> DEFINE Z(c) == (c * Stride + 1) % BufLen = 0
             P(c) == Z(c) /\ \A d \in 1 .. (c - 1) : ~Z(d)
  <1>1. PICK c \in 1 .. (BufLen - 1) : Z(c)
    BY DEF Placed
  <1>2. ASSUME NEW d \in 1 .. (BufLen - 1), Z(d) PROVE d = c
    <2>1. PICK g \in Addr : g = Base
      BY RingBufAssumption DEF Addr
    <2>2. At(g, c) \in Addr /\ c \in Nat
      BY AtSame, RingBufAssumption
    <2>3. PICK p \in Addr : p = At(g, c)
      BY <2>2
    <2>4. idx(p + 1) = idx(g)
      BY <1>1, <2>3, FullAt
    <2>5. p = At(g, d)
      BY <1>2, <2>4, FullAt
    <2>6. c \in 0 .. (BufLen - 1) /\ d \in 0 .. (BufLen - 1) /\ At(g, d) = At(g, c)
      BY <2>3, <2>5, RingBufAssumption
    <2> QED BY <2>6, AtInjective
  <1>3. P(c)
    <2>1. ASSUME NEW d \in 1 .. (c - 1), Z(d) PROVE FALSE
      <3>1. d \in 1 .. (BufLen - 1) /\ d # c
        BY RingBufAssumption
      <3> QED BY <1>2, <2>1, <3>1
    <2> QED BY <1>1, <2>1
  <1> HIDE DEF Z
  <1>4. (CHOOSE d \in 1 .. (BufLen - 1) : P(d)) = c
    <2>1. \A d \in 1 .. (BufLen - 1) : P(d) => d = c
      BY <1>2
    <2> HIDE DEF P
    <2> QED BY <1>3, <2>1
  <1>5. Capacity = c
    BY <1>4 DEF Capacity, P, Z
  <1> QED BY <1>1, <1>2, <1>5 DEF Z

(* idx() of a multiple of the length.                                      *)
LEMMA MultipleMod ==
  ASSUME NEW x \in Nat, NEW q \in Nat, x = BufLen * q
  PROVE  x % BufLen = 0
  <1>1. BufLen \in Nat /\ BufLen > 0
    BY RingBufAssumption
  <1>2. Same(x, 0)
    BY <1>1 DEF Same
  <1>3. x % BufLen = 0 % BufLen /\ 0 % BufLen = 0
    BY <1>1, <1>2, SameMod
  <1> QED BY <1>3

(* What the kernel's allocator makes of it: a block of two pages (the      *)
(* RINGBUF_LEN of both modules) begins at some page, and nothing asks for  *)
(* more.  Wherever it lies, the ring can fill up, but in every second      *)
(* place it does so after half as many bytes.                              *)
THEOREM TwoPages ==
  ASSUME NEW page \in Nat, page > 0, page % 2 = 0, BufLen = 2 * page, Base % page = 0
  PROVE  /\ Placed
         /\ Capacity = IF Base % BufLen = 0 THEN BufLen - 1 ELSE page - 1
  <1>1. BufLen \in Nat /\ BufLen >= 2 /\ Base \in Nat
    BY RingBufAssumption
  <1>2. PICK h \in Nat : page = 2 * h /\ h >= 1
    BY DivMod
  <1>3. PICK a \in Nat : Base = page * a
    <2>1. Base \div page \in Nat /\ Base = page * (Base \div page) + (Base % page)
      BY <1>1, DivMod
    <2>2. Base = page * (Base \div page)
      BY <1>1, <2>1
    <2> QED BY <2>1, <2>2
  <1>4. PICK b \in Nat, o \in 0 .. 1 : a = 2 * b + o
    <2>1. a \div 2 \in Nat /\ a % 2 \in 0 .. 1 /\ a = 2 * (a \div 2) + (a % 2)
      OBVIOUS
    <2> QED BY <2>1
  <1>5. Base = BufLen * b + page * o
    BY <1>3, <1>4
  <1>6. PICK r \in 0 .. (BufLen - 1) : r = page * o
    BY <1>1, <1>4
  <1>7. Base % BufLen = r
    <2>1. PICK d \in Nat, s \in 0 .. (BufLen - 1) : s = Base % BufLen /\ Base = BufLen * d + s
      BY <1>1, DivMod
    <2>2. BufLen * b + r = BufLen * d + s
      BY <1>5, <1>6, <2>1
    <2>3. r = s
      BY <1>1, <2>2, ModUnique
    <2> QED BY <2>1, <2>3
  <1>9. CASE o = 0
    <2>1. r = 0 /\ Stride = 1
      BY <1>6, <1>7, <1>9 DEF Stride
    <2>2. PICK c \in 1 .. (BufLen - 1) : c = BufLen - 1
      BY <1>1
    <2>3. c * Stride + 1 = BufLen * 1 /\ c * Stride + 1 \in Nat
      BY <1>1, <2>1, <2>2
    <2>4. (c * Stride + 1) % BufLen = 0
      BY <2>3, MultipleMod
    <2> QED BY <1>7, <2>1, <2>2, <2>4, CapacityOnly DEF Placed
  <1>10. CASE o = 1
    <2>1. r = page /\ r # 0 /\ Stride = 1 + page
      BY <1>6, <1>7, <1>10 DEF Stride
    <2>2. PICK c \in 1 .. (BufLen - 1) : c = page - 1
      BY <1>1, <1>2
    <2>3. c * Stride + 1 = page * page
      BY <2>1, <2>2
    <2>4. page * page = BufLen * h /\ page * page \in Nat
      BY <1>2
    <2>5. (c * Stride + 1) % BufLen = 0
      BY <2>3, <2>4, MultipleMod
    <2> QED BY <1>7, <2>1, <2>2, <2>5, CapacityOnly DEF Placed
  <1> QED BY <1>4, <1>9, <1>10

(* The pointers when k bytes are held.                                     *)
LEMMA HeldAt ==
  ASSUME Placed, NEW g \in Addr, NEW k \in 0 .. Capacity, NEW p \in Addr, p = At(g, k)
  PROVE  /\ idx(p + 1) = idx(g) <=> k = Capacity
         /\ g = p <=> k = 0
         /\ inc(g) \in Addr /\ inc(p) \in Addr
         /\ inc(p) = At(g, k + 1)
         /\ inc(p) = At(inc(g), k)
         /\ k > 0 => p = At(inc(g), k - 1)
  <1>1. Capacity \in 1 .. (BufLen - 1) /\ BufLen \in Nat /\ BufLen >= 2 /\ k \in Nat
    BY CapacityOnly, RingBufAssumption
  <1>2. \A i, j \in 0 .. Capacity : At(g, i) = At(g, j) => i = j
    <2>1. 0 .. Capacity \subseteq 0 .. (BufLen - 1)
      BY <1>1
    <2> QED BY <2>1, AtInjective
  <1>3. idx(p + 1) = idx(g) <=> p = At(g, Capacity)
    BY <1>1, CapacityOnly, FullAt
  <1>4. At(g, 0) = g
    BY AtZero
  <1>5. inc(g) = At(g, 1) /\ inc(p) = At(p, 1) /\ inc(g) \in Addr /\ inc(p) \in Addr
    BY IncAt, AtSame
  <1>6. At(At(g, k), 1) = At(g, k + 1) /\ At(At(g, 1), k) = At(g, k + 1)
    <2>1. 1 + k = k + 1 /\ 1 \in Nat
      BY <1>1
    <2>2. At(At(g, k), 1) = At(g, k + 1) /\ At(At(g, 1), k) = At(g, 1 + k)
      BY <1>1, <2>1, AtAt
    <2> QED BY <2>1, <2>2
  <1>7. ASSUME k > 0 PROVE p = At(inc(g), k - 1)
    <2>1. PICK j \in Nat : j = k - 1 /\ 1 + j = k
      BY <1>1, <1>7
    <2>2. At(At(g, 1), j) = At(g, 1 + j)
      BY AtAt
    <2> QED BY <1>5, <2>1, <2>2
  <1>8. 0 \in 0 .. Capacity /\ Capacity \in 0 .. Capacity
    BY <1>1
  <1> QED BY <1>2, <1>3, <1>4, <1>5, <1>6, <1>7, <1>8

(* put_ptr is a number of slots behind get_ptr that full() allows.         *)
HeldInv == phase = "ready" => \E k \in 0 .. Capacity : put_ptr = At(get_ptr, k)

(* A put takes one more slot or moves both pointers, a get gives one back. *)
LEMMA HeldStep ==
  ASSUME Placed, LockInv, HeldInv, [Next]_vars
  PROVE  HeldInv'
  <1> USE DEF initVars, ringVars
  <1>1. Capacity \in Nat /\ Capacity >= 1
    BY CapacityOnly, RingBufAssumption
  <1>2. phase = "ready" => get_ptr \in Addr /\ put_ptr \in Addr
    BY DEF LockInv, TypeOK
  <1>3. CASE UNCHANGED <<phase, get_ptr, put_ptr>>
    BY <1>3 DEF HeldInv
  <1>4. CASE InitOrTerm
    <2>1. Base \in Addr
      BY RingBufAssumption DEF Addr
    <2>2. Base = At(Base, 0) /\ 0 \in 0 .. Capacity
      BY <1>1, <2>1, AtZero
    <2>3. phase' = "ready" => get_ptr' = Base /\ put_ptr' = Base
      BY <1>4 DEF InitOrTerm, CreateEventFlag, CreateMutex, AllocMemBlock, ringbuf_term
    <2> QED BY <2>2, <2>3 DEF HeldInv
  <1>5. ASSUME NEW t, WriterCall(t) \/ ReaderCall(t) PROVE HeldInv'
    BY <1>3, <1>5 DEF WriterCall, ReaderCall, ringbuf_put, ringbuf_put_clobber,
                      ringbuf_get, ringbuf_get_wait, Enter
  <1>6. ASSUME NEW t \in Threads, WaitTimeout(t) \/ LockMutex(t) \/ UnlockMutex(t)
                                  \/ SetEventFlag(t) \/ ClearEventFlag(t)
        PROVE  HeldInv'
    BY <1>3, <1>6 DEF WaitTimeout, LockMutex, UnlockMutex, SetEventFlag, ClearEventFlag
  <1>7. ASSUME NEW t \in Threads, pc[t] = "loop"
        PROVE  /\ phase = "ready" /\ get_ptr \in Addr /\ put_ptr \in Addr
               /\ \E k \in 0 .. Capacity : put_ptr = At(get_ptr, k)
    BY <1>2, <1>7 DEF LockInv, CallsWhileReady, HeldInv
  <1>8. ASSUME NEW t \in Threads, NEW b \in Byte, put(t, b) \/ put_clobber(t, b)
        PROVE  HeldInv'
    <2>1. /\ pc[t] = "loop" /\ put_ptr' = inc(put_ptr)
          /\ get_ptr' = IF full THEN inc(get_ptr) ELSE get_ptr
      BY <1>8 DEF put, put_clobber, InLoop, Store
    <2>2. PICK k \in 0 .. Capacity : put_ptr = At(get_ptr, k)
      BY <1>7, <2>1
    <2>3. /\ full <=> k = Capacity
          /\ inc(put_ptr) = At(get_ptr, k + 1) /\ inc(put_ptr) = At(inc(get_ptr), k)
      BY <1>7, <2>1, <2>2, HeldAt DEF full
    <2>4. CASE full
      BY <2>1, <2>3, <2>4 DEF HeldInv
    <2>5. CASE ~full
      <3>1. k + 1 \in 0 .. Capacity
        BY <1>1, <2>3, <2>5
      <3> QED BY <2>1, <2>3, <2>5, <3>1 DEF HeldInv
    <2> QED BY <2>4, <2>5
  <1>9. ASSUME NEW t \in Threads, get(t) PROVE HeldInv'
    <2>1. pc[t] = "loop" /\ put_ptr' = put_ptr /\ get_ptr' = inc(get_ptr) /\ get_ptr # put_ptr
      BY <1>9 DEF get, InLoop, empty
    <2>2. PICK k \in 0 .. Capacity : put_ptr = At(get_ptr, k)
      BY <1>7, <2>1
    <2>3. (get_ptr = put_ptr <=> k = 0) /\ (k > 0 => put_ptr = At(inc(get_ptr), k - 1))
      BY <1>7, <2>1, <2>2, HeldAt
    <2>4. k > 0 /\ k - 1 \in 0 .. Capacity
      BY <1>1, <2>1, <2>3
    <2> QED BY <2>1, <2>3, <2>4 DEF HeldInv
  <1>10. CASE UNCHANGED vars
    BY <1>3, <1>10 DEF vars
  <1> QED BY <1>4, <1>5, <1>6, <1>8, <1>9, <1>10 DEF Next, Critical

(* So it is from ringbuf_init on.                                          *)
LEMMA HeldInvariant ==
  ASSUME Placed
  PROVE  Spec => []HeldInv
  <1>1. Init => HeldInv
    BY DEF Init, HeldInv
  <1>2. LockInv /\ HeldInv /\ [Next]_vars => HeldInv'
    BY HeldStep
  <1> QED BY <1>1, <1>2, LockInvariant, PTL DEF Spec

------------------------------------------------------------------------------
(* The event flag.                                                         *)

(* Storing a byte, dropping the oldest one first if the ring is full,      *)
(* always leaves the ring non-empty.                                       *)
LEMMA StoreFills ==
  ASSUME Placed, get_ptr \in Addr, put_ptr \in Addr,
         NEW k \in 0 .. Capacity, put_ptr = At(get_ptr, k),
         put_ptr' = inc(put_ptr),
         get_ptr' = IF full THEN inc(get_ptr) ELSE get_ptr
  PROVE  ~empty'
  <1>1. Capacity \in Nat /\ Capacity >= 1
    BY CapacityOnly, RingBufAssumption
  <1>2. /\ full <=> k = Capacity
        /\ inc(put_ptr) = At(get_ptr, k + 1) /\ inc(put_ptr) = At(inc(get_ptr), k)
        /\ inc(get_ptr) \in Addr /\ inc(put_ptr) \in Addr
    BY HeldAt DEF full
  <1>3. CASE full
    <2>1. inc(get_ptr) = inc(put_ptr) <=> k = 0
      BY <1>2, HeldAt
    <2> QED BY <1>1, <1>2, <1>3, <2>1 DEF empty
  <1>4. CASE ~full
    <2>1. PICK j \in 0 .. Capacity : j = k + 1 /\ j # 0
      BY <1>1, <1>2, <1>4
    <2>2. get_ptr = inc(put_ptr) <=> j = 0
      BY <1>2, <2>1, HeldAt
    <2> QED BY <1>4, <2>1, <2>2 DEF empty
  <1> QED BY <1>3, <1>4


Flagged == evf = RINGBUF_EVF_NON_EMPTY

(* What the flag says at each place of a call.  A put sets the flag only   *)
(* after its loop, so inside the loop the flag may lag behind; a get clears*)
(* it only after its loop.                                                 *)
FlagInv ==
  /\ phase \in {"evf", "mtx"} => ~Flagged
  /\ phase = "ready" /\ mtx = NoThread => (Flagged <=> ~empty)
  /\ \A t \in Threads : pc[t] = "loop" /\ op[t] = "get" => (~empty => Flagged)
  /\ \A t \in Threads : pc[t] = "loop" /\ op[t] # "get" /\ n[t] = 0 => (Flagged <=> ~empty)
  /\ \A t \in Threads : pc[t] = "loop" /\ op[t] # "get" /\ n[t] > 0 => ~empty
  /\ \A t \in Threads : pc[t] = "unlock" => (Flagged <=> ~empty)
  /\ \A t \in Threads : Waiting(t) => ~Flagged
  /\ \A t \in Threads : pc[t] \in {"lock", "wait", "timedwait"} => n[t] = 0

(* Every step keeps what the flag says.                                    *)
LEMMA FlagStep ==
  ASSUME Placed, LockInv, HeldInv, FlagInv, [Next]_vars
  PROVE  FlagInv'
  <1> USE DEF initVars, ringVars, callVars
  <1>1. MutualExclusion /\ CallsWhileReady
    BY DEF LockInv
  <1>2. pc \in [Threads -> {"idle", "wait", "timedwait", "lock", "loop", "unlock"}]
    BY DEF LockInv, TypeOK
  <1>3. op \in [Threads -> Op] /\ n \in [Threads -> Nat] /\ size \in [Threads -> Nat]
    BY DEF LockInv, TypeOK
  <1>4. NoThread \notin Threads
    BY RingBufAssumption
  <1>5. phase = "ready" => get_ptr \in Addr /\ put_ptr \in Addr
    BY DEF LockInv, TypeOK
  <1>6. CASE InitOrTerm
    <2>1. pc' = pc /\ op' = op /\ n' = n /\ mtx' = mtx
      BY <1>6 DEF InitOrTerm, CreateEventFlag, CreateMutex, AllocMemBlock, ringbuf_term
    <2>2. \A t \in Threads : pc[t] = "idle"
      BY <1>1, <1>6 DEF CallsWhileReady, InitOrTerm, CreateEventFlag, CreateMutex,
                        AllocMemBlock, ringbuf_term
    <2>3. phase' \in {"evf", "mtx"} => ~Flagged'
      BY <1>6 DEF FlagInv, InitOrTerm, CreateEventFlag, CreateMutex, AllocMemBlock,
                  ringbuf_term, Flagged, RINGBUF_EVF_NON_EMPTY
    <2>4. phase' = "ready" => ~Flagged' /\ empty'
      BY <1>6 DEF FlagInv, InitOrTerm, CreateEventFlag, CreateMutex, AllocMemBlock,
                  ringbuf_term, Flagged, empty
    <2> QED BY <2>1, <2>2, <2>3, <2>4 DEF FlagInv, Waiting
  <1>7. ASSUME NEW t \in Threads, NEW o, NEW s, NEW w \in {"lock", "wait", "timedwait"},
               Enter(t, o, s, w), w = "lock" \/ ~Flagged
        PROVE  FlagInv'
    <2>1. /\ \A u \in Threads : u # t => pc'[u] = pc[u] /\ op'[u] = op[u] /\ n'[u] = n[u]
          /\ pc'[t] = w /\ n'[t] = 0
          /\ phase' = phase /\ mtx' = mtx /\ evf' = evf /\ get_ptr' = get_ptr /\ put_ptr' = put_ptr
      BY <1>2, <1>3, <1>7 DEF Enter
    <2> QED BY <1>7, <2>1 DEF FlagInv, Flagged, empty, Waiting
  <1>8. ASSUME NEW t \in Writers, WriterCall(t) PROVE FlagInv'
    BY <1>7, <1>8 DEF WriterCall, ringbuf_put, ringbuf_put_clobber, Threads
  <1>9. ASSUME NEW t \in Readers, ReaderCall(t) PROVE FlagInv'
    <2>1. PICK s \in 0 .. MaxSize :
             \/ ringbuf_get(t, s)
             \/ ringbuf_get_wait(t, s, "wait")
             \/ ringbuf_get_wait(t, s, "timedwait")
      BY <1>9 DEF ReaderCall
    <2>2. t \in Threads
      BY DEF Threads
    <2>3. CASE ringbuf_get(t, s)
      BY <2>2, <2>3, <1>7 DEF ringbuf_get
    <2>4. ASSUME NEW w \in {"wait", "timedwait"}, ringbuf_get_wait(t, s, w)
          PROVE  FlagInv'
      <3>1. CASE Flagged
        BY <3>1, <2>2, <2>4, <1>7 DEF ringbuf_get_wait, Flagged
      <3>2. CASE ~Flagged
        BY <3>2, <2>2, <2>4, <1>7 DEF ringbuf_get_wait, Flagged
      <3> QED BY <3>1, <3>2
    <2> QED BY <2>1, <2>3, <2>4
  <1>10. ASSUME NEW t \in Threads, WaitTimeout(t) PROVE FlagInv'
    <2>1. /\ \A u \in Threads : u # t => pc'[u] = pc[u] /\ op'[u] = op[u] /\ n'[u] = n[u]
          /\ pc'[t] = "idle"
          /\ phase' = phase /\ mtx' = mtx /\ evf' = evf /\ get_ptr' = get_ptr /\ put_ptr' = put_ptr
      BY <1>2, <1>3, <1>10 DEF WaitTimeout, Leave
    <2> QED BY <2>1 DEF FlagInv, Flagged, empty, Waiting
  <1>11. ASSUME NEW t \in Threads, LockMutex(t) PROVE FlagInv'
    <2>1. /\ \A u \in Threads : u # t => pc'[u] = pc[u]
          /\ pc'[t] = "loop" /\ pc[t] = "lock" /\ mtx = NoThread /\ mtx' = t
          /\ op' = op /\ n' = n
          /\ phase' = phase /\ evf' = evf /\ get_ptr' = get_ptr /\ put_ptr' = put_ptr
      BY <1>2, <1>3, <1>11 DEF LockMutex
    <2>2. phase = "ready"
      BY <2>1, <1>1 DEF CallsWhileReady
    <2> QED BY <1>3, <1>4, <2>1, <2>2 DEF FlagInv, Flagged, empty, Waiting
  <1>12. ASSUME NEW t \in Threads, UnlockMutex(t) PROVE FlagInv'
    <2>1. /\ \A u \in Threads : u # t => pc'[u] = pc[u] /\ op'[u] = op[u] /\ n'[u] = n[u]
          /\ pc'[t] = "idle" /\ pc[t] = "unlock"
          /\ phase' = phase /\ evf' = evf /\ get_ptr' = get_ptr /\ put_ptr' = put_ptr
      BY <1>2, <1>3, <1>12 DEF UnlockMutex, Leave
    <2> QED BY <2>1 DEF FlagInv, Flagged, empty, Waiting
  <1>13. ASSUME NEW t \in Threads, pc[t] = "loop"
         PROVE  /\ phase = "ready" /\ mtx = t
                /\ \A u \in Threads : u # t => pc[u] \notin {"loop", "unlock"}
    BY <1>13, <1>1 DEF CallsWhileReady, MutualExclusion
  <1>14. ASSUME NEW t \in Threads, NEW b \in Byte, put(t, b) \/ put_clobber(t, b)
         PROVE  FlagInv'
    <2>1. pc[t] = "loop" /\ op[t] # "get"
      BY <1>14 DEF put, put_clobber, InLoop
    <2>2. /\ put_ptr' = inc(put_ptr)
          /\ get_ptr' = IF full THEN inc(get_ptr) ELSE get_ptr
      BY <1>14 DEF put, put_clobber, Store
    <2>3. ~empty'
      BY <2>1, <2>2, <1>5, <1>13, StoreFills DEF HeldInv
    <2>4. /\ \A u \in Threads : u # t => n'[u] = n[u]
          /\ n'[t] > 0
          /\ pc' = pc /\ op' = op /\ phase' = phase /\ evf' = evf /\ mtx' = mtx
      BY <1>3, <1>14 DEF put, put_clobber, Count
    <2> QED BY <1>4, <2>1, <1>13, <2>3, <2>4 DEF FlagInv, Flagged, Waiting
  <1>15. ASSUME NEW t \in Threads, get(t) PROVE FlagInv'
    <2>1. pc[t] = "loop" /\ op[t] = "get" /\ ~empty
      BY <1>15 DEF get, InLoop
    <2>2. /\ \A u \in Threads : u # t => n'[u] = n[u]
          /\ pc' = pc /\ op' = op /\ phase' = phase /\ evf' = evf /\ mtx' = mtx
      BY <1>3, <1>15 DEF get, Count
    <2>3. Flagged
      BY <2>1 DEF FlagInv
    <2> QED BY <1>4, <2>1, <1>13, <2>2, <2>3 DEF FlagInv, Flagged, Waiting
  <1>16. ASSUME NEW t \in Threads, SetEventFlag(t) PROVE FlagInv'
    <2>1. pc[t] = "loop" /\ op[t] # "get"
      BY <1>16 DEF SetEventFlag, LoopEnds
    <2>2. /\ op' = op /\ n' = n /\ phase' = phase /\ mtx' = mtx
          /\ get_ptr' = get_ptr /\ put_ptr' = put_ptr
      BY <1>16 DEF SetEventFlag
    <2>3. CASE n[t] > 0
      <3>1. /\ Flagged' /\ ~empty
            /\ pc'[t] = "unlock"
            /\ \A u \in Threads : u # t => pc'[u] = IF Waiting(u) THEN "lock" ELSE pc[u]
        BY <1>16, <2>1, <2>3 DEF SetEventFlag, Flagged, FlagInv
      <3>2. \A u \in Threads : Waiting(u) => n[u] = 0
        BY DEF FlagInv, Waiting
      <3> QED BY <1>4, <1>13, <2>1, <2>2, <3>1, <3>2 DEF FlagInv, Waiting, empty
    <2>4. CASE n[t] = 0
      <3>1. /\ Flagged <=> ~empty
            /\ evf' = evf
            /\ pc'[t] = "unlock"
            /\ \A u \in Threads : u # t => pc'[u] = pc[u]
        BY <1>16, <2>1, <2>4 DEF SetEventFlag, FlagInv
      <3> QED BY <1>4, <1>13, <2>1, <2>2, <3>1 DEF FlagInv, Waiting, empty, Flagged
    <2> QED BY <2>3, <2>4, <1>3
  <1>17. ASSUME NEW t \in Threads, ClearEventFlag(t) PROVE FlagInv'
    <2>1. pc[t] = "loop" /\ op[t] = "get"
      BY <1>17 DEF ClearEventFlag, LoopEnds
    <2>2. /\ op' = op /\ n' = n /\ phase' = phase /\ mtx' = mtx
          /\ get_ptr' = get_ptr /\ put_ptr' = put_ptr
          /\ pc'[t] = "unlock"
          /\ \A u \in Threads : u # t => pc'[u] = pc[u]
      BY <1>2, <1>17 DEF ClearEventFlag
    <2>3. Flagged' <=> ~empty
      BY <1>17, <2>1 DEF ClearEventFlag, FlagInv, Flagged, RINGBUF_EVF_NON_EMPTY
    <2>4. Flagged' => Flagged
      BY <1>17 DEF ClearEventFlag, Flagged, RINGBUF_EVF_NON_EMPTY
    <2> QED BY <1>4, <1>13, <2>1, <2>2, <2>3, <2>4 DEF FlagInv, Waiting, empty
  <1>18. CASE UNCHANGED vars
    BY <1>18 DEF vars, FlagInv, Flagged, empty, Waiting
  <1> QED BY <1>6, <1>8, <1>9, <1>10, <1>11, <1>12, <1>14, <1>15, <1>16, <1>17, <1>18
          DEF Next, Critical

(* The flag invariant is inductive together with the lock invariant.       *)
LEMMA FlagInvariant ==
  ASSUME Placed
  PROVE  Spec => [](LockInv /\ HeldInv /\ FlagInv)
  <1>1. Init => FlagInv
    BY DEF Init, FlagInv, Flagged, Waiting, RINGBUF_EVF_NON_EMPTY
  <1>2. LockInv /\ HeldInv /\ FlagInv /\ [Next]_vars => FlagInv'
    BY FlagStep
  <1> QED BY <1>1, <1>2, LockInvariant, HeldInvariant, PTL DEF Spec

(* In every block in which the ring can fill up, whenever no call is       *)
(* inside the mutex the event flag of ringbuf.c is set exactly when there  *)
(* is a byte to read.                                                      *)
THEOREM FlagCorrect ==
  ASSUME Placed
  PROVE  Spec => []FlagTracksContents
  <1>1. LockInv /\ FlagInv => FlagTracksContents
    BY DEF FlagInv, FlagTracksContents, Flagged
  <1> QED BY <1>1, FlagInvariant, PTL

(* Nor does any thread sleep in ringbuf_get_wait on a ring that holds      *)
(* bytes: the test of the flag outside the mutex loses no wakeup.          *)
THEOREM WakeupCorrect ==
  ASSUME Placed
  PROVE  Spec => []NoLostWakeup
  <1>1. LockInv /\ FlagInv => NoLostWakeup
    BY DEF LockInv, FlagInv, CallsWhileReady, NoLostWakeup, Waiting
  <1> QED BY <1>1, FlagInvariant, PTL

------------------------------------------------------------------------------
(* The ring as a queue: the bytes in the slots from get_ptr to put_ptr.    *)

Dist(g, p) == CHOOSE k \in 0 .. (BufLen - 1) : At(g, k) = p
Bytes(m, g, p) == [i \in 1 .. Dist(g, p) |-> m[At(g, i - 1)]]

(* There is one number of slots between two pointers.                      *)
LEMMA DistAt ==
  ASSUME Placed, NEW g \in Addr, NEW k \in 0 .. (BufLen - 1)
  PROVE  Dist(g, At(g, k)) = k
  <1> DEFINE P(j) == At(g, j) = At(g, k)
  <1>1. \A j \in 0 .. (BufLen - 1) : P(j) => j = k
    BY AtInjective
  <1>2. P(k)
    OBVIOUS
  <1> HIDE DEF P
  <1>3. (CHOOSE j \in 0 .. (BufLen - 1) : P(j)) = k
    BY <1>1, <1>2
  <1> QED BY <1>3 DEF P, Dist

(* The bytes are a sequence.                                               *)
LEMMA BytesSeq ==
  ASSUME Placed, NEW m \in [Addr -> Byte], NEW g \in Addr,
         NEW k \in 0 .. (BufLen - 1), NEW p, p = At(g, k)
  PROVE  /\ Bytes(m, g, p) \in Seq(Byte)
         /\ Len(Bytes(m, g, p)) = k
         /\ \A i \in 1 .. k : Bytes(m, g, p)[i] = m[At(g, i - 1)]
  <1> DEFINE q == Bytes(m, g, p)
  <1>1. k \in Nat /\ Dist(g, p) = k
    BY DistAt, RingBufAssumption
  <1>2. \A i \in 1 .. k : At(g, i - 1) \in Addr
    <2>1. ASSUME NEW i \in 1 .. k PROVE At(g, i - 1) \in Addr
      <3>1. PICK j \in Nat : j = i - 1
        BY <1>1
      <3>2. At(g, j) \in Addr
        BY AtSame
      <3> QED BY <3>1, <3>2
    <2> QED BY <2>1
  <1>3. q = [i \in 1 .. k |-> m[At(g, i - 1)]]
    BY <1>1 DEF Bytes
  <1>4. q \in [1 .. k -> Byte]
    BY <1>2, <1>3
  <1> HIDE DEF q
  <1>5. q \in Seq(Byte)
    BY <1>1, <1>4, SeqDef
  <1>6. Len(q) \in Nat /\ DOMAIN q = 1 .. Len(q)
    BY <1>5, LenProperties
  <1>7. 1 .. k = 1 .. Len(q)
    BY <1>4, <1>6
  <1>8. Len(q) = k
    <2>1. k \in 1 .. k <=> k \in 1 .. Len(q)
      BY <1>7, Zenon
    <2>2. Len(q) \in 1 .. k <=> Len(q) \in 1 .. Len(q)
      BY <1>7, Zenon
    <2>3. PICK l : l = Len(q)
      OBVIOUS
    <2>4. l \in Nat /\ (k \in 1 .. k <=> k \in 1 .. l) /\ (l \in 1 .. k <=> l \in 1 .. l)
      BY <1>6, <2>1, <2>2, <2>3, Zenon
    <2>5. l = k
      BY <1>1, <2>4
    <2> QED BY <2>3, <2>5
  <1>9. \A i \in 1 .. k : q[i] = m[At(g, i - 1)]
    BY <1>3
  <1> QED BY <1>5, <1>8, <1>9 DEF q

(* A byte stored in a ring that is not full is the last of the queue.      *)
LEMMA BytesAppend ==
  ASSUME Placed, NEW m \in [Addr -> Byte], NEW g \in Addr, NEW p \in Addr,
         NEW b \in Byte, NEW k \in 0 .. Capacity, k # Capacity, p = At(g, k)
  PROVE  Bytes([m EXCEPT ![p] = b], g, inc(p)) = Append(Bytes(m, g, p), b)
  <1> DEFINE m2 == [m EXCEPT ![p] = b]
             q == Bytes(m, g, p)
             r == Bytes(m2, g, inc(p))
             a == Append(q, b)
  <1>1. /\ BufLen \in Nat /\ Capacity \in 1 .. (BufLen - 1) /\ k \in Nat
        /\ k \in 0 .. (BufLen - 1)
    BY CapacityOnly, RingBufAssumption
  <1>2. PICK j \in 0 .. (BufLen - 1) : j = k + 1
    BY <1>1
  <1>3. inc(p) = At(g, j)
    BY <1>2, HeldAt
  <1>4. \A i \in 1 .. k : At(g, i - 1) \in Addr /\ At(g, i - 1) # p
    <2>1. ASSUME NEW i \in 1 .. k PROVE At(g, i - 1) \in Addr /\ At(g, i - 1) # p
      <3>1. PICK h \in 0 .. (BufLen - 1) : h = i - 1 /\ h # k /\ h \in Nat
        BY <1>1
      <3>2. At(g, h) \in Addr /\ At(g, h) # At(g, k)
        BY <1>1, <3>1, AtSame, AtInjective
      <3> QED BY <3>1, <3>2
    <2> QED BY <2>1
  <1>5. m2 \in [Addr -> Byte] /\ m2[p] = b /\ \A x \in Addr : x # p => m2[x] = m[x]
    OBVIOUS
  <1> HIDE DEF m2
  <1>6. /\ q \in Seq(Byte) /\ Len(q) = k
        /\ \A i \in 1 .. k : q[i] = m[At(g, i - 1)]
    <2>1. PICK i \in 0 .. (BufLen - 1) : i = k
      BY <1>1
    <2>2. p = At(g, i)
      BY <2>1
    <2> QED BY <2>1, <2>2, BytesSeq
  <1>7. /\ r \in Seq(Byte) /\ Len(r) = j
        /\ \A i \in 1 .. j : r[i] = m2[At(g, i - 1)]
    BY <1>3, <1>5, BytesSeq
  <1> HIDE DEF q, r
  <1>8. /\ a \in Seq(Byte) /\ Len(a) = Len(q) + 1
        /\ \A i \in 1 .. Len(q) : a[i] = q[i]
        /\ a[Len(q) + 1] = b
    BY <1>6, AppendProperties
  <1> HIDE DEF a
  <1>9. ASSUME NEW i \in 1 .. Len(r) PROVE r[i] = a[i]
    <2>1. i \in 1 .. j /\ r[i] = m2[At(g, i - 1)]
      BY <1>7, <1>9
    <2>2. CASE i \in 1 .. k
      BY <1>4, <1>5, <1>6, <1>8, <2>1, <2>2
    <2>3. CASE i = k + 1
      <3>1. i - 1 = k
        BY <1>1, <2>3
      <3>2. r[i] = b
        BY <1>5, <2>1, <3>1
      <3> QED BY <1>6, <1>8, <2>3, <3>2
    <2> QED BY <1>1, <1>2, <2>1, <2>2, <2>3
  <1>10. Len(r) = Len(a)
    BY <1>2, <1>6, <1>7, <1>8
  <1>11. r = a
    BY <1>7, <1>8, <1>9, <1>10, SeqEqual
  <1> QED BY <1>11 DEF r, a, q, m2

(* The byte at get_ptr is the first of the queue.                          *)
LEMMA BytesTail ==
  ASSUME Placed, NEW m \in [Addr -> Byte], NEW g \in Addr, NEW p \in Addr,
         NEW k \in 1 .. Capacity, p = At(g, k)
  PROVE  /\ Bytes(m, g, p) # <<>>
         /\ Head(Bytes(m, g, p)) = m[g]
         /\ Tail(Bytes(m, g, p)) = Bytes(m, inc(g), p)
  <1> DEFINE q == Bytes(m, g, p)
             r == Bytes(m, inc(g), p)
             u == Tail(q)
  <1>1. /\ BufLen \in Nat /\ Capacity \in 1 .. (BufLen - 1) /\ k \in Nat
        /\ k \in 0 .. (BufLen - 1) /\ k \in 0 .. Capacity
    BY CapacityOnly, RingBufAssumption
  <1>2. PICK j \in 0 .. (BufLen - 1) : j = k - 1
    BY <1>1
  <1>3. inc(g) \in Addr /\ p = At(inc(g), j)
    BY <1>1, <1>2, HeldAt
  <1>4. \A i \in 1 .. j : At(inc(g), i - 1) = At(g, i)
    <2>1. ASSUME NEW i \in 1 .. j PROVE At(inc(g), i - 1) = At(g, i)
      <3>1. PICK h \in Nat : h = i - 1 /\ 1 + h = i
        BY <1>1, <1>2
      <3>2. At(At(g, 1), h) = At(g, 1 + h)
        BY AtAt
      <3> QED BY <3>1, <3>2, IncAt
    <2> QED BY <2>1
  <1>5. /\ q \in Seq(Byte) /\ Len(q) = k
        /\ \A i \in 1 .. k : q[i] = m[At(g, i - 1)]
    <2>1. PICK i \in 0 .. (BufLen - 1) : i = k
      BY <1>1
    <2>2. p = At(g, i)
      BY <2>1
    <2> QED BY <2>1, <2>2, BytesSeq
  <1>6. /\ r \in Seq(Byte) /\ Len(r) = j
        /\ \A i \in 1 .. j : r[i] = m[At(inc(g), i - 1)]
    BY <1>3, BytesSeq
  <1> HIDE DEF q, r
  <1>7. q # <<>>
    BY <1>1, <1>5, EmptySeq
  <1>8. /\ u \in Seq(Byte) /\ Len(u) = Len(q) - 1
        /\ \A i \in 1 .. Len(u) : u[i] = q[i + 1]
    BY <1>5, <1>7, HeadTailProperties
  <1>9. Head(q) = m[g]
    <2>1. Head(q) = q[1]
      BY <1>5, <1>7
    <2>2. 1 \in 1 .. k /\ 1 - 1 = 0
      BY <1>1
    <2>3. q[1] = m[At(g, 0)]
      BY <1>5, <2>2
    <2> QED BY <2>1, <2>3, AtZero
  <1> HIDE DEF u
  <1>10. Len(u) = Len(r)
    BY <1>2, <1>5, <1>6, <1>8
  <1>11. ASSUME NEW i \in 1 .. Len(u) PROVE u[i] = r[i]
    <2>1. i \in 1 .. j /\ i + 1 \in 1 .. k /\ (i + 1) - 1 = i
      BY <1>1, <1>2, <1>5, <1>8
    <2>2. u[i] = m[At(g, (i + 1) - 1)]
      BY <1>5, <1>8, <1>11, <2>1
    <2>3. r[i] = m[At(g, i)]
      BY <1>4, <1>6, <2>1
    <2> QED BY <2>1, <2>2, <2>3
  <1>12. u = r
    BY <1>6, <1>8, <1>10, <1>11, SeqEqual
  <1> QED BY <1>7, <1>9, <1>12 DEF u, q, r

(* A byte stored in a full ring takes the place of the oldest.             *)
LEMMA BytesClobber ==
  ASSUME Placed, NEW m \in [Addr -> Byte], NEW g \in Addr, NEW p \in Addr,
         NEW b \in Byte, p = At(g, Capacity)
  PROVE  Bytes([m EXCEPT ![p] = b], inc(g), inc(p)) = Append(Tail(Bytes(m, g, p)), b)
  <1>1. PICK k \in 1 .. Capacity : k = Capacity
    BY CapacityOnly, RingBufAssumption
  <1>2. PICK j \in 0 .. Capacity : j = k - 1 /\ j # Capacity /\ k > 0 /\ k \in 0 .. Capacity
    BY <1>1, CapacityOnly, RingBufAssumption
  <1>3. inc(g) \in Addr /\ p = At(inc(g), j)
    BY <1>1, <1>2, HeldAt
  <1>4. Tail(Bytes(m, g, p)) = Bytes(m, inc(g), p)
    BY <1>1, BytesTail
  <1>5. Bytes([m EXCEPT ![p] = b], inc(g), inc(p)) = Append(Bytes(m, inc(g), p), b)
    BY <1>2, <1>3, BytesAppend
  <1> QED BY <1>4, <1>5

------------------------------------------------------------------------------
(* ringbuf.c implements LogFifo.                                           *)

Fifo == INSTANCE LogFifo WITH open <- (phase = "ready"), q <- Queue

Contents == IF phase = "ready" THEN Bytes(mem, get_ptr, put_ptr) ELSE <<>>

QueueInv == Queue = Contents

(* The queue is what lies between the pointers.                            *)
LEMMA QueueIsContents == QueueInv
  <1> SUFFICES Queue = Contents
    BY DEF QueueInv
  <1>1. CASE phase = "ready"
    <2>1. Held = Dist(get_ptr, put_ptr)
      BY <1>1 DEF Held, Slot, Dist, At
    <2> QED BY <1>1, <2>1 DEF Queue, Contents, Bytes, Slot, At
  <1>2. CASE phase # "ready"
    <2>1. Held = 0
      BY <1>2 DEF Held
    <2>2. Queue = <<>>
      BY <2>1 DEF Queue
    <2> QED BY <1>2, <2>2 DEF Contents
  <1> QED BY <1>1, <1>2

(* A ring whose pointers meet is empty.                                    *)
LEMMA BytesEmpty ==
  ASSUME Placed, NEW m \in [Addr -> Byte], NEW g \in Addr
  PROVE  Bytes(m, g, g) = <<>>
  <1>1. Dist(g, g) = 0
    <2>1. 0 \in 0 .. (BufLen - 1)
      BY RingBufAssumption
    <2>2. Dist(g, At(g, 0)) = 0
      BY <2>1, DistAt
    <2> QED BY <2>2, AtZero
  <1> QED BY <1>1 DEF Bytes


(* Every step of ringbuf.c is one of the queue, or none.                   *)
LEMMA FifoStep ==
  ASSUME Placed, LockInv, HeldInv, QueueInv, QueueInv', [Next]_vars
  PROVE  [Fifo!Next]_(Fifo!fifoVars)
  <1> USE DEF initVars, ringVars, callVars
  <1>0. Queue = Contents /\ Queue' = Contents'
    BY DEF QueueInv
  <1>1. TypeOK /\ CallsWhileReady
    BY DEF LockInv
  <1>2. mem \in [Addr -> Byte] /\ (phase = "ready" => get_ptr \in Addr /\ put_ptr \in Addr)
    BY <1>1 DEF TypeOK
  <1>3. CASE UNCHANGED <<phase, mem, get_ptr, put_ptr, dst>>
    <2>1. Contents' = Contents
      BY <1>3 DEF Contents, Bytes, Dist, At
    <2> QED BY <1>0, <1>3, <2>1 DEF Fifo!fifoVars
  <1>4. CASE InitOrTerm
    <2>1. CASE phase # "ready" /\ phase' # "ready" /\ dst' = dst
      BY <1>0, <2>1 DEF Contents, Fifo!fifoVars
    <2>2. CASE phase # "ready" /\ phase' = "ready" /\ dst' = dst
               /\ get_ptr' = Base /\ put_ptr' = Base /\ mem' = mem
      <3>1. Base \in Addr
        BY RingBufAssumption DEF Addr
      <3>2. Contents' = <<>>
        BY <1>2, <2>2, <3>1, BytesEmpty DEF Contents
      <3>3. Fifo!OpenOrClose
        BY <1>0, <2>2, <3>2 DEF Fifo!OpenOrClose
      <3> QED BY <3>3 DEF Fifo!Next
    <2>3. CASE phase = "ready" /\ phase' # "ready" /\ dst' = dst
      <3>1. Fifo!OpenOrClose
        BY <1>0, <2>3 DEF Fifo!OpenOrClose, Contents
      <3> QED BY <3>1 DEF Fifo!Next
    <2> QED BY <1>4, <2>1, <2>2, <2>3
            DEF InitOrTerm, CreateEventFlag, CreateMutex, AllocMemBlock, ringbuf_term
  <1>5. ASSUME NEW t \in Writers, WriterCall(t) PROVE [Fifo!Next]_(Fifo!fifoVars)
    BY <1>3, <1>5 DEF WriterCall, ringbuf_put, ringbuf_put_clobber, Enter
  <1>6. ASSUME NEW t \in Readers, ReaderCall(t) PROVE [Fifo!Next]_(Fifo!fifoVars)
    <2>1. UNCHANGED <<phase, mem, get_ptr, put_ptr>> /\ dst' = [dst EXCEPT ![t] = <<>>]
      BY <1>6 DEF ReaderCall, ringbuf_get, ringbuf_get_wait, Enter
    <2>2. Contents' = Contents
      BY <2>1 DEF Contents, Bytes, Dist, At
    <2>3. Fifo!StartRead(t)
      BY <1>0, <2>1, <2>2 DEF Fifo!StartRead
    <2> QED BY <2>3 DEF Fifo!Next, Threads
  <1>7. ASSUME NEW t \in Threads, WaitTimeout(t) \/ LockMutex(t) \/ UnlockMutex(t)
                                 \/ SetEventFlag(t) \/ ClearEventFlag(t)
        PROVE  [Fifo!Next]_(Fifo!fifoVars)
    BY <1>3, <1>7 DEF WaitTimeout, LockMutex, UnlockMutex, SetEventFlag, ClearEventFlag, Leave
  <1>8. ASSUME NEW t \in Threads, InLoop(t, op[t])
        PROVE  /\ phase = "ready" /\ get_ptr \in Addr /\ put_ptr \in Addr
               /\ Queue = Bytes(mem, get_ptr, put_ptr)
               /\ \E k \in 0 .. Capacity : put_ptr = At(get_ptr, k) /\ Len(Queue) = k
    <2>1. phase = "ready"
      BY <1>1, <1>8 DEF CallsWhileReady, InLoop
    <2>2. PICK k \in 0 .. Capacity : put_ptr = At(get_ptr, k)
      BY <2>1 DEF HeldInv
    <2>3. k \in 0 .. (BufLen - 1)
      BY CapacityOnly, RingBufAssumption
    <2>4. Queue = Bytes(mem, get_ptr, put_ptr)
      BY <1>0, <2>1 DEF Contents
    <2>5. Len(Queue) = k
      BY <1>2, <2>1, <2>2, <2>3, <2>4, BytesSeq
    <2> QED BY <1>2, <2>1, <2>2, <2>4, <2>5
  <1>9. ASSUME NEW t \in Threads, NEW b \in Byte, put(t, b) \/ put_clobber(t, b)
        PROVE  [Fifo!Next]_(Fifo!fifoVars)
    <2>1. /\ phase' = phase /\ dst' = dst
          /\ mem' = [mem EXCEPT ![put_ptr] = b] /\ put_ptr' = inc(put_ptr)
          /\ get_ptr' = IF full THEN inc(get_ptr) ELSE get_ptr
      BY <1>9 DEF put, put_clobber, Store
    <2>2. InLoop(t, op[t])
      BY <1>9 DEF put, put_clobber, InLoop
    <2>3. PICK k \in 0 .. Capacity : put_ptr = At(get_ptr, k) /\ Len(Queue) = k
      BY <1>8, <2>2
    <2>4. /\ phase = "ready" /\ get_ptr \in Addr /\ put_ptr \in Addr
          /\ Queue = Bytes(mem, get_ptr, put_ptr) /\ (full <=> k = Capacity)
      BY <1>8, <2>2, <2>3, HeldAt DEF full
    <2>5. Len(Queue) < Capacity <=> ~full
      BY <2>3, <2>4, CapacityOnly, RingBufAssumption
    <2>6. Queue' = Bytes([mem EXCEPT ![put_ptr] = b], get_ptr', inc(put_ptr))
      BY <1>0, <2>1, <2>4 DEF Contents
    <2>7. Queue' = Append(IF Len(Queue) < Capacity THEN Queue ELSE Tail(Queue), b)
      <3>1. CASE full
        <4>1. put_ptr = At(get_ptr, Capacity) /\ get_ptr' = inc(get_ptr)
          BY <2>1, <2>3, <2>4, <3>1
        <4>2. Bytes([mem EXCEPT ![put_ptr] = b], inc(get_ptr), inc(put_ptr))
                = Append(Tail(Bytes(mem, get_ptr, put_ptr)), b)
          BY <1>2, <2>4, <4>1, BytesClobber
        <4> QED BY <2>4, <2>5, <2>6, <3>1, <4>1, <4>2
      <3>2. CASE ~full
        <4>1. k # Capacity /\ get_ptr' = get_ptr
          BY <2>1, <2>4, <3>2
        <4>2. Bytes([mem EXCEPT ![put_ptr] = b], get_ptr, inc(put_ptr))
                = Append(Bytes(mem, get_ptr, put_ptr), b)
          BY <1>2, <2>3, <2>4, <4>1, BytesAppend
        <4> QED BY <2>4, <2>5, <2>6, <3>2, <4>1, <4>2
      <3> QED BY <3>1, <3>2
    <2>8. Fifo!Write(b)
      BY <2>1, <2>4, <2>7 DEF Fifo!Write
    <2> QED BY <2>8 DEF Fifo!Next
  <1>10. ASSUME NEW t \in Threads, get(t) PROVE [Fifo!Next]_(Fifo!fifoVars)
    <2>1. /\ get_ptr # put_ptr /\ InLoop(t, op[t])
          /\ phase' = phase /\ mem' = mem /\ put_ptr' = put_ptr /\ get_ptr' = inc(get_ptr)
          /\ dst' = [dst EXCEPT ![t] = Append(@, mem[get_ptr])]
      BY <1>10 DEF get, empty, InLoop
    <2>2. PICK k \in 0 .. Capacity : put_ptr = At(get_ptr, k)
      BY <1>8, <2>1
    <2>3. k \in 1 .. Capacity
      BY <1>8, <2>1, <2>2, HeldAt, CapacityOnly
    <2>4. Queue # <<>> /\ Head(Queue) = mem[get_ptr]
          /\ Tail(Queue) = Bytes(mem, inc(get_ptr), put_ptr)
      BY <1>2, <1>8, <2>1, <2>2, <2>3, BytesTail
    <2>5. Queue' = Tail(Queue)
      BY <1>0, <1>8, <2>1, <2>4 DEF Contents
    <2>6. Fifo!Read(t)
      BY <1>8, <2>1, <2>4, <2>5 DEF Fifo!Read
    <2> QED BY <2>6 DEF Fifo!Next
  <1>11. CASE UNCHANGED vars
    BY <1>3, <1>11 DEF vars
  <1> QED BY <1>4, <1>5, <1>6, <1>7, <1>9, <1>10, <1>11 DEF Next, Critical

(* A ring that can fill up is the drop-oldest FIFO of LogFifo with room    *)
(* for Capacity bytes: whatever threads log and read at once, no byte is   *)
(* lost but the oldest of a full ring, and none is handed out twice, out   *)
(* of order or changed.                                                    *)
THEOREM RingIsFifo ==
  ASSUME Placed
  PROVE  Spec => Fifo!Spec
  <1>1. Init => Fifo!Init
    <2> SUFFICES ASSUME Init PROVE Fifo!Init
      OBVIOUS
    <2>1. Queue = <<>>
      BY QueueIsContents DEF Init, Contents, QueueInv
    <2> QED BY <2>1 DEF Init, Fifo!Init
  <1>2. LockInv /\ HeldInv /\ QueueInv /\ QueueInv' /\ [Next]_vars
          => [Fifo!Next]_(Fifo!fifoVars)
    BY FifoStep
  <1> QED BY <1>1, <1>2, QueueIsContents, LockInvariant, HeldInvariant, PTL DEF Spec, Fifo!Spec
==============================================================================
