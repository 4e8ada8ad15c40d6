--------------------------- MODULE NetThreadProofs ---------------------------
(***************************************************************************)
(* What is proved of PrincessLog's sending thread for every size of the    *)
(* ring and of the buffer and every length of the log: the safety          *)
(* properties of NetThread, from one inductive invariant.                  *)
(***************************************************************************)
EXTENDS NetThread, TLAPS

(* The larger of two numbers, as ringbuf_put_clobber uses it.              *)
LEMMA MaxPair ==
  ASSUME NEW a \in Int, NEW b \in Int
  PROVE  Max({a, b}) = IF a >= b THEN a ELSE b
  <1> DEFINE m == IF a >= b THEN a ELSE b
  <1>1. m \in {a, b} /\ \A y \in {a, b} : m >= y
    OBVIOUS
  <1>2. \A x \in {a, b} : (\A y \in {a, b} : x >= y) => x = m
    OBVIOUS
  <1> QED BY <1>1, <1>2 DEF Max

(* The smaller of two numbers, as ringbuf_get_wait uses it.                *)
LEMMA MinPair ==
  ASSUME NEW a \in Int, NEW b \in Int
  PROVE  Min({a, b}) = IF a <= b THEN a ELSE b
  <1> DEFINE m == IF a <= b THEN a ELSE b
  <1>1. m \in {a, b} /\ \A y \in {a, b} : m <= y
    OBVIOUS
  <1>2. \A x \in {a, b} : (\A y \in {a, b} : x <= y) => x = m
    OBVIOUS
  <1> QED BY <1>1, <1>2 DEF Min

(* buf holds bytes only while they are to be sent, and the bytes of it     *)
(* that the network already has are those of a chunk that failed.          *)
BufInv ==
  /\ pc \in {"start", "idle", "more"} => buf = {}
  /\ buf \cap handed \subseteq failed

IInv ==
  /\ TypeOK
  /\ BufInv
  /\ BytesAccountedFor
  /\ SendsInOrder
  /\ RepeatsOnlyFailedChunks
  /\ ClobberedNeverSent
  /\ SocketsBalanced

(* What a put into the ring does: the ring keeps its newest bytes.         *)
LEMMA PutClobber ==
  ASSUME TypeOK, NEW size \in Nat, ringbuf_put_clobber(size)
  PROVE  /\ put' = put + size
         /\ get' \in Nat /\ get <= get' /\ get' <= put' /\ put' - get' <= RingCap
         /\ clobbered' = clobbered \cup ((get + 1) .. get')
  <1>1. get \in Nat /\ put \in Nat /\ RingCap \in Nat /\ get <= put /\ put - get <= RingCap
    BY NetThreadAssumption DEF TypeOK
  <1>2. Max({get, put + size - RingCap})
          = IF get >= put + size - RingCap THEN get ELSE put + size - RingCap
    BY <1>1, MaxPair
  <1> QED BY <1>1, <1>2 DEF ringbuf_put_clobber

(* What a get from the ring does: it moves the oldest bytes into buf.      *)
LEMMA GetWait ==
  ASSUME TypeOK, ringbuf_get_wait
  PROVE  /\ put' = put /\ clobbered' = clobbered
         /\ get' \in Nat /\ get < get' /\ get' <= put
         /\ buf' = (get + 1) .. get'
  <1>1. get \in Nat /\ put \in Nat /\ BufLen \in Nat /\ BufLen > 0 /\ get <= put
    BY NetThreadAssumption DEF TypeOK
  <1>2. Min({BufLen, put - get}) = IF BufLen <= put - get THEN BufLen ELSE put - get
    BY <1>1, MinPair
  <1>3. get < put
    BY <1>1 DEF ringbuf_get_wait, Ring
  <1> QED BY <1>1, <1>2, <1>3 DEF ringbuf_get_wait

(* A step that only puts into the ring keeps the invariant.                *)
LEMMA PutStep ==
  ASSUME IInv, NEW size \in Nat, ringbuf_put_clobber(size),
         pc' = pc \/ (pc = "start" /\ pc' = "idle"),
         UNCHANGED <<buf, sockets, wireVars>>
  PROVE  IInv'
  <1>1. /\ put' = put + size
        /\ get' \in Nat /\ get <= get' /\ get' <= put' /\ put' - get' <= RingCap
        /\ clobbered' = clobbered \cup ((get + 1) .. get')
    BY PutClobber DEF IInv
  <1> USE DEF IInv, wireVars
  <1>2. put \in Nat /\ get \in Nat /\ get <= put
    BY DEF TypeOK
  <1>3. TypeOK'
    BY <1>1, <1>2 DEF TypeOK
  <1>4. BytesAccountedFor'
    BY <1>1, <1>2 DEF BytesAccountedFor, Ring
  <1>5. ClobberedNeverSent'
    BY <1>1, <1>2 DEF ClobberedNeverSent, TypeOK
  <1> QED BY <1>3, <1>4, <1>5 DEF BufInv, SendsInOrder, RepeatsOnlyFailedChunks, SocketsBalanced

(* Taking bytes out of the ring leaves it within its capacity.             *)
LEMMA LessHeld ==
  \A p, g, h, c \in Int : g < h /\ p - g <= c => p - h <= c
  OBVIOUS

(* A step that takes a chunk from the ring keeps the invariant.            *)
LEMMA GetStep ==
  ASSUME IInv, ringbuf_get_wait,
         \/ pc = "idle" /\ pc' = "socket"
         \/ pc = "more" /\ pc' = "send",
         UNCHANGED <<sockets, wireVars>>
  PROVE  IInv'
  <1>1. /\ put' = put /\ clobbered' = clobbered
        /\ get' \in Nat /\ get < get' /\ get' <= put
        /\ buf' = (get + 1) .. get'
    BY GetWait DEF IInv
  <1> USE DEF IInv, wireVars
  <1>2. put \in Nat /\ get \in Nat /\ get <= put /\ buf = {}
    BY DEF TypeOK, BufInv
  <1>3. TypeOK'
    <2>1. 1 .. get \subseteq 1 .. get' /\ (get + 1) .. get' \subseteq 1 .. get'
      BY <1>1, <1>2
    <2>2. get' <= put' /\ put' - get' <= RingCap
      <3>1. put - get <= RingCap /\ RingCap \in Nat
        BY NetThreadAssumption DEF TypeOK
      <3>2. put' = put /\ get' \in Nat /\ get < get' /\ get' <= put
        BY <1>1
      <3>3. put \in Nat /\ get \in Nat
        BY <1>2
      <3>4. get' <= put'
        BY <3>2
      <3>5. put - get' <= RingCap
        <4>1. put \in Int /\ get \in Int /\ get' \in Int /\ RingCap \in Int
          BY <3>1, <3>2, <3>3
        <4> QED BY ONLY <3>1, <3>2, <4>1, LessHeld, Zenon
      <3> QED BY <3>2, <3>4, <3>5
    <2>3. /\ buf' \subseteq 1 .. get' /\ handed' \subseteq 1 .. get'
          /\ failed' \subseteq 1 .. get' /\ cut' \subseteq 1 .. get'
          /\ clobbered' \subseteq 1 .. get'
          /\ wire' \subseteq handed' /\ twice' \subseteq handed'
      BY <1>1, <2>1 DEF TypeOK
    <2> QED BY <1>1, <2>2, <2>3 DEF TypeOK
  <1>4. BytesAccountedFor'
    <2>1. Ring = Ring' \cup buf'
      BY <1>1, <1>2 DEF Ring
    <2> QED BY <1>1, <1>2, <2>1 DEF BytesAccountedFor
  <1>5. BufInv' /\ SendsInOrder' /\ ClobberedNeverSent'
    BY <1>1, <1>2 DEF BufInv, SendsInOrder, ClobberedNeverSent, TypeOK
  <1> QED BY <1>3, <1>4, <1>5 DEF RepeatsOnlyFailedChunks, SocketsBalanced

(* A send, whatever its result, keeps the invariant.                       *)
LEMMA SendStep ==
  ASSUME IInv, NEW k \in buf \cup {0}, Send(k) \/ SendError(k)
  PROVE  IInv'
  <1> DEFINE part == {i \in buf : i <= k}
             rest == {i \in buf : i > k}
  <1> USE DEF IInv, ringVars
  <1>1. /\ pc = "send" /\ sockets = 1
        /\ put' = put /\ get' = get /\ clobbered' = clobbered
        /\ wire' = wire \cup part
        /\ handed' = handed \cup part
        /\ twice' = twice \cup (part \cap handed)
    BY DEF Send, SendError, Accept, SocketsBalanced
  <1>2. \/ buf' = {} /\ cut' = cut \cup rest /\ failed' = failed
           /\ pc' = "more" /\ sockets' = sockets
        \/ buf' = buf /\ cut' = cut /\ failed' = failed \cup buf
           /\ pc' = "socket" /\ sockets' = sockets - 1
    BY DEF Send, SendError
  <1>3. buf = part \cup rest /\ part \subseteq buf /\ rest \subseteq buf
    <2>1. buf \subseteq Int /\ k \in Int
      BY DEF TypeOK
    <2>2. \A i \in Int : i <= k \/ i > k
      BY <2>1
    <2> QED BY <2>1, <2>2
  <1> HIDE DEF part, rest
  <1>4. TypeOK'
    <2>1. sockets' \in Nat /\ pc' \in {"more", "socket"}
      BY <1>1, <1>2
    <2>2. /\ buf' \subseteq 1 .. get /\ handed' \subseteq 1 .. get
          /\ failed' \subseteq 1 .. get /\ cut' \subseteq 1 .. get
          /\ wire' \subseteq handed' /\ twice' \subseteq handed'
      <3> DEFINE Left == 1 .. get
      <3>1. /\ buf \subseteq Left /\ handed \subseteq Left
            /\ failed \subseteq Left /\ cut \subseteq Left
            /\ wire \subseteq handed /\ twice \subseteq handed
        BY DEF TypeOK
      <3> HIDE DEF Left
      <3>2. /\ buf' \subseteq Left /\ handed' \subseteq Left
            /\ failed' \subseteq Left /\ cut' \subseteq Left
            /\ wire' \subseteq handed' /\ twice' \subseteq handed'
        BY <1>1, <1>2, <1>3, <3>1
      <3> QED BY <3>2 DEF Left
    <2> QED BY <1>1, <2>1, <2>2 DEF TypeOK
  <1>5. BytesAccountedFor'
    <2>1. Ring' = Ring
      BY <1>1 DEF Ring
    <2> QED BY <2>1, <1>1, <1>2, <1>3 DEF BytesAccountedFor
  <1>6. BufInv' /\ SendsInOrder' /\ SocketsBalanced'
    BY <1>1, <1>2, <1>3 DEF BufInv, SendsInOrder, SocketsBalanced
  <1>7. RepeatsOnlyFailedChunks' /\ ClobberedNeverSent'
    BY <1>1, <1>2, <1>3 DEF BufInv, RepeatsOnlyFailedChunks, ClobberedNeverSent
  <1> QED BY <1>4, <1>5, <1>6, <1>7

(* A step that only opens or closes a connection keeps the invariant.      *)
LEMMA ConnectionStep ==
  ASSUME IInv, Socket \/ Connect \/ ConnectError \/ GetTimeout
  PROVE  IInv'
  <1> USE DEF IInv, ringVars, wireVars
  <1>1. /\ put' = put /\ get' = get /\ clobbered' = clobbered /\ buf' = buf
        /\ handed' = handed /\ twice' = twice /\ failed' = failed /\ cut' = cut
        /\ wire' = wire \/ wire' = {}
    BY DEF Socket, Connect, ConnectError, GetTimeout
  <1>2. SocketsBalanced' /\ pc' \in {"start", "idle", "socket", "connect", "send", "more"}
    BY DEF Socket, Connect, ConnectError, GetTimeout, SocketsBalanced
  <1>3. sockets' \in Nat
    BY <1>2 DEF SocketsBalanced
  <1>4. TypeOK'
    BY <1>1, <1>2, <1>3 DEF TypeOK
  <1>5. BufInv' /\ SendsInOrder'
    BY <1>1 DEF BufInv, SendsInOrder, Socket, Connect, ConnectError, GetTimeout
  <1>6. BytesAccountedFor' /\ RepeatsOnlyFailedChunks' /\ ClobberedNeverSent'
    BY <1>1 DEF BytesAccountedFor, RepeatsOnlyFailedChunks, ClobberedNeverSent, Ring
  <1> QED BY <1>2, <1>4, <1>5, <1>6

(* The invariant is inductive.                                             *)
LEMMA Invariant == Spec => []IInv
  <1>1. Init => IInv
    BY NetThreadAssumption
       DEF Init, IInv, TypeOK, BufInv, BytesAccountedFor, SendsInOrder, Ring,
           RepeatsOnlyFailedChunks, ClobberedNeverSent, SocketsBalanced
  <1>2. IInv /\ [Next]_vars => IInv'
    <2> SUFFICES ASSUME IInv, [Next]_vars PROVE IInv'
      OBVIOUS
    <2>1. CASE UserDebugPrintfCallback
      BY <2>1, PutStep DEF UserDebugPrintfCallback
    <2>2. ASSUME NEW ret \in -1 .. (BufLen + 1), KernelDebugPrintfCallback(ret)
          PROVE  IInv'
      <3> DEFINE len == Min({Max({ret, 0}), BufLen - 1})
      <3>1. BufLen \in Nat \ {0} /\ ret \in Int
        BY NetThreadAssumption
      <3>2. Max({ret, 0}) = IF ret >= 0 THEN ret ELSE 0
        BY <3>1, MaxPair
      <3>3. Max({ret, 0}) \in Nat /\ BufLen - 1 \in Nat
        BY <3>1, <3>2
      <3>4. len \in Nat
        BY <3>3, MinPair
      <3>5. ringbuf_put_clobber(len) /\ UNCHANGED <<pc, buf, sockets, wireVars>>
        BY <2>2 DEF KernelDebugPrintfCallback
      <3> HIDE DEF len
      <3> QED BY <3>4, <3>5, PutStep
    <2>3. CASE StartThread
      BY <2>3, PutStep, NetThreadAssumption DEF StartThread
    <2>4. CASE GetFirst \/ GetMore
      BY <2>4, GetStep DEF GetFirst, GetMore
    <2>5. CASE Socket \/ Connect \/ ConnectError \/ GetTimeout
      BY <2>5, ConnectionStep
    <2>6. CASE SendSome \/ SendFails
      BY <2>6, SendStep DEF SendSome, SendFails
    <2>7. CASE UNCHANGED vars
      BY <2>7 DEF vars, IInv, TypeOK, BufInv, BytesAccountedFor, SendsInOrder, Ring,
                  RepeatsOnlyFailedChunks, ClobberedNeverSent, SocketsBalanced
    <2>8. CASE SocketError
      BY <2>7, <2>8 DEF SocketError
    <2> QED BY <2>1, <2>2, <2>3, <2>4, <2>5, <2>6, <2>7, <2>8 DEF Next, Callback, NetThread
  <1> QED BY <1>1, <1>2, PTL DEF Spec

(* No byte given to a printf callback vanishes, through any sequence of    *)
(* failed sockets, connections and sends, except by being overwritten in   *)
(* the full ring or by being the rest of a short send.                     *)
THEOREM Accounting == Spec => []BytesAccountedFor
  <1>1. IInv => BytesAccountedFor
    BY DEF IInv
  <1> QED BY <1>1, Invariant, PTL

(* One connection carries the log in order and without repetition.         *)
THEOREM Order == Spec => []SendsInOrder
  <1>1. IInv => SendsInOrder
    BY DEF IInv
  <1> QED BY <1>1, Invariant, PTL

(* Only the bytes of a chunk whose send failed can reach the server twice. *)
THEOREM Repeats == Spec => []RepeatsOnlyFailedChunks
  <1>1. IInv => RepeatsOnlyFailedChunks
    BY DEF IInv
  <1> QED BY <1>1, Invariant, PTL

(* Writers that overwrite the ring and the thread that drains it never     *)
(* take the same byte.                                                     *)
THEOREM Clobbering == Spec => []ClobberedNeverSent
  <1>1. IInv => ClobberedNeverSent
    BY DEF IInv
  <1> QED BY <1>1, Invariant, PTL

(* The retry loops of net_connect and net_thread leak no socket.           *)
THEOREM Sockets == Spec => []SocketsBalanced
  <1>1. IInv => SocketsBalanced
    BY DEF IInv
  <1> QED BY <1>1, Invariant, PTL
==============================================================================
