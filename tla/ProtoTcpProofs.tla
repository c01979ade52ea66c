--------------------------- MODULE ProtoTcpProofs ---------------------------
(***************************************************************************)
(* Proofs about ProtoTcp, for a ring of any size, any messages, any number *)
(* of clients and of descriptors, with a server or a connected client.     *)
(***************************************************************************)
EXTENDS ProtoTcp, FiniteSetTheorems, FunctionTheorems, TLAPS

(* What the producer's place in a call says of its buffer: it is being      *)
(* filled, with room for the message, or it was just pushed.                *)
CallOK ==
    /\ ppc \in {"copy", "push", "overflow"} => state[out] = "queued"
    /\ ppc \in {"overflowed", "pushed"} => state[out] # "queued"
    /\ ppc = "copy" => len[out] + msg.len <= Mtu
    /\ ppc \in {"send", "overflow", "overflowed", "gate", "reserve", "copy"} =>
          msg \in Messages \cup {HttpResponse}

(* The two parts of RingExact.                                              *)
Filled(n) ==
    /\ \A k \in 0 .. NBuffers - 1 :
          state[(in + k) % NBuffers] = "ready" <=> k < n
    /\ NextOut = (in + n) % NBuffers
RingFilled == \E n \in 0 .. NBuffers : Filled(n)
OneQueued == \A b \in Buffers : state[b] = "queued" => b = out

(* The chunk that send() reads is the sender's until its result is recorded,*)
(* on a connection that the descriptor named.                               *)
SenderOK ==
    /\ tpc \in {"send", "insend", "record"} => state[in] = "ready"
    /\ tpc \in {"send", "insend", "record"} => sfd \in Fds
    /\ tpc = "insend" => sconn \in Conns

(* The inductive invariant.                                                 *)
TInv == TypeOK /\ CallOK /\ OneQueued /\ SenderOK /\ RingFilled /\ NoFdLeak

-----------------------------------------------------------------------------
(* Arithmetic of the ring. *)

LEMMA ModBelow == \A x \in 0 .. NBuffers - 1 : x % NBuffers = x
  BY RingAssumption

LEMMA ModAbove == \A x \in NBuffers .. 2 * NBuffers - 1 : x % NBuffers = x - NBuffers
  BY RingAssumption

(* The buffer k places further.                                             *)
LEMMA Further ==
  ASSUME NEW b \in Buffers, NEW k \in 0 .. NBuffers
  PROVE  /\ (b + k) % NBuffers = IF b + k < NBuffers THEN b + k ELSE b + k - NBuffers
         /\ (b + k) % NBuffers \in Buffers
<1>1. CASE b + k < NBuffers
  BY <1>1, ModBelow, RingAssumption DEF Buffers
<1>2. CASE ~ (b + k < NBuffers)
  <2>1. b + k \in NBuffers .. 2 * NBuffers - 1
    BY <1>2, RingAssumption DEF Buffers
  <2> QED
    BY <2>1, <1>2, ModAbove, RingAssumption DEF Buffers
<1> QED
  BY <1>1, <1>2

(* Nothing further, or all around, is the same buffer.                      *)
LEMMA Around ==
  ASSUME NEW b \in Buffers
  PROVE  (b + 0) % NBuffers = b /\ (b + NBuffers) % NBuffers = b
<1>1. 0 \in 0 .. NBuffers /\ NBuffers \in 0 .. NBuffers
  BY RingAssumption
<1>2. (b + 0) % NBuffers = IF b + 0 < NBuffers THEN b + 0 ELSE b + 0 - NBuffers
  BY <1>1, Further
<1>3. (b + NBuffers) % NBuffers
        = IF b + NBuffers < NBuffers THEN b + NBuffers ELSE b + NBuffers - NBuffers
  BY <1>1, Further
<1> QED
  BY <1>2, <1>3, RingAssumption DEF Buffers

LEMMA AfterBuffer ==
  ASSUME NEW b \in Buffers
  PROVE  /\ After(b) = IF b + 1 < NBuffers THEN b + 1 ELSE 0
         /\ After(b) \in Buffers
<1>1. 1 \in 0 .. NBuffers
  BY RingAssumption
<1>2. /\ (b + 1) % NBuffers = IF b + 1 < NBuffers THEN b + 1 ELSE b + 1 - NBuffers
      /\ (b + 1) % NBuffers \in Buffers
  BY <1>1, Further
<1>3. ~ (b + 1 < NBuffers) => b + 1 - NBuffers = 0
  BY RingAssumption DEF Buffers
<1> QED
  BY <1>2, <1>3 DEF After

(* The next buffer is the first of those that follow.                       *)
LEMMA AfterFurther ==
  ASSUME NEW b \in Buffers, NEW k \in 0 .. NBuffers - 1
  PROVE  /\ (After(b) + k) % NBuffers = (b + k + 1) % NBuffers
         /\ After((b + k) % NBuffers) = (b + k + 1) % NBuffers
<1>1. k \in 0 .. NBuffers /\ k + 1 \in 0 .. NBuffers
  BY RingAssumption
<1>2. /\ (After(b) + k) % NBuffers
            = IF After(b) + k < NBuffers THEN After(b) + k ELSE After(b) + k - NBuffers
      /\ After(b) = IF b + 1 < NBuffers THEN b + 1 ELSE 0
  BY <1>1, AfterBuffer, Further
<1>3. (b + (k + 1)) % NBuffers
        = IF b + (k + 1) < NBuffers THEN b + (k + 1) ELSE b + (k + 1) - NBuffers
  BY <1>1, Further
<1>4. b + (k + 1) = b + k + 1
  BY DEF Buffers
<1>5. /\ (b + k) % NBuffers = IF b + k < NBuffers THEN b + k ELSE b + k - NBuffers
      /\ (b + k) % NBuffers \in Buffers
  BY <1>1, Further
<1>6. After((b + k) % NBuffers)
        = IF ((b + k) % NBuffers) + 1 < NBuffers THEN ((b + k) % NBuffers) + 1 ELSE 0
  BY <1>5, AfterBuffer
<1>7. (After(b) + k) % NBuffers = (b + k + 1) % NBuffers
  BY <1>2, <1>3, <1>4, RingAssumption DEF Buffers
<1>8. After((b + k) % NBuffers) = (b + k + 1) % NBuffers
  BY <1>3, <1>4, <1>5, <1>6, RingAssumption DEF Buffers
<1> QED
  BY <1>7, <1>8

(* No two of the buffers that follow are the same.                          *)
LEMMA Distinct ==
  ASSUME NEW b \in Buffers, NEW j \in 0 .. NBuffers - 1, NEW k \in 0 .. NBuffers - 1,
         (b + j) % NBuffers = (b + k) % NBuffers
  PROVE  j = k
<1>1. j \in 0 .. NBuffers /\ k \in 0 .. NBuffers
  BY RingAssumption
<1>2. /\ (b + j) % NBuffers = IF b + j < NBuffers THEN b + j ELSE b + j - NBuffers
      /\ (b + k) % NBuffers = IF b + k < NBuffers THEN b + k ELSE b + k - NBuffers
  BY <1>1, Further
<1> QED
  BY <1>2, RingAssumption DEF Buffers

-----------------------------------------------------------------------------
(* What a step may do to the ring. *)

(* The same buffers wait, between the same ends.                            *)
LEMMA RingSame ==
  ASSUME TypeOK, RingFilled, in' = in, NextOut' = NextOut,
         \A b \in Buffers : state'[b] = "ready" <=> state[b] = "ready"
  PROVE  RingFilled'
<1>1. PICK n \in 0 .. NBuffers : Filled(n)
  BY DEF RingFilled
<1>2. \A k \in 0 .. NBuffers - 1 : (in + k) % NBuffers \in Buffers
  BY Further, RingAssumption DEF TypeOK
<1>3. \A k \in 0 .. NBuffers - 1 :
         state'[(in' + k) % NBuffers] = "ready" <=> k < n
  BY <1>1, <1>2 DEF Filled
<1>4. NextOut' = (in' + n) % NBuffers
  BY <1>1 DEF Filled
<1> QED
  BY <1>3, <1>4 DEF RingFilled, Filled

(* The producer's buffer is pushed: one more waits.                         *)
LEMMA RingPush ==
  ASSUME TypeOK, RingFilled, ppc \in {"push", "overflow"}, state[out] = "queued",
         state' = [state EXCEPT ![out] = "ready"], UNCHANGED <<in, out>>,
         ppc' \in {"pushed", "overflowed"}
  PROVE  RingFilled'
<1>1. PICK n \in 0 .. NBuffers : Filled(n)
  BY DEF RingFilled
<1>2. NextOut = out /\ NextOut' = After(out)
  BY DEF NextOut, After
<1>3. n \in 0 .. NBuffers - 1
  <2>1. SUFFICES ASSUME n = NBuffers PROVE FALSE
    BY RingAssumption
  <2>2. (in + NBuffers) % NBuffers = in /\ (in + 0) % NBuffers = in
    BY Around DEF TypeOK
  <2>3. 0 \in 0 .. NBuffers - 1 /\ 0 < n
    BY <2>1, RingAssumption
  <2>4. state[in] = "ready" /\ out = in
    BY <1>1, <1>2, <2>1, <2>2, <2>3 DEF Filled
  <2> QED
    BY <2>4
<1>4. ASSUME NEW k \in 0 .. NBuffers - 1
      PROVE  state'[(in' + k) % NBuffers] = "ready" <=> k < n + 1
  <2>1. (in + k) % NBuffers \in Buffers
    BY Further, RingAssumption DEF TypeOK
  <2>2. out = (in + n) % NBuffers
    BY <1>1, <1>2 DEF Filled
  <2>3. (in + k) % NBuffers = out <=> k = n
    BY <1>3, <2>2, Distinct DEF TypeOK
  <2>4. state[(in + k) % NBuffers] = "ready" <=> k < n
    BY <1>1 DEF Filled
  <2>5. CASE k = n
    BY <2>1, <2>3, <2>5 DEF TypeOK
  <2>6. CASE k # n
    BY <2>1, <2>3, <2>4, <2>6 DEF TypeOK
  <2> QED
    BY <2>5, <2>6
<1>5. NextOut' = (in' + (n + 1)) % NBuffers
  <2>1. After((in + n) % NBuffers) = (in + n + 1) % NBuffers
    BY <1>3, AfterFurther DEF TypeOK
  <2>2. in + n + 1 = in' + (n + 1)
    BY <1>3 DEF TypeOK, Buffers
  <2> QED
    BY <1>1, <1>2, <2>1, <2>2 DEF Filled
<1>6. n + 1 \in 0 .. NBuffers
  BY <1>3, RingAssumption
<1> QED
  BY <1>4, <1>5, <1>6 DEF RingFilled, Filled

(* The sender gives its buffer back: one less waits.                        *)
LEMMA RingRelease ==
  ASSUME TypeOK, RingFilled, state[in] = "ready",
         state' = [state EXCEPT ![in] = "dequeued"], in' = After(in),
         UNCHANGED <<out, ppc>>
  PROVE  RingFilled'
<1>1. PICK n \in 0 .. NBuffers : Filled(n)
  BY DEF RingFilled
<1>2. NextOut' = NextOut
  BY DEF NextOut, After
<1>3. (in + 0) % NBuffers = in /\ (in + NBuffers) % NBuffers = in
  BY Around DEF TypeOK
<1>4. n \in 1 .. NBuffers
  <2>1. 0 \in 0 .. NBuffers - 1
    BY RingAssumption
  <2> QED
    BY <1>1, <1>3, <2>1 DEF Filled
<1>5. ASSUME NEW k \in 0 .. NBuffers - 1
      PROVE  state'[(in' + k) % NBuffers] = "ready" <=> k < n - 1
  <2>1. (in' + k) % NBuffers = (in + k + 1) % NBuffers
    BY AfterFurther DEF TypeOK
  <2>2. in + k + 1 = in + (k + 1)
    BY DEF TypeOK, Buffers
  <2>3. CASE k + 1 < NBuffers
    <3>1. k + 1 \in 0 .. NBuffers - 1 /\ 0 \in 0 .. NBuffers - 1
      BY <2>3, RingAssumption
    <3>2. (in + (k + 1)) % NBuffers # in
      <4>1. k + 1 # 0
        OBVIOUS
      <4> QED
        BY <1>3, <3>1, <4>1, Distinct DEF TypeOK
    <3>3. (in + (k + 1)) % NBuffers \in Buffers
      BY <3>1, Further, RingAssumption DEF TypeOK
    <3>4. state[(in + (k + 1)) % NBuffers] = "ready" <=> k + 1 < n
      BY <1>1, <3>1 DEF Filled
    <3>5. k + 1 < n <=> k < n - 1
      BY <1>4
    <3>6. state'[(in + (k + 1)) % NBuffers] = state[(in + (k + 1)) % NBuffers]
      BY <3>2, <3>3 DEF TypeOK
    <3> QED
      BY <2>1, <2>2, <3>4, <3>5, <3>6
  <2>4. CASE ~ (k + 1 < NBuffers)
    <3>1. k + 1 = NBuffers
      BY <2>4, RingAssumption
    <3>2. state'[(in' + k) % NBuffers] = "dequeued"
      BY <1>3, <2>1, <2>2, <3>1 DEF TypeOK
    <3>3. ~ (k < n - 1)
      BY <1>4, <3>1, RingAssumption
    <3> QED
      BY <3>2, <3>3
  <2> QED
    BY <2>3, <2>4
<1>6. NextOut' = (in' + (n - 1)) % NBuffers
  <2>1. n - 1 \in 0 .. NBuffers - 1
    BY <1>4, RingAssumption
  <2>2. (After(in) + (n - 1)) % NBuffers = (in + (n - 1) + 1) % NBuffers
    BY <2>1, AfterFurther DEF TypeOK
  <2>3. in + (n - 1) + 1 = in + n
    BY <1>4 DEF TypeOK, Buffers
  <2> QED
    BY <1>1, <1>2, <2>2, <2>3 DEF Filled
<1>7. n - 1 \in 0 .. NBuffers
  BY <1>4, RingAssumption
<1> QED
  BY <1>5, <1>6, <1>7 DEF RingFilled, Filled

-----------------------------------------------------------------------------
(* The types. *)

LEMMA InitTypes == Init => TypeOK
<1> SUFFICES ASSUME Init PROVE TypeOK
  OBVIOUS
<1>1. 0 \in Buffers /\ 0 \in 0 .. Mtu
  BY RingAssumption, MtuAssumption DEF Buffers
<1>2. << >> \in Seq(BOOLEAN)
  OBVIOUS
<1>3. clientfd \in Fds \cup {NoFd}
  BY DEF Init
<1>4. conn \in [Conns -> {"new", "pending", "open", "stalled", "dead"}]
  BY DEF Init
<1>5. fdconn \in [Fds -> Conns \cup {NoConn}]
  BY DEF Init
<1> QED
  BY <1>1, <1>2, <1>3, <1>4, <1>5 DEF Init, TypeOK

(* What a message leaves in a buffer.                                       *)
LEMMA TagTypes ==
  ASSUME NEW m \in Messages \cup {HttpResponse}
  PROVE  m.started \in BOOLEAN /\ m.len \in Nat /\ m.more \in BOOLEAN
<1>1. CASE m \in Messages
  BY <1>1, MtuAssumption, ModeAssumption DEF Messages
<1>2. CASE m = HttpResponse
  BY <1>2 DEF HttpResponse
<1> QED
  BY <1>1, <1>2

(* The types of the ring, of each thread, of what they share, of the kernel.*)
RingTypes ==
    /\ state \in [Buffers -> {"dequeued", "queued", "ready"}]
    /\ len \in [Buffers -> 0 .. Mtu]
    /\ data \in [Buffers -> Seq(BOOLEAN)]
    /\ out \in Buffers /\ in \in Buffers
CallTypes ==
    /\ ppc \in {"idle", "send", "gate", "overflow", "overflowed", "reserve",
                "copy", "push", "pushed", "close", "shut", "destroy", "join", "end"}
    /\ msg \in Messages \cup {NoMsg, HttpResponse}
    /\ own \in BOOLEAN /\ broken \in BOOLEAN
CloseTypes == cfd \in Fds \cup {NoFd} /\ dropping \in BOOLEAN
SenderTypes ==
    /\ tpc \in {"check", "wait", "send", "insend", "record", "exit"}
    /\ sfd \in Fds \cup {NoFd} /\ sconn \in Conns \cup {NoConn} /\ sok \in BOOLEAN
SharedTypes == clientfd \in Fds \cup {NoFd} /\ error \in BOOLEAN /\ running \in BOOLEAN
NetTypes ==
    /\ conn \in [Conns -> {"new", "pending", "open", "stalled", "dead"}]
    /\ fdconn \in [Fds -> Conns \cup {NoConn}]

LEMMA TypeParts ==
    TypeOK <=> /\ RingTypes /\ CallTypes /\ CloseTypes
               /\ SenderTypes /\ SharedTypes /\ NetTypes
  BY DEF TypeOK, RingTypes, CallTypes, CloseTypes, SenderTypes, SharedTypes, NetTypes

LEMMA TypePartsNext ==
    TypeOK' <=> /\ RingTypes' /\ CallTypes' /\ CloseTypes'
                /\ SenderTypes' /\ SharedTypes' /\ NetTypes'
  BY DEF TypeOK, RingTypes, CallTypes, CloseTypes, SenderTypes, SharedTypes, NetTypes

(* What does not change keeps its type.                                     *)
LEMMA TypeKept ==
  ASSUME TypeOK
  PROVE  /\ UNCHANGED ringVars => RingTypes'
         /\ UNCHANGED callVars => CallTypes'
         /\ UNCHANGED <<cfd, dropping>> => CloseTypes'
         /\ UNCHANGED sendVars => SenderTypes'
         /\ UNCHANGED shareVars => SharedTypes'
         /\ UNCHANGED netVars => NetTypes'
<1>1. UNCHANGED ringVars => RingTypes'
  BY TypeParts DEF RingTypes, ringVars
<1>2. UNCHANGED callVars => CallTypes'
  BY TypeParts DEF CallTypes, callVars
<1>3. UNCHANGED <<cfd, dropping>> => CloseTypes'
  BY TypeParts DEF CloseTypes
<1>4. UNCHANGED sendVars => SenderTypes'
  BY TypeParts DEF SenderTypes, sendVars
<1>5. UNCHANGED shareVars => SharedTypes'
  BY TypeParts DEF SharedTypes, shareVars
<1>6. UNCHANGED netVars => NetTypes'
  BY TypeParts DEF NetTypes, netVars
<1> QED
  BY <1>1, <1>2, <1>3, <1>4, <1>5, <1>6

(* A call that returns.                                                     *)
LEMMA ReturnTypes ==
  ASSUME NEW lost \in BOOLEAN, Return(lost)
  PROVE  CallTypes'
<1>1. broken' \in BOOLEAN
  BY Zenon DEF Return
<1> QED
  BY <1>1 DEF Return, CallTypes

LEMMA CallsTypes ==
  ASSUME TypeOK, Calls
  PROVE  TypeOK'
<1>1. ASSUME NEW m \in Messages, Send(m) PROVE TypeOK'
  <2>1. CallTypes'
    <3>1. CASE clientfd # NoFd
      BY <1>1, <3>1, TypeParts DEF Send, CallTypes
    <3>2. CASE clientfd = NoFd
      BY <1>1, <3>2, ReturnTypes DEF Send
    <3> QED
      BY <3>1, <3>2
  <2> QED
    BY <1>1, <2>1, TypeKept, TypePartsNext DEF Send
<1>2. ASSUME NEW c \in Conns, NEW d \in Fds, Accept(c, d) PROVE TypeOK'
  <2>1. CallTypes'
    BY <1>2, TypeParts DEF Accept, CallTypes
  <2>2. SharedTypes'
    BY <1>2, TypeParts DEF Accept, SharedTypes
  <2>3. NetTypes'
    BY <1>2, TypeParts DEF Accept, NetTypes
  <2> QED
    BY <1>2, <2>1, <2>2, <2>3, TypeKept, TypePartsNext DEF Accept
<1>3. CASE AcceptNone
  BY <1>3, ReturnTypes, TypeKept, TypePartsNext DEF AcceptNone
<1>4. CASE Close
  <2>1. CallTypes'
    BY <1>4, TypeParts DEF Close, CallTypes
  <2> QED
    BY <1>4, <2>1, TypeKept, TypePartsNext DEF Close
<1>5. CASE Destroy
  <2>1. CallTypes'
    BY <1>5, TypeParts DEF Destroy, CallTypes
  <2>2. SenderTypes'
    BY <1>5, TypeParts DEF Destroy, Signal, SenderTypes
  <2>3. SharedTypes'
    BY <1>5, TypeParts DEF Destroy, SharedTypes
  <2> QED
    BY <1>5, <2>1, <2>2, <2>3, TypeKept, TypePartsNext DEF Destroy
<1> QED
  BY <1>1, <1>2, <1>3, <1>4, <1>5 DEF Calls

(* A critical section of _proto_push().                                     *)
LEMMA PushTypes ==
  ASSUME TypeOK, PushBuffer
  PROVE  RingTypes' /\ SenderTypes'
<1>1. RingTypes'
  BY TypeParts DEF PushBuffer, RingTypes
<1>2. SenderTypes'
  BY TypeParts DEF PushBuffer, Signal, SenderTypes
<1> QED
  BY <1>1, <1>2

LEMMA ProducerTypes ==
  ASSUME TypeOK, CallOK, Producer
  PROVE  TypeOK'
<1>0. 0 \in 0 .. Mtu /\ << >> \in Seq(BOOLEAN)
  BY MtuAssumption
<1>1. CASE SendStarts
  <2>1. CallTypes'
    <3>1. CASE error /\ own
      BY <1>1, <3>1, ReturnTypes DEF SendStarts
    <3>2. CASE ~ (error /\ own)
      BY <1>1, <3>2, TypeParts DEF SendStarts, CallTypes
    <3> QED
      BY <3>1, <3>2
  <2> QED
    BY <1>1, <2>1, TypeKept, TypePartsNext DEF SendStarts
<1>2. CASE Overflow \/ Push
  <2>1. CallTypes'
    BY <1>2, TypeParts DEF Overflow, Push, PushBuffer, CallTypes
  <2>2. RingTypes' /\ SenderTypes'
    BY <1>2, PushTypes DEF Overflow, Push
  <2> QED
    BY <1>2, <2>1, <2>2, TypeKept, TypePartsNext DEF Overflow, Push, PushBuffer
<1>3. CASE Overflowed
  <2>1. CallTypes'
    BY <1>3, TypeParts DEF Overflowed, CallTypes
  <2>2. RingTypes'
    BY <1>3, TypeParts, AfterBuffer DEF Overflowed, RingTypes
  <2> QED
    BY <1>3, <2>1, <2>2, TypeKept, TypePartsNext DEF Overflowed
<1>4. CASE Gate
  <2>1. CallTypes'
    <3>1. CASE Skipped
      BY <1>4, <3>1, ReturnTypes DEF Gate
    <3>2. CASE ~ Skipped
      BY <1>4, <3>2, TypeParts DEF Gate, CallTypes
    <3> QED
      BY <3>1, <3>2
  <2> QED
    BY <1>4, <2>1, TypeKept, TypePartsNext DEF Gate
<1>5. CASE Reserve
  <2>1. CallTypes' /\ CloseTypes' /\ RingTypes'
    <3>1. CASE Refused
      <4>1. UNCHANGED ringVars
        BY <1>5, <3>1 DEF Reserve, ringVars
      <4>2. CloseTypes'
        BY <1>5, <3>1, TypeParts DEF Reserve, CloseTypes
      <4> QED
        BY <1>5, <3>1, <4>1, <4>2, ReturnTypes, TypeKept DEF Reserve
    <3>2. CASE ~ Refused
      <4>1. RingTypes'
        BY <1>0, <1>5, <3>2, TypeParts DEF Reserve, RingTypes
      <4>2. CallTypes' /\ CloseTypes'
        BY <1>5, <3>2, TypeParts DEF Reserve, CallTypes, CloseTypes
      <4> QED
        BY <4>1, <4>2
    <3> QED
      BY <3>1, <3>2
  <2> QED
    BY <1>5, <2>1, TypeKept, TypePartsNext DEF Reserve
<1>6. CASE Copy
  <2>1. len[out] + msg.len \in 0 .. Mtu
    BY <1>6, TagTypes, MtuAssumption, TypeParts DEF Copy, CallOK, RingTypes
  <2>2. Append(data[out], Tag(msg)) \in Seq(BOOLEAN)
    BY <1>6, TagTypes, TypeParts DEF Copy, CallOK, RingTypes, Tag
  <2>3. RingTypes'
    BY <1>6, <2>1, <2>2, TypeParts DEF Copy, RingTypes
  <2>4. broken' \in BOOLEAN
    BY <1>6, TagTypes, TypeParts DEF Copy, CallOK, CallTypes
  <2>5. CallTypes'
    BY <1>6, <2>4, TypeParts DEF Copy, CallTypes
  <2> QED
    BY <1>6, <2>3, <2>5, TypeKept, TypePartsNext DEF Copy
<1>7. CASE Pushed
  <2>1. RingTypes'
    BY <1>7, TypeParts, AfterBuffer DEF Pushed, RingTypes
  <2> QED
    BY <1>7, <2>1, ReturnTypes, TypeKept, TypePartsNext DEF Pushed
<1>8. CASE CloseClient
  <2>1. CallTypes'
    BY <1>8, TypeParts DEF CloseClient, CallTypes
  <2>2. CloseTypes' /\ SharedTypes'
    BY <1>8, TypeParts DEF CloseClient, CloseTypes, SharedTypes
  <2> QED
    BY <1>8, <2>1, <2>2, TypeKept, TypePartsNext DEF CloseClient
<1>9. CASE CloseShut
  <2>1. RingTypes'
    BY <1>0, <1>9, TypeParts DEF CloseShut, RingTypes
  <2>2. CloseTypes'
    BY <1>9 DEF CloseShut, CloseTypes
  <2>3. NetTypes'
    BY <1>9, TypeParts DEF CloseShut, ShutDown, CloseFd, NetTypes
  <2> QED
    BY <1>9, <2>1, <2>2, <2>3, ReturnTypes, TypeKept, TypePartsNext DEF CloseShut
<1>10. CASE DestroyShut \/ Join
  <2>1. CallTypes'
    BY <1>10, TypeParts DEF DestroyShut, Join, CallTypes
  <2>2. NetTypes'
    BY <1>10, TypeParts DEF DestroyShut, Join, ShutDown, CloseFd, NetTypes
  <2> QED
    BY <1>10, <2>1, <2>2, TypeKept, TypePartsNext DEF DestroyShut, Join
<1> QED
  BY <1>1, <1>2, <1>3, <1>4, <1>5, <1>6, <1>7, <1>8, <1>9, <1>10 DEF Producer

(* The sender gives its buffer back.                                        *)
LEMMA ReleaseTypes ==
  ASSUME TypeOK, Release
  PROVE  RingTypes'
<1>1. 0 \in 0 .. Mtu /\ << >> \in Seq(BOOLEAN)
  BY MtuAssumption
<1> QED
  BY <1>1, TypeParts, AfterBuffer DEF Release, RingTypes

LEMMA SenderStepTypes ==
  ASSUME TypeOK, SenderOK, Sender
  PROVE  TypeOK'
<1>1. UNCHANGED callVars /\ UNCHANGED <<cfd, dropping>> /\ UNCHANGED netVars
  BY DEF Sender, ThreadExits, ThreadWaits, ThreadTakes, ThreadDiscards, ThreadSends,
         SendReturns, ThreadRecords, prodVars
<1>2. SharedTypes'
  <2>1. CASE ThreadRecords
    <3>1. error' \in BOOLEAN
      BY <2>1, TypeParts DEF ThreadRecords, SharedTypes
    <3> QED
      BY <2>1, <3>1, TypeParts DEF ThreadRecords, SharedTypes
  <2>2. CASE ~ ThreadRecords
    BY <2>2, TypeKept
       DEF Sender, ThreadExits, ThreadWaits, ThreadTakes, ThreadDiscards, ThreadSends,
           SendReturns
  <2> QED
    BY <2>1, <2>2
<1>3. RingTypes'
  BY ReleaseTypes, TypeKept
     DEF Sender, ThreadExits, ThreadWaits, ThreadTakes, ThreadDiscards, ThreadSends,
         SendReturns, ThreadRecords
<1>4. SenderTypes'
  <2>1. CASE ThreadExits \/ ThreadWaits \/ ThreadTakes
    BY <2>1, TypeParts DEF ThreadExits, ThreadWaits, ThreadTakes, SenderTypes, SharedTypes
  <2>2. CASE ThreadDiscards
    BY <2>2, TypeKept DEF ThreadDiscards
  <2>3. CASE ThreadSends
    BY <2>3, TypeParts DEF ThreadSends, SenderOK, SenderTypes, NetTypes
  <2>4. CASE SendReturns
    BY <2>4, TypeParts DEF SendReturns, SenderTypes
  <2>5. CASE ThreadRecords
    BY <2>5 DEF ThreadRecords, SenderTypes
  <2> QED
    BY <2>1, <2>2, <2>3, <2>4, <2>5 DEF Sender
<1> QED
  BY <1>1, <1>2, <1>3, <1>4, TypeKept, TypePartsNext

LEMMA ClientStepTypes ==
  ASSUME TypeOK, SpuriousWakeup \/ Clients
  PROVE  TypeOK'
<1>1. UNCHANGED ringVars /\ UNCHANGED callVars /\ UNCHANGED <<cfd, dropping>>
      /\ UNCHANGED shareVars
  BY DEF SpuriousWakeup, Clients, ClientConnects, ClientStalls, ClientReads,
         ClientLeaves, prodVars
<1>2. SenderTypes'
  <2>1. CASE SpuriousWakeup
    BY <2>1, TypeParts DEF SpuriousWakeup, SenderTypes
  <2>2. CASE Clients
    BY <2>2, TypeKept DEF Clients, ClientConnects, ClientStalls, ClientReads, ClientLeaves
  <2> QED
    BY <2>1, <2>2
<1>3. NetTypes'
  <2>1. CASE SpuriousWakeup
    BY <2>1, TypeKept DEF SpuriousWakeup
  <2>2. CASE Clients
    BY <2>2, TypeParts
       DEF Clients, ClientConnects, ClientStalls, ClientReads, ClientLeaves, NetTypes
  <2> QED
    BY <2>1, <2>2
<1> QED
  BY <1>1, <1>2, <1>3, TypeKept, TypePartsNext

-----------------------------------------------------------------------------
(* The calls: proto_send(), proto_close(), proto_destroy() begin. *)

LEMMA InitInv == Init => TInv
<1> SUFFICES ASSUME Init PROVE TInv
  OBVIOUS
<1>1. TypeOK
  BY InitTypes
<1>2. CallOK /\ OneQueued /\ SenderOK
  BY DEF Init, CallOK, OneQueued, SenderOK
<1>3. RingFilled
  <2>1. 0 \in Buffers /\ 0 \in 0 .. NBuffers
    BY RingAssumption DEF Buffers
  <2>2. \A k \in 0 .. NBuffers - 1 : (in + k) % NBuffers \in Buffers
    BY <1>1, Further, RingAssumption DEF TypeOK
  <2>3. \A k \in 0 .. NBuffers - 1 : state[(in + k) % NBuffers] = "ready" <=> k < 0
    <3>1. \A b \in Buffers : state[b] # "ready"
      BY DEF Init
    <3>2. \A k \in 0 .. NBuffers - 1 : ~ (k < 0)
      BY RingAssumption
    <3> QED
      BY <2>2, <3>1, <3>2
  <2>4. NextOut = (in + 0) % NBuffers
    BY <2>1, Around DEF Init, NextOut
  <2> QED
    BY <2>1, <2>3, <2>4 DEF RingFilled, Filled
<1>4. NoFdLeak
  BY DEF Init, NoFdLeak
<1> QED
  BY <1>1, <1>2, <1>3, <1>4 DEF TInv

LEMMA CallsInv ==
  ASSUME TInv, Calls
  PROVE  TInv'
<1>1. TypeOK /\ TypeOK'
  BY CallsTypes DEF TInv
<1>2. UNCHANGED <<ringVars, cfd>> /\ ppc = "idle"
  BY DEF Calls, Send, Accept, AcceptNone, Close, Destroy
<1>3. ppc' \in {"idle", "send", "close", "destroy"}
  BY <1>2 DEF Calls, Send, Accept, AcceptNone, Close, Destroy, Return
<1>4. CallOK'
  <2>1. ppc' = "send" => msg' \in Messages \cup {HttpResponse}
    BY <1>2 DEF Calls, Send, Accept, AcceptNone, Close, Destroy, Return
  <2> QED
    BY <1>3, <2>1 DEF CallOK
<1>5. OneQueued'
  BY <1>2 DEF TInv, OneQueued, ringVars
<1>6. SenderOK'
  <2>1. /\ UNCHANGED <<sfd, sconn>>
        /\ tpc' = tpc \/ tpc' = "check"
    BY DEF Calls, Send, Accept, AcceptNone, Close, Destroy, Signal, sendVars
  <2> QED
    BY <1>2, <2>1 DEF TInv, SenderOK, ringVars
<1>7. RingFilled'
  <2>1. NextOut' = NextOut
    BY <1>2, <1>3 DEF NextOut, ringVars
  <2> QED
    BY <1>1, <1>2, <2>1, RingSame DEF TInv, ringVars
<1>8. NoFdLeak'
  <2>1. ASSUME NEW c \in Conns, NEW d \in Fds, Accept(c, d) PROVE NoFdLeak'
    BY <1>1, <1>2, <2>1, ConnAssumption DEF Accept, TInv, NoFdLeak, TypeOK
  <2>2. CASE \A c \in Conns, d \in Fds : ~ Accept(c, d)
    <3>1. UNCHANGED <<fdconn, clientfd>>
      BY <2>2 DEF Calls, Send, AcceptNone, Close, Destroy, netVars, shareVars
    <3> QED
      BY <1>2, <3>1 DEF TInv, NoFdLeak
  <2> QED
    BY <2>1, <2>2
<1> QED
  BY <1>1, <1>4, <1>5, <1>6, <1>7, <1>8 DEF TInv

-----------------------------------------------------------------------------
(* The producer. *)

(* Steps that only read the ring, and keep descriptors and the sender.      *)
LEMMA ProducerReads ==
  ASSUME TInv, SendStarts \/ Gate
  PROVE  CallOK' /\ OneQueued' /\ SenderOK' /\ RingFilled' /\ NoFdLeak'
<1>1. UNCHANGED <<ringVars, cfd, sendVars, netVars, shareVars>>
  BY DEF SendStarts, Gate
<1>2. /\ ppc \in {"send", "gate"}
      /\ ppc' \in {"idle", "close", "gate", "overflow", "copy", "reserve"}
  BY DEF SendStarts, Gate, Return
<1>3. CallOK'
  <2>1. ppc' \in {"copy", "overflow"} => state[out] = "queued"
    BY DEF SendStarts, Gate, Return
  <2>2. ppc' # "idle" => msg' = msg
    BY DEF SendStarts, Gate, Return
  <2>3. ppc' = "copy" => len[out] + msg.len <= Mtu
    <3>1. ASSUME ppc' = "copy" PROVE SendStarts /\ ~ (len[out] + msg.len > Mtu)
      BY <3>1 DEF SendStarts, Gate, Return
    <3>2. msg.len \in Nat /\ len[out] \in Nat
      BY <1>2, TagTypes DEF TInv, TypeOK, CallOK
    <3> QED
      BY <3>1, <3>2, MtuAssumption
  <2> QED
    BY <1>1, <1>2, <2>1, <2>2, <2>3 DEF TInv, CallOK, ringVars
<1>4. OneQueued' /\ SenderOK'
  BY <1>1 DEF TInv, OneQueued, SenderOK, ringVars, sendVars
<1>5. RingFilled'
  <2>1. NextOut' = NextOut
    BY <1>1, <1>2 DEF NextOut, ringVars
  <2> QED
    BY <1>1, <2>1, RingSame DEF TInv, ringVars
<1>6. NoFdLeak'
  BY <1>1, <1>2 DEF TInv, NoFdLeak, netVars, shareVars
<1> QED
  BY <1>3, <1>4, <1>5, <1>6

(* Both critical sections of _proto_push().                                 *)
LEMMA ProducerPushes ==
  ASSUME TInv, Overflow \/ Push
  PROVE  CallOK' /\ OneQueued' /\ SenderOK' /\ RingFilled' /\ NoFdLeak'
<1>1. /\ ppc \in {"push", "overflow"} /\ ppc' \in {"pushed", "overflowed"}
      /\ state' = [state EXCEPT ![out] = "ready"]
      /\ UNCHANGED <<out, in, len, msg, cfd, sfd, sconn, netVars, shareVars>>
      /\ tpc' = tpc \/ tpc' = "check"
      /\ ppc' = "overflowed" => ppc = "overflow"
  BY DEF Overflow, Push, PushBuffer, Signal
<1>2. state[out] = "queued"
  BY <1>1 DEF TInv, CallOK
<1>3. CallOK'
  BY <1>1 DEF TInv, TypeOK, CallOK
<1>4. OneQueued'
  BY <1>1 DEF TInv, TypeOK, OneQueued
<1>5. SenderOK'
  BY <1>1 DEF TInv, TypeOK, SenderOK
<1>6. RingFilled'
  BY <1>1, <1>2, RingPush DEF TInv
<1>7. NoFdLeak'
  BY <1>1 DEF TInv, NoFdLeak, netVars, shareVars
<1> QED
  BY <1>3, <1>4, <1>5, <1>6, <1>7

(* ... and what follows them.                                               *)
LEMMA ProducerMoves ==
  ASSUME TInv, Overflowed \/ Pushed
  PROVE  CallOK' /\ OneQueued' /\ SenderOK' /\ RingFilled' /\ NoFdLeak'
<1>1. /\ ppc \in {"pushed", "overflowed"} /\ ppc' \in {"idle", "gate"}
      /\ out' = After(out)
      /\ UNCHANGED <<state, in, len, cfd, sendVars, netVars, shareVars>>
      /\ ppc' = "gate" => msg' = msg /\ ppc = "overflowed"
  BY DEF Overflowed, Pushed, Return
<1>2. \A b \in Buffers : state[b] # "queued"
  BY <1>1 DEF TInv, CallOK, OneQueued
<1>3. CallOK'
  <2>1. ppc' = "gate" => msg' \in Messages \cup {HttpResponse}
    BY <1>1 DEF TInv, CallOK
  <2> QED
    BY <1>1, <2>1 DEF CallOK
<1>4. OneQueued' /\ SenderOK'
  BY <1>1, <1>2 DEF TInv, OneQueued, SenderOK, sendVars
<1>5. RingFilled'
  <2>1. NextOut' = NextOut
    BY <1>1 DEF NextOut
  <2> QED
    BY <1>1, <2>1, RingSame DEF TInv
<1>6. NoFdLeak'
  BY <1>1 DEF TInv, NoFdLeak, netVars, shareVars
<1> QED
  BY <1>3, <1>4, <1>5, <1>6

LEMMA ReserveInv ==
  ASSUME TInv, Reserve
  PROVE  CallOK' /\ OneQueued' /\ SenderOK' /\ RingFilled' /\ NoFdLeak'
<1>1. /\ ppc = "reserve" /\ ppc' \in {"idle", "copy"}
      /\ UNCHANGED <<out, in, cfd, sendVars, netVars, shareVars>>
  BY DEF Reserve, Return
<1>2. CASE Refused
  <2>1. ppc' = "idle" /\ UNCHANGED <<state, len>>
    BY <1>2 DEF Reserve, Return
  <2>2. NextOut' = NextOut
    BY <1>1, <2>1 DEF NextOut
  <2>3. CallOK' /\ OneQueued' /\ SenderOK' /\ NoFdLeak'
    BY <1>1, <2>1
       DEF TInv, CallOK, OneQueued, SenderOK, NoFdLeak, sendVars, netVars, shareVars
  <2> QED
    BY <1>1, <2>1, <2>2, <2>3, RingSame DEF TInv
<1>3. CASE ~ Refused
  <2>1. /\ state[out] = "dequeued" /\ ppc' = "copy" /\ UNCHANGED msg
        /\ ~ (msg.len > Mtu)
        /\ state' = [state EXCEPT ![out] = "queued"]
        /\ len' = [len EXCEPT ![out] = 0]
    BY <1>3 DEF Reserve, Refused
  <2>2. NextOut' = NextOut
    BY <1>1, <2>1 DEF NextOut
  <2>3. msg \in Messages \cup {HttpResponse}
    BY <1>1 DEF TInv, CallOK
  <2>4. 0 + msg.len <= Mtu
    BY <2>1, <2>3, TagTypes, MtuAssumption
  <2>5. state'[out] = "queued" /\ len'[out] = 0
    BY <2>1 DEF TInv, TypeOK
  <2>6. CallOK'
    BY <1>1, <2>1, <2>3, <2>4, <2>5 DEF CallOK
  <2>7. OneQueued' /\ SenderOK' /\ NoFdLeak'
    BY <1>1, <2>1
       DEF TInv, TypeOK, OneQueued, SenderOK, NoFdLeak, sendVars, netVars, shareVars
  <2>8. \A b \in Buffers : state'[b] = "ready" <=> state[b] = "ready"
    BY <2>1 DEF TInv, TypeOK
  <2> QED
    BY <1>1, <2>2, <2>6, <2>7, <2>8, RingSame DEF TInv
<1> QED
  BY <1>2, <1>3

LEMMA CopyInv ==
  ASSUME TInv, Copy
  PROVE  CallOK' /\ OneQueued' /\ SenderOK' /\ RingFilled' /\ NoFdLeak'
<1>1. /\ ppc = "copy" /\ ppc' \in {"idle", "push"}
      /\ UNCHANGED <<state, out, in, cfd, sendVars, netVars, shareVars>>
  BY DEF Copy
<1>2. NextOut' = NextOut
  BY <1>1 DEF NextOut
<1>3. CallOK'
  BY <1>1 DEF TInv, CallOK
<1>4. OneQueued' /\ SenderOK' /\ NoFdLeak'
  BY <1>1 DEF TInv, OneQueued, SenderOK, NoFdLeak, sendVars, netVars, shareVars
<1> QED
  BY <1>1, <1>2, <1>3, <1>4, RingSame DEF TInv

(* Steps of proto_close() and proto_destroy().                              *)
LEMMA CloseClientInv ==
  ASSUME TInv, CloseClient
  PROVE  CallOK' /\ OneQueued' /\ SenderOK' /\ RingFilled' /\ NoFdLeak'
<1>1. /\ ppc = "close" /\ ppc' = "shut" /\ cfd' = clientfd
      /\ UNCHANGED <<ringVars, sendVars, netVars>>
  BY DEF CloseClient
<1>2. NextOut' = NextOut
  BY <1>1 DEF NextOut, ringVars
<1>3. CallOK' /\ OneQueued' /\ SenderOK' /\ NoFdLeak'
  BY <1>1
     DEF TInv, CallOK, OneQueued, SenderOK, NoFdLeak, ringVars, sendVars, netVars
<1> QED
  BY <1>1, <1>2, <1>3, RingSame DEF TInv, ringVars

LEMMA CloseShutInv ==
  ASSUME TInv, CloseShut
  PROVE  CallOK' /\ OneQueued' /\ SenderOK' /\ RingFilled' /\ NoFdLeak'
<1>1. /\ ppc = "shut" /\ ppc' = "idle" /\ fdconn' = CloseFd(cfd)
      /\ UNCHANGED <<out, in, sendVars, shareVars>>
  BY DEF CloseShut, Return
<1>2. \/ UNCHANGED state
      \/ state[out] = "queued" /\ state' = [state EXCEPT ![out] = "dequeued"]
  BY DEF CloseShut
<1>3. NextOut' = NextOut
  BY <1>1 DEF NextOut
<1>4. \A b \in Buffers : /\ state'[b] = "ready" <=> state[b] = "ready"
                         /\ state'[b] = "queued" => state[b] = "queued"
  BY <1>2 DEF TInv, TypeOK
<1>5. CallOK'
  BY <1>1 DEF CallOK
<1>6. OneQueued' /\ SenderOK'
  BY <1>1, <1>4 DEF TInv, TypeOK, OneQueued, SenderOK, sendVars
<1>7. NoFdLeak'
  <2>1. \A d \in Fds : fdconn'[d] # NoConn => d # cfd /\ fdconn[d] # NoConn
    BY <1>1, ConnAssumption DEF CloseFd, TInv, TypeOK
  <2> QED
    BY <1>1, <2>1 DEF TInv, NoFdLeak, shareVars
<1> QED
  BY <1>1, <1>3, <1>4, <1>5, <1>6, <1>7, RingSame DEF TInv

LEMMA DestroyInv ==
  ASSUME TInv, DestroyShut \/ Join
  PROVE  CallOK' /\ OneQueued' /\ SenderOK' /\ RingFilled' /\ NoFdLeak'
<1>1. /\ ppc \in {"destroy", "join"} /\ ppc' \in {"join", "end"}
      /\ UNCHANGED <<ringVars, sendVars, shareVars>>
      /\ fdconn' = fdconn \/ fdconn' = CloseFd(clientfd)
  BY DEF DestroyShut, Join
<1>2. NextOut' = NextOut
  BY <1>1 DEF NextOut, ringVars
<1>3. CallOK' /\ OneQueued' /\ SenderOK'
  BY <1>1 DEF TInv, CallOK, OneQueued, SenderOK, ringVars, sendVars
<1>4. \A d \in Fds : fdconn'[d] # NoConn => fdconn[d] # NoConn
  BY <1>1, ConnAssumption DEF CloseFd, TInv, TypeOK
<1>5. NoFdLeak'
  BY <1>1, <1>4 DEF TInv, NoFdLeak, shareVars
<1> QED
  BY <1>1, <1>2, <1>3, <1>5, RingSame DEF TInv, ringVars

LEMMA ProducerInv ==
  ASSUME TInv, Producer
  PROVE  TInv'
<1>1. TypeOK'
  BY ProducerTypes DEF TInv
<1>2. CallOK' /\ OneQueued' /\ SenderOK' /\ RingFilled' /\ NoFdLeak'
  BY ProducerReads, ProducerPushes, ProducerMoves, ReserveInv, CopyInv,
     CloseClientInv, CloseShutInv, DestroyInv DEF Producer
<1> QED
  BY <1>1, <1>2 DEF TInv

-----------------------------------------------------------------------------
(* The sender and the clients. *)

(* The sender gives back its buffer, ready until then.                      *)
LEMMA ReleaseInv ==
  ASSUME TInv, Release, state[in] = "ready", UNCHANGED prodVars
  PROVE  CallOK' /\ OneQueued' /\ RingFilled'
<1>1. /\ state' = [state EXCEPT ![in] = "dequeued"] /\ in' = After(in)
      /\ len' = [len EXCEPT ![in] = 0] /\ UNCHANGED <<out, ppc, msg>>
  BY DEF Release, prodVars, callVars
<1>2. RingFilled'
  BY <1>1, RingRelease DEF TInv
<1>3. OneQueued'
  BY <1>1 DEF TInv, TypeOK, OneQueued
<1>4. CallOK'
  <2>1. \A b \in Buffers : state'[b] = "queued" <=> state[b] = "queued"
    BY <1>1 DEF TInv, TypeOK
  <2>2. ppc = "copy" => in # out
    BY DEF TInv, CallOK
  <2>3. ppc = "copy" => len'[out] = len[out]
    BY <1>1, <2>2 DEF TInv, TypeOK
  <2> QED
    BY <1>1, <2>1, <2>3 DEF TInv, TypeOK, CallOK
<1> QED
  BY <1>2, <1>3, <1>4

LEMMA SenderInv ==
  ASSUME TInv, Sender
  PROVE  TInv'
<1>1. TypeOK'
  BY SenderStepTypes DEF TInv
<1>2. NoFdLeak'
  <2>1. UNCHANGED <<prodVars, fdconn, clientfd>>
    BY DEF Sender, ThreadExits, ThreadWaits, ThreadTakes, ThreadDiscards, ThreadSends,
           SendReturns, ThreadRecords, netVars, shareVars
  <2> QED
    BY <2>1 DEF TInv, NoFdLeak, prodVars, callVars
<1>3. CASE ThreadDiscards \/ ThreadRecords
  <2>1. Release /\ state[in] = "ready" /\ UNCHANGED prodVars
    BY <1>3 DEF ThreadDiscards, ThreadRecords, TInv, SenderOK
  <2>2. SenderOK'
    BY <1>3 DEF ThreadDiscards, ThreadRecords, SenderOK, sendVars
  <2> QED
    BY <1>1, <1>2, <2>1, <2>2, ReleaseInv DEF TInv
<1>4. CASE ~ (ThreadDiscards \/ ThreadRecords)
  <2>1. UNCHANGED <<ringVars, prodVars>>
    BY <1>4 DEF Sender, ThreadExits, ThreadWaits, ThreadTakes, ThreadSends, SendReturns
  <2>2. CallOK' /\ OneQueued'
    BY <2>1 DEF TInv, CallOK, OneQueued, ringVars, prodVars, callVars
  <2>3. RingFilled'
    <3>1. NextOut' = NextOut
      BY <2>1 DEF NextOut, ringVars, prodVars, callVars
    <3> QED
      BY <2>1, <3>1, RingSame DEF TInv, ringVars
  <2>4. SenderOK'
    <3>1. CASE ThreadTakes
      BY <3>1, <2>1 DEF ThreadTakes, SendNow, SenderOK, TInv, TypeOK, ringVars
    <3>2. CASE ThreadSends
      BY <3>2, <2>1 DEF ThreadSends, SenderOK, TInv, TypeOK, ringVars
    <3>3. CASE ThreadExits \/ ThreadWaits \/ SendReturns
      BY <3>3, <2>1 DEF ThreadExits, ThreadWaits, SendReturns, SenderOK, TInv, ringVars
    <3> QED
      BY <1>4, <3>1, <3>2, <3>3 DEF Sender
  <2> QED
    BY <1>1, <1>2, <2>2, <2>3, <2>4 DEF TInv
<1> QED
  BY <1>3, <1>4

LEMMA ClientsInv ==
  ASSUME TInv, SpuriousWakeup \/ Clients
  PROVE  TInv'
<1>1. TypeOK'
  BY ClientStepTypes DEF TInv
<1>2. /\ UNCHANGED <<ringVars, prodVars, sfd, sconn, fdconn, shareVars>>
      /\ tpc' = tpc \/ tpc' = "check"
  BY DEF SpuriousWakeup, Clients, ClientConnects, ClientStalls, ClientReads,
         ClientLeaves, sendVars, netVars
<1>3. CallOK' /\ OneQueued' /\ SenderOK' /\ NoFdLeak'
  BY <1>2 DEF TInv, CallOK, OneQueued, SenderOK, NoFdLeak, ringVars, prodVars,
              callVars, shareVars
<1>4. RingFilled'
  <2>1. NextOut' = NextOut
    BY <1>2 DEF NextOut, ringVars, prodVars, callVars
  <2> QED
    BY <1>2, <2>1, RingSame DEF TInv, ringVars
<1> QED
  BY <1>1, <1>3, <1>4 DEF TInv

LEMMA StutterInv ==
  ASSUME TInv, UNCHANGED vars
  PROVE  TInv'
<1>1. UNCHANGED <<ringVars, prodVars, sendVars, netVars, shareVars>>
  BY DEF vars
<1>2. TypeOK' /\ CallOK' /\ OneQueued' /\ SenderOK' /\ NoFdLeak'
  BY <1>1 DEF TInv, TypeOK, CallOK, OneQueued, SenderOK, NoFdLeak, ringVars,
              prodVars, callVars, sendVars, netVars, shareVars
<1>3. RingFilled'
  <2>1. NextOut' = NextOut
    BY <1>1 DEF NextOut, ringVars, prodVars, callVars
  <2> QED
    BY <1>1, <2>1, RingSame DEF TInv, ringVars
<1> QED
  BY <1>2, <1>3 DEF TInv

(* The invariant holds in every state.                                      *)
LEMMA Invariance == Spec => []TInv
<1>1. TInv /\ [Next]_vars => TInv'
  <2> SUFFICES ASSUME TInv, [Next]_vars PROVE TInv'
    OBVIOUS
  <2> QED
    BY CallsInv, ProducerInv, SenderInv, ClientsInv, StutterInv DEF Next
<1> QED
  BY <1>1, InitInv, PTL DEF Spec

(* Every variable keeps its type: no chunk is longer than the mtu, although *)
(* messages of any length are appended to it (sproto_tcp.c:249-283).        *)
THEOREM TypeCorrect == Spec => []TypeOK
  BY Invariance, PTL DEF TInv

(* For a ring of any size the chunks that wait are those between `in' and   *)
(* `out', and one at most is being filled.                                  *)
THEOREM RingCorrect == Spec => []RingExact
<1>1. TInv => RingExact
  BY DEF TInv, RingFilled, Filled, OneQueued, RingExact
<1> QED
  BY <1>1, Invariance, PTL

(* memcpy() of the producer and send() of the sender never meet in a chunk. *)
THEOREM ChunkOwned == Spec => []SenderOwnsChunk
<1>1. TInv => SenderOwnsChunk
  BY DEF TInv, CallOK, SenderOK, SenderOwnsChunk
<1> QED
  BY <1>1, Invariance, PTL

(* No descriptor of a client is leaked.                                     *)
THEOREM FdsClosed == Spec => []NoFdLeak
  BY Invariance, PTL DEF TInv

-----------------------------------------------------------------------------
(* The stream resumes on the start of a frame. *)

Sending == {"send", "overflow", "overflowed", "gate", "reserve", "copy", "push",
            "pushed"}

(* A loss leaves `dropping' set until the start of a frame is taken; nothing*)
(* is gathered while it is set.  Only "http" has messages of the transport. *)
Resync ==
    /\ ~ http => ~ own
    /\ broken /\ ~ http => dropping \/ (ppc = "copy" /\ msg.started)
    /\ dropping => state[out] # "queued"
    /\ ppc \in {"gate", "reserve"} => state[out] # "queued"
    /\ ppc = "reserve" /\ dropping => msg.started
    /\ clientfd = NoFd /\ ppc # "shut" => dropping
    /\ ppc \in Sending => clientfd # NoFd

LEMMA ResyncInit == Init => Resync
<1>1. 0 \in Buffers
  BY RingAssumption DEF Buffers
<1>2. Init => /\ ppc = "idle" /\ dropping /\ ~ own
              /\ state[out] # "queued"
  BY <1>1 DEF Init
<1> QED
  BY <1>2 DEF Resync, Sending

LEMMA ResyncCalls ==
  ASSUME TInv, Resync, Calls
  PROVE  Resync'
<1> USE DEF Resync, Sending
<1>1. UNCHANGED <<ringVars, dropping, http>> /\ ppc = "idle"
  BY DEF Calls, Send, Accept, AcceptNone, Close, Destroy
<1>2. ASSUME NEW m \in Messages, Send(m) PROVE Resync'
  BY <1>1, <1>2 DEF Send, Return, ringVars, shareVars
<1>3. ASSUME NEW c \in Conns, NEW d \in Fds, Accept(c, d) PROVE Resync'
  BY <1>1, <1>3, ConnAssumption DEF Accept, ringVars
<1>4. CASE AcceptNone
  BY <1>1, <1>4 DEF AcceptNone, Return, ringVars, shareVars
<1>5. CASE Close
  BY <1>1, <1>5 DEF Close, ringVars, shareVars
<1>6. CASE Destroy
  BY <1>1, <1>6 DEF Destroy, ringVars
<1> QED
  BY <1>2, <1>3, <1>4, <1>5, <1>6 DEF Calls

LEMMA ResyncProducer ==
  ASSUME TInv, Resync, Producer
  PROVE  Resync'
<1> USE DEF Resync, Sending
<1>1. CASE SendStarts
  <2>1. CASE error
    BY <1>1, <2>1 DEF SendStarts, Return, ringVars, shareVars, Producer
  <2>2. CASE ~ error
    BY <1>1, <2>2 DEF SendStarts, ringVars, shareVars, Producer
  <2> QED
    BY <2>1, <2>2
<1>2. CASE Overflow \/ Push
  <2>1. state'[out] = "ready"
    BY <1>2 DEF Overflow, Push, PushBuffer, TInv, TypeOK
  <2> QED
    BY <1>2, <2>1 DEF Overflow, Push, PushBuffer, shareVars, Producer
<1>3. CASE Overflowed \/ Pushed
  <2>1. \A b \in Buffers : state[b] # "queued"
    BY <1>3 DEF Overflowed, Pushed, TInv, CallOK, OneQueued
  <2>2. state'[out'] # "queued"
    BY <1>3, <2>1, AfterBuffer DEF Overflowed, Pushed, TInv, TypeOK
  <2>3. CASE Overflowed
    BY <2>2, <2>3 DEF Overflowed, shareVars, Producer
  <2>4. CASE Pushed
    BY <2>2, <2>4 DEF Pushed, Return, shareVars, Producer
  <2> QED
    BY <1>3, <2>3, <2>4
<1>4. CASE Gate
  BY <1>4 DEF Gate, Skipped, Return, ringVars, shareVars, Producer
<1>5. CASE Reserve
  <2>1. CASE Refused
    BY <1>5, <2>1 DEF Reserve, Return, shareVars, Producer
  <2>2. CASE ~ Refused
    BY <1>5, <2>2 DEF Reserve, shareVars, Producer
  <2> QED
    BY <2>1, <2>2
<1>6. CASE Copy
  <2>1. state[out] = "queued"
    BY <1>6 DEF Copy, TInv, CallOK
  <2> QED
    BY <1>6, <2>1 DEF Copy, shareVars, Producer
<1>7. CASE CloseClient
  BY <1>7 DEF CloseClient, ringVars, Producer
<1>8. CASE CloseShut
  <2>1. state'[out] # "queued"
    BY <1>8 DEF CloseShut, TInv, TypeOK
  <2> QED
    BY <1>8, <2>1 DEF CloseShut, Return, shareVars, Producer
<1>9. CASE DestroyShut \/ Join
  BY <1>9 DEF DestroyShut, Join, ringVars, shareVars, Producer
<1> QED
  BY <1>1, <1>2, <1>3, <1>4, <1>5, <1>6, <1>7, <1>8, <1>9 DEF Producer

LEMMA ResyncOthers ==
  ASSUME TInv, Resync, Sender \/ ((SpuriousWakeup \/ Clients) /\ UNCHANGED http)
                       \/ UNCHANGED vars
  PROVE  Resync'
<1>1. UNCHANGED <<prodVars, http, clientfd, out>>
  BY DEF Sender, ThreadExits, ThreadWaits, ThreadTakes, ThreadDiscards, ThreadSends,
         SendReturns, ThreadRecords, Release, SpuriousWakeup, Clients, ClientConnects,
         ClientStalls, ClientReads, ClientLeaves, ringVars, shareVars, vars
<1>2. state' = state \/ state' = [state EXCEPT ![in] = "dequeued"]
  BY DEF Sender, ThreadExits, ThreadWaits, ThreadTakes, ThreadDiscards, ThreadSends,
         SendReturns, ThreadRecords, Release, SpuriousWakeup, Clients, ClientConnects,
         ClientStalls, ClientReads, ClientLeaves, ringVars, vars
<1>3. state[out] # "queued" => state'[out] # "queued"
  BY <1>2 DEF TInv, TypeOK
<1> QED
  BY <1>1, <1>3 DEF Resync, prodVars, callVars

(* After a loss or a close the first message that enters a chunk starts a   *)
(* frame, whatever the sender frees meanwhile (sproto_tcp.c:256).           *)
THEOREM StreamResumes == Spec => ResumesOnStart
<1>1. TInv /\ Resync /\ [Next]_vars => Resync'
  <2> SUFFICES ASSUME TInv, Resync, [Next]_vars PROVE Resync'
    OBVIOUS
  <2> QED
    BY ResyncCalls, ResyncProducer, ResyncOthers DEF Next
<1>2. TInv /\ Resync =>
        [ppc = "copy" /\ ppc' # "copy" /\ ~ own /\ broken /\ ~ http
            => msg.started]_vars
  BY DEF TInv, CallOK, Resync
<1> QED
  BY <1>1, <1>2, ResyncInit, Invariance, PTL DEF Spec, ResumesOnStart

-----------------------------------------------------------------------------
(* The ring implements the queue of chunks. *)

(* Each buffer is so many places after another.                             *)
LEMMA Reached ==
  ASSUME NEW i \in Buffers, NEW b \in Buffers
  PROVE  \E k \in 0 .. NBuffers - 1 : (i + k) % NBuffers = b
<1> DEFINE k == IF b >= i THEN b - i ELSE b + NBuffers - i
<1>1. /\ k \in 0 .. NBuffers - 1
      /\ b = IF i + k < NBuffers THEN i + k ELSE i + k - NBuffers
  BY RingAssumption DEF Buffers
<1>2. k \in 0 .. NBuffers
  BY <1>1, RingAssumption
<1> HIDE DEF k
<1> QED
  BY <1>1, <1>2, Further

(* The buffers that wait are as many as there are places between the ends.  *)
LEMMA Counted ==
  ASSUME TypeOK, NEW n \in 0 .. NBuffers, Filled(n)
  PROVE  Waiting = n
<1> DEFINE S == { b \in Buffers : state[b] = "ready" }
           f == [m \in 1 .. n |-> (in + (m - 1)) % NBuffers]
<1>1. \A m \in 1 .. n : m - 1 \in 0 .. NBuffers - 1 /\ m - 1 \in 0 .. NBuffers /\ m - 1 < n
  BY RingAssumption
<1>2. \A m \in 1 .. n : (in + (m - 1)) % NBuffers \in S
  BY <1>1, Further DEF TypeOK, Filled
<1>3. \A l, m \in 1 .. n : f[l] = f[m] => l = m
  <2> SUFFICES ASSUME NEW l \in 1 .. n, NEW m \in 1 .. n, f[l] = f[m]
               PROVE  l = m
    OBVIOUS
  <2>1. l - 1 = m - 1
    BY <1>1, Distinct DEF TypeOK
  <2> QED
    BY <2>1
<1>4. ASSUME NEW b \in S PROVE \E m \in 1 .. n : f[m] = b
  <2>1. PICK k \in 0 .. NBuffers - 1 : (in + k) % NBuffers = b
    BY Reached DEF TypeOK
  <2>2. k < n
    BY <2>1 DEF Filled
  <2>3. k + 1 \in 1 .. n /\ (k + 1) - 1 = k
    BY <2>2, RingAssumption
  <2> QED
    BY <2>1, <2>3
<1>5. f \in Bijection(1 .. n, S)
  BY <1>2, <1>3, <1>4, Fun_IsBij
<1>6. ExistsBijection(1 .. n, S)
  BY <1>5 DEF ExistsBijection
<1> QED
  BY <1>6, FS_CountingElements, RingAssumption DEF Waiting

LEMMA Waits ==
  ASSUME TInv
  PROVE  /\ Waiting \in 0 .. NBuffers /\ Filled(Waiting)
         /\ IsFiniteSet({ b \in Buffers : state[b] = "ready" })
<1>1. IsFiniteSet(Buffers)
  BY FS_Interval, RingAssumption DEF Buffers
<1> QED
  BY <1>1, Counted, FS_Subset DEF TInv, RingFilled

(* What QueueView is: a sequence, each of its chunks that of a buffer.      *)
View(w, i, d) == [n \in 1 .. w |-> d[(i + n - 1) % NBuffers]]

LEMMA ViewIs ==
  ASSUME NEW w \in 0 .. NBuffers, NEW i \in Buffers, NEW d \in [Buffers -> Seq(BOOLEAN)]
  PROVE  /\ View(w, i, d) \in Seq(Seq(BOOLEAN)) /\ Len(View(w, i, d)) = w
         /\ \A n \in 1 .. w : View(w, i, d)[n] = d[(i + (n - 1)) % NBuffers]
<1> DEFINE q == View(w, i, d)
<1>1. ASSUME NEW n \in 1 .. w
      PROVE  i + n - 1 = i + (n - 1) /\ (i + (n - 1)) % NBuffers \in Buffers
  <2>1. n - 1 \in 0 .. NBuffers
    BY RingAssumption
  <2> QED
    BY <2>1, Further DEF Buffers
<1>2. \A n \in 1 .. w : q[n] = d[(i + (n - 1)) % NBuffers] /\ q[n] \in Seq(BOOLEAN)
  BY <1>1 DEF View
<1> QED
  BY <1>2, RingAssumption DEF View

LEMMA SeqAppend ==
  ASSUME NEW S, NEW q \in Seq(S), NEW r \in Seq(S), NEW c \in S, Len(r) = Len(q) + 1,
         \A n \in 1 .. Len(q) : r[n] = q[n], r[Len(q) + 1] = c
  PROVE  r = Append(q, c)
<1> DEFINE a == Append(q, c)
<1>1. /\ a \in Seq(S) /\ Len(a) = Len(q) + 1
      /\ \A n \in 1 .. Len(q) : a[n] = q[n]
      /\ a[Len(q) + 1] = c
  OBVIOUS
<1>2. \A n \in 1 .. Len(r) : r[n] = a[n]
  <2> SUFFICES ASSUME NEW n \in 1 .. Len(r) PROVE r[n] = a[n]
    OBVIOUS
  <2>1. n \in 1 .. Len(q) \/ n = Len(q) + 1
    OBVIOUS
  <2> QED
    BY <1>1, <2>1
<1> HIDE DEF a
<1>3. r = a
  BY <1>1, <1>2
<1> QED
  BY <1>3 DEF a

LEMMA SeqTail ==
  ASSUME NEW S, NEW q \in Seq(S), NEW r \in Seq(S), q # << >>, Len(r) = Len(q) - 1,
         \A n \in 1 .. Len(r) : r[n] = q[n + 1]
  PROVE  r = Tail(q)
<1> DEFINE a == Tail(q)
<1>1. /\ a \in Seq(S) /\ Len(a) = Len(q) - 1
      /\ \A n \in 1 .. Len(a) : a[n] = q[n + 1]
  OBVIOUS
<1> HIDE DEF a
<1>2. r = a
  BY <1>1
<1> QED
  BY <1>2 DEF a

(* A chunk that is being gathered, and is not copied in, is not empty.      *)
GatheredOK == state[out] = "queued" /\ ppc # "copy" => data[out] # << >>

RInv == TInv /\ GatheredOK

AbstractNext == [Chunks!Next]_<<ChunkView, QueueView>>

(* The chunks that wait stay where they are.                                *)
LEMMA QueueSame ==
  ASSUME TInv, UNCHANGED in,
         \A b \in Buffers : state'[b] = "ready" <=> state[b] = "ready",
         \A b \in Buffers : state[b] = "ready" => data'[b] = data[b]
  PROVE  QueueView' = QueueView
<1>1. Waiting' = Waiting /\ Waiting \in 0 .. NBuffers /\ Filled(Waiting) /\ in \in Buffers
  BY Waits DEF Waiting, TInv, TypeOK
<1>2. ASSUME NEW n \in 1 .. Waiting
      PROVE  data'[(in + n - 1) % NBuffers] = data[(in + n - 1) % NBuffers]
  <2>1. /\ n - 1 \in 0 .. NBuffers - 1 /\ n - 1 \in 0 .. NBuffers /\ n - 1 < Waiting
        /\ in + n - 1 = in + (n - 1)
    BY <1>1, RingAssumption DEF Buffers
  <2>2. (in + (n - 1)) % NBuffers \in Buffers /\ state[(in + (n - 1)) % NBuffers] = "ready"
    BY <1>1, <2>1, Further DEF Filled
  <2> QED
    BY <2>1, <2>2
<1> QED
  BY <1>1, <1>2 DEF QueueView

(* Steps that leave the ring alone.                                         *)
LEMMA ViewsRest ==
  ASSUME RInv, UNCHANGED <<state, data, in, out>>, ppc = "copy" => ppc' = "copy"
  PROVE  GatheredOK' /\ AbstractNext
<1>1. ChunkView' = ChunkView /\ QueueView' = QueueView
  BY DEF ChunkView, QueueView, Waiting
<1> QED
  BY <1>1 DEF AbstractNext, RInv, GatheredOK

(* A push commits the chunk.                                                *)
LEMMA PushCommits ==
  ASSUME RInv, TypeOK', Overflow \/ Push
  PROVE  GatheredOK' /\ AbstractNext
<1>1. /\ state[out] = "queued" /\ state' = [state EXCEPT ![out] = "ready"]
      /\ UNCHANGED <<data, in, out>> /\ ppc \in {"push", "overflow"}
      /\ out \in Buffers /\ in \in Buffers
      /\ state \in [Buffers -> {"dequeued", "queued", "ready"}]
      /\ data \in [Buffers -> Seq(BOOLEAN)]
  BY DEF Overflow, Push, PushBuffer, RInv, TInv, TypeOK, CallOK
<1>2. /\ data[out] # << >> /\ GatheredOK'
      /\ ChunkView = data[out] /\ ChunkView' = << >>
  BY <1>1 DEF RInv, GatheredOK, ChunkView
<1>3. /\ Waiting \in 0 .. NBuffers /\ Filled(Waiting)
      /\ IsFiniteSet({ b \in Buffers : state[b] = "ready" })
  BY Waits DEF RInv
<1>4. Waiting' = Waiting + 1
  <2>1. { b \in Buffers : state'[b] = "ready" } = { b \in Buffers : state[b] = "ready" } \cup {out}
    BY <1>1
  <2>2. out \notin { b \in Buffers : state[b] = "ready" }
    BY <1>1
  <2> QED
    BY <1>3, <2>1, <2>2, FS_AddElement DEF Waiting
<1>5. Waiting < NBuffers
  <2>1. SUFFICES ASSUME Waiting = NBuffers PROVE FALSE
    BY <1>3, RingAssumption
  <2>2. PICK k \in 0 .. NBuffers - 1 : (in + k) % NBuffers = out
    BY <1>1, Reached
  <2>3. state[out] = "ready"
    BY <1>3, <2>1, <2>2, RingAssumption DEF Filled
  <2> QED
    BY <1>1, <2>3
<1>6. out = (in + Waiting) % NBuffers
  BY <1>1, <1>3 DEF Filled, NextOut
<1> DEFINE w == Waiting
           q == QueueView
           r == QueueView'
<1>7. /\ q \in Seq(Seq(BOOLEAN)) /\ Len(q) = w
      /\ \A n \in 1 .. w : q[n] = data[(in + (n - 1)) % NBuffers]
  <2>1. q = View(w, in, data)
    BY DEF QueueView, View
  <2> HIDE DEF q, w
  <2>2. w \in 0 .. NBuffers
    BY <1>3 DEF w
  <2> QED
    BY <1>1, <2>1, <2>2, ViewIs
<1>8. /\ r \in Seq(Seq(BOOLEAN)) /\ Len(r) = w + 1
      /\ \A n \in 1 .. w + 1 : r[n] = data[(in + (n - 1)) % NBuffers]
  <2>1. w + 1 \in 0 .. NBuffers
    BY <1>3, <1>5, RingAssumption
  <2>2. r = View(w + 1, in, data)
    BY <1>1, <1>4 DEF QueueView, View
  <2> HIDE DEF r, w
  <2> QED
    BY <1>1, <2>1, <2>2, ViewIs
<1> HIDE DEF q, r, w
<1>9. r[w + 1] = data[out]
  <2>1. w + 1 \in 1 .. w + 1 /\ (w + 1) - 1 = w
    BY <1>3 DEF w
  <2>2. out = (in + w) % NBuffers
    BY <1>6 DEF w
  <2> QED
    BY <1>8, <2>1, <2>2
<1>10. r = Append(q, data[out])
  <2>1. w \in Nat /\ data[out] \in Seq(BOOLEAN)
    BY <1>1, <1>3, RingAssumption DEF w
  <2> QED
    <3>1. q \in Seq(Seq(BOOLEAN)) /\ r \in Seq(Seq(BOOLEAN)) /\ Len(r) = Len(q) + 1
      BY <1>7, <1>8
    <3>2. \A n \in 1 .. Len(q) : r[n] = q[n]
      <4>1. \A n \in 1 .. w : n \in 1 .. w + 1
        BY <2>1
      <4> QED
        BY <1>7, <1>8, <4>1, Zenon
    <3>3. r[Len(q) + 1] = data[out]
      BY <1>7, <1>9
    <3> QED
      BY <2>1, <3>1, <3>2, <3>3, SeqAppend
<1>11. Chunks!Commit
  BY <1>2, <1>5, <1>7, <1>10 DEF Chunks!Commit, q, r, w
<1> QED
  BY <1>2, <1>11 DEF AbstractNext, Chunks!Next

(* A buffer given back by the sender removes the oldest chunk.              *)
LEMMA ReleaseRemoves ==
  ASSUME RInv, state[in] = "ready", Release, UNCHANGED ppc
  PROVE  GatheredOK' /\ AbstractNext
<1>1. /\ state' = [state EXCEPT ![in] = "dequeued"] /\ data' = [data EXCEPT ![in] = << >>]
      /\ in' = After(in) /\ out' = out /\ ppc' = ppc
      /\ out \in Buffers /\ in \in Buffers /\ After(in) \in Buffers
      /\ state \in [Buffers -> {"dequeued", "queued", "ready"}]
      /\ data \in [Buffers -> Seq(BOOLEAN)]
  BY AfterBuffer DEF Release, RInv, TInv, TypeOK
<1>2. GatheredOK' /\ ChunkView' = ChunkView
  <2>1. CASE out = in
    BY <1>1, <2>1 DEF RInv, GatheredOK, ChunkView
  <2>2. CASE out # in
    BY <1>1, <2>2 DEF RInv, GatheredOK, ChunkView
  <2> QED
    BY <2>1, <2>2
<1>3. /\ Waiting \in 0 .. NBuffers /\ Filled(Waiting)
      /\ IsFiniteSet({ b \in Buffers : state[b] = "ready" })
  BY Waits DEF RInv
<1>4. Waiting' = Waiting - 1
  <2>1. { b \in Buffers : state'[b] = "ready" } = { b \in Buffers : state[b] = "ready" } \ {in}
    BY <1>1
  <2>2. in \in { b \in Buffers : state[b] = "ready" }
    BY <1>1
  <2> QED
    BY <1>3, <2>1, <2>2, FS_RemoveElement DEF Waiting
<1>5. Waiting \in 1 .. NBuffers
  <2>1. (in + 0) % NBuffers = in /\ 0 \in 0 .. NBuffers - 1
    BY <1>1, Around, RingAssumption
  <2>2. 0 < Waiting
    BY <1>3, <2>1 DEF Filled
  <2> QED
    BY <1>3, <2>2
<1> DEFINE w == Waiting
           q == QueueView
           r == QueueView'
<1>6. /\ q \in Seq(Seq(BOOLEAN)) /\ Len(q) = w
      /\ \A n \in 1 .. w : q[n] = data[(in + (n - 1)) % NBuffers]
  <2>1. q = View(w, in, data)
    BY DEF QueueView, View
  <2> HIDE DEF q, w
  <2>2. w \in 0 .. NBuffers
    BY <1>3 DEF w
  <2> QED
    BY <1>1, <2>1, <2>2, ViewIs
<1>7. /\ r \in Seq(Seq(BOOLEAN)) /\ Len(r) = w - 1
      /\ \A n \in 1 .. w - 1 : r[n] = data'[(in' + (n - 1)) % NBuffers]
  <2>1. w - 1 \in 0 .. NBuffers /\ in' \in Buffers /\ data' \in [Buffers -> Seq(BOOLEAN)]
    BY <1>1, <1>5, RingAssumption
  <2>2. r = View(w - 1, in', data')
    BY <1>4 DEF QueueView, View
  <2> HIDE DEF r, w
  <2> QED
    BY <2>1, <2>2, ViewIs
<1>8. ASSUME NEW n \in 1 .. w - 1
      PROVE  r[n] = q[n + 1]
  <2>1. /\ n - 1 \in 0 .. NBuffers - 1 /\ n \in 0 .. NBuffers - 1 /\ n \in 0 .. NBuffers
        /\ 0 \in 0 .. NBuffers - 1 /\ n + 1 \in 1 .. w /\ (n + 1) - 1 = n /\ n # 0
        /\ in + (n - 1) + 1 = in + n
    BY <1>1, <1>5, RingAssumption DEF Buffers
  <2>2. (in' + (n - 1)) % NBuffers = (in + n) % NBuffers
    BY <1>1, <2>1, AfterFurther
  <2>3. (in + n) % NBuffers # in /\ (in + n) % NBuffers \in Buffers
    BY <1>1, <2>1, Further, Around, Distinct
  <2>4. data'[(in + n) % NBuffers] = data[(in + n) % NBuffers]
    BY <1>1, <2>3
  <2>5. r[n] = data[(in + n) % NBuffers]
    BY <1>7, <2>2, <2>4
  <2>6. q[n + 1] = data[(in + n) % NBuffers]
    BY <1>6, <2>1
  <2> QED
    BY <2>5, <2>6
<1>9. w \in Nat \ {0}
  BY <1>5, RingAssumption
<1> HIDE DEF q, r, w
<1>10. q # << >> /\ r = Tail(q)
  <2>1. q # << >>
    BY <1>6, <1>9
  <2> QED
    BY <1>6, <1>7, <1>8, <2>1, SeqTail
<1>11. Chunks!Remove
  BY <1>2, <1>10 DEF Chunks!Remove, q, r
<1> QED
  BY <1>2, <1>11 DEF AbstractNext, Chunks!Next

(* The producer's steps between two pushes.                                 *)
LEMMA ProducerGathers ==
  ASSUME RInv, Overflowed \/ Pushed \/ Reserve \/ Copy \/ CloseShut
  PROVE  GatheredOK' /\ AbstractNext
<1>1. /\ out \in Buffers /\ in \in Buffers /\ After(out) \in Buffers
      /\ state \in [Buffers -> {"dequeued", "queued", "ready"}]
      /\ data \in [Buffers -> Seq(BOOLEAN)]
      /\ \A b \in Buffers : state[b] = "queued" => b = out
  BY AfterBuffer DEF RInv, TInv, TypeOK, OneQueued
<1>2. in' = in
  BY DEF Overflowed, Pushed, Reserve, Copy, CloseShut
<1>3. CASE Overflowed \/ Pushed
  <2>1. state' = state /\ data' = data /\ out' = After(out) /\ state[out] # "queued"
    BY <1>3 DEF Overflowed, Pushed, RInv, TInv, CallOK
  <2>2. ChunkView' = << >> /\ ChunkView = << >> /\ GatheredOK'
    BY <1>1, <2>1 DEF ChunkView, GatheredOK
  <2>3. QueueView' = QueueView
    BY <1>2, <2>1, QueueSame DEF RInv
  <2> QED
    BY <2>2, <2>3 DEF AbstractNext
<1>4. CASE Reserve
  <2>1. CASE Refused
    <3>1. UNCHANGED <<state, data, in, out>> /\ ppc = "reserve"
      BY <1>4, <2>1 DEF Reserve
    <3> QED
      BY <3>1, ViewsRest
  <2>2. CASE ~ Refused
    <3>1. /\ state[out] = "dequeued" /\ state' = [state EXCEPT ![out] = "queued"]
          /\ data' = [data EXCEPT ![out] = << >>] /\ out' = out /\ ppc' = "copy"
      BY <1>4, <2>2 DEF Reserve, Refused
    <3>2. ChunkView' = << >> /\ ChunkView = << >> /\ GatheredOK'
      BY <1>1, <3>1 DEF ChunkView, GatheredOK
    <3>3. QueueView' = QueueView
      BY <1>1, <1>2, <3>1, QueueSame DEF RInv
    <3> QED
      BY <3>2, <3>3 DEF AbstractNext
  <2> QED
    BY <2>1, <2>2
<1>5. CASE Copy
  <2>1. /\ state[out] = "queued" /\ state' = state /\ out' = out /\ ppc = "copy"
        /\ data' = [data EXCEPT ![out] = Append(data[out], Tag(msg))]
        /\ msg \in Messages \cup {HttpResponse}
    BY <1>5 DEF Copy, RInv, TInv, CallOK
  <2>2. Tag(msg) \in BOOLEAN
    BY <2>1, TagTypes DEF Tag
  <2>3. /\ ChunkView = data[out] /\ ChunkView' = Append(data[out], Tag(msg))
        /\ data[out] \in Seq(BOOLEAN)
    BY <1>1, <2>1 DEF ChunkView
  <2>4. GatheredOK'
    BY <1>1, <2>1, <2>2, <2>3 DEF GatheredOK
  <2>5. QueueView' = QueueView
    BY <1>1, <1>2, <2>1, QueueSame DEF RInv
  <2>6. Chunks!Add(Tag(msg))
    BY <2>3, <2>5 DEF Chunks!Add
  <2> QED
    BY <2>2, <2>4, <2>6 DEF AbstractNext, Chunks!Next
<1>6. CASE CloseShut
  <2>1. CASE state[out] = "queued"
    <3>1. /\ state' = [state EXCEPT ![out] = "dequeued"]
          /\ data' = [data EXCEPT ![out] = << >>] /\ out' = out
      BY <1>6, <2>1 DEF CloseShut
    <3>2. ChunkView' = << >> /\ GatheredOK'
      BY <1>1, <3>1 DEF ChunkView, GatheredOK
    <3>3. QueueView' = QueueView
      BY <1>1, <1>2, <2>1, <3>1, QueueSame DEF RInv
    <3>4. Chunks!Abandon
      BY <3>2, <3>3 DEF Chunks!Abandon
    <3> QED
      BY <3>2, <3>4 DEF AbstractNext, Chunks!Next
  <2>2. CASE state[out] # "queued"
    <3>1. UNCHANGED <<state, data, in, out>> /\ ppc = "shut"
      BY <1>6, <2>2 DEF CloseShut
    <3> QED
      BY <3>1, ViewsRest
  <2> QED
    BY <2>1, <2>2
<1> QED
  BY <1>3, <1>4, <1>5, <1>6

(* Every step is one of the queue, or leaves it alone.                      *)
LEMMA StepRefines ==
  ASSUME RInv, TInv', [Next]_vars
  PROVE  GatheredOK' /\ AbstractNext
<1>1. CASE Calls
  <2>1. UNCHANGED ringVars /\ ppc = "idle"
    BY <1>1 DEF Calls, Send, Accept, AcceptNone, Close, Destroy
  <2> QED
    BY <2>1, ViewsRest DEF ringVars
<1>2. CASE Producer
  <2>1. CASE Overflow \/ Push
    BY <2>1, PushCommits DEF TInv
  <2>2. CASE Overflowed \/ Pushed \/ Reserve \/ Copy \/ CloseShut
    BY <2>2, ProducerGathers
  <2>3. CASE SendStarts \/ Gate \/ CloseClient \/ DestroyShut \/ Join
    <3>1. UNCHANGED ringVars /\ ppc # "copy"
      BY <2>3 DEF SendStarts, Gate, CloseClient, DestroyShut, Join
    <3> QED
      BY <3>1, ViewsRest DEF ringVars
  <2> QED
    BY <1>2, <2>1, <2>2, <2>3 DEF Producer
<1>3. CASE Sender
  <2>1. UNCHANGED ppc
    BY <1>3 DEF Sender, ThreadExits, ThreadWaits, ThreadTakes, ThreadDiscards, ThreadSends,
                SendReturns, ThreadRecords, prodVars, callVars
  <2>2. CASE ThreadDiscards \/ ThreadRecords
    <3>1. state[in] = "ready" /\ Release
      BY <2>2 DEF ThreadDiscards, ThreadRecords, RInv, TInv, SenderOK
    <3> QED
      BY <2>1, <3>1, ReleaseRemoves
  <2>3. CASE ThreadExits \/ ThreadWaits \/ ThreadTakes \/ ThreadSends \/ SendReturns
    <3>1. UNCHANGED ringVars
      BY <2>3 DEF ThreadExits, ThreadWaits, ThreadTakes, ThreadSends, SendReturns
    <3> QED
      BY <2>1, <3>1, ViewsRest DEF ringVars
  <2> QED
    BY <1>3, <2>2, <2>3 DEF Sender
<1>4. CASE SpuriousWakeup \/ Clients \/ UNCHANGED vars
  <2>1. UNCHANGED ringVars /\ UNCHANGED ppc
    BY <1>4 DEF SpuriousWakeup, Clients, ClientConnects, ClientStalls, ClientReads,
                ClientLeaves, prodVars, callVars, vars
  <2> QED
    BY <2>1, ViewsRest DEF ringVars
<1> QED
  BY <1>1, <1>2, <1>3, <1>4 DEF Next

LEMMA InitRefines == Init => GatheredOK /\ Chunks!Init
<1> SUFFICES ASSUME Init PROVE GatheredOK /\ Chunks!Init
  OBVIOUS
<1>1. TInv
  BY InitInv
<1>2. 0 \in Buffers /\ \A b \in Buffers : state[b] = "dequeued"
  BY RingAssumption DEF Init, Buffers
<1>3. GatheredOK /\ ChunkView = << >>
  BY <1>2 DEF Init, GatheredOK, ChunkView
<1>4. Waiting = 0
  <2>1. { b \in Buffers : state[b] = "ready" } = {}
    BY <1>2
  <2> QED
    BY <2>1, FS_EmptySet DEF Waiting
<1>5. QueueView = << >>
  BY <1>4 DEF QueueView
<1> QED
  BY <1>3, <1>5 DEF Chunks!Init

(* The ring, its two threads and the sockets implement the queue of chunks, *)
(* for a ring of any size.                                                  *)
THEOREM RingImplementsQueue == Spec => ImplementsQueue
<1>1. Init => GatheredOK /\ Chunks!Init
  BY InitRefines
<1>2. TInv /\ GatheredOK /\ TInv' /\ [Next]_vars
        => GatheredOK' /\ [Chunks!Next]_<<ChunkView, QueueView>>
  BY StepRefines DEF RInv, AbstractNext
<1> QED
  BY <1>1, <1>2, Invariance, PTL DEF Spec, ImplementsQueue, Chunks!Spec
=============================================================================
