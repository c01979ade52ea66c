----------------------------- MODULE SinksProofs -----------------------------
(***************************************************************************)
(* Proofs about Sinks, for any number of buffers, clients and files: the    *)
(* accounts of the mpegts sink and of its transport agree, the buffers of   *)
(* both devices are kept, frames of a file are given in its order, and a    *)
(* file with a name is final.                                               *)
(***************************************************************************)
EXTENDS Sinks, QueueLemmas

-----------------------------------------------------------------------------
(* The files of the transport *)

(* A file with a name is open in neither descriptor, and is not the hidden  *)
(* one: nothing writes it.  The descriptor that is not the current one leads*)
(* to no file, so that a file that gets its name is closed.                 *)
NamedShut == \A n \in DOMAIN dir : dir[n] \in Inodes \ {hidden, ffd[0], ffd[1]}
FilesOK ==
    /\ curfd \in 0 .. 1
    /\ ffd \in [0 .. 1 -> Int] /\ ffd[1 - curfd] <= 0
    /\ hidden \in 0 .. MaxInodes
    /\ DOMAIN length = Inodes
    /\ NamedShut

LEMMA FilesInit == Init => FilesOK
BY FileAssumption DEF Init, FileInit, FilesOK, NamedShut, Stdin

(* The other descriptor.                                                    *)
LEMMA OtherFd == curfd \in 0 .. 1 => (curfd + 1) % 2 = 1 - curfd
OBVIOUS

(* proto_connect() opens a file that has no name.                           *)
LEMMA WriteConnectFiles ==
  ASSUME FilesOK, WriteConnect
  PROVE  FilesOK' /\ \A n \in DOMAIN dir : length'[dir[n]] = length[dir[n]]
<1> DEFINE other == 1 - curfd
           free == FreeInodes \cup ({hidden} \ ({0} \cup Opened))
<1>1. (curfd + 1) % 2 = other /\ other \in 0 .. 1 /\ dir' = dir
  BY OtherFd DEF FilesOK, WriteConnect
<1>2. CASE free = {}
  <2>1. /\ ffd' = [ffd EXCEPT ![other] = Closed] /\ hidden' = 0
        /\ curfd' = curfd /\ length' = length
    BY <1>1, <1>2 DEF WriteConnect
  <2>2. ffd' \in [0 .. 1 -> Int] /\ ffd'[other] = Closed /\ ffd'[curfd] = ffd[curfd]
    BY <1>1, <2>1 DEF FilesOK, Closed
  <2>3. NamedShut'
    BY <1>1, <2>1, <2>2, FileAssumption DEF FilesOK, NamedShut, Inodes, Closed
  <2> QED
    BY <1>1, <2>1, <2>2, <2>3, FileAssumption DEF FilesOK, Closed
<1>3. CASE free # {}
  <2>1. PICK i \in free : /\ ffd' = Release(i, other) /\ curfd' = other
                          /\ hidden' = i /\ length' = [length EXCEPT ![i] = 0]
    <3>1. (CHOOSE i \in free : TRUE) \in free
      BY <1>3
    <3> QED
      BY <1>1, <1>3, <3>1 DEF WriteConnect
  <2>2. i \in Inodes /\ \A n \in DOMAIN dir : dir[n] # i
    BY <2>1, FileAssumption DEF FilesOK, NamedShut, FreeInodes, Inodes, Linked
  <2>3. /\ ffd' \in [0 .. 1 -> Int] /\ ffd'[other] = i /\ ffd'[curfd] <= 0
    BY <1>1, <2>1, <2>2, FileAssumption DEF FilesOK, Release, Inodes, Closed
  <2>4. NamedShut'
    BY <1>1, <2>1, <2>2, <2>3 DEF FilesOK, NamedShut, Inodes
  <2>5. FilesOK'
    BY <1>1, <2>1, <2>2, <2>3, <2>4, FileAssumption DEF FilesOK, Inodes
  <2> QED
    BY <2>1, <2>2, <2>5 DEF FilesOK, NamedShut
<1> QED
  BY <1>2, <1>3

(* proto_close() gives its name to a file that no descriptor leads to any    *)
(* more.                                                                    *)
LEMMA FileCloseFiles == FilesOK /\ FileClose => FilesOK'
<1> SUFFICES ASSUME FilesOK, FileClose PROVE FilesOK'
  OBVIOUS
<1>1. UNCHANGED <<curfd, length>>
  BY DEF FileClose
<1>2. CASE UNCHANGED <<ffd, dir, hidden>>
  BY <1>1, <1>2 DEF FilesOK, NamedShut
<1>3. CASE ffd' = Shut /\ UNCHANGED <<dir, hidden>>
  BY <1>1, <1>3 DEF FilesOK, NamedShut, Shut, Closed, Inodes
<1>4. CASE ffd' = Shut /\ dir' = WithName(Name) /\ hidden # 0 /\ hidden' = 0
  <2>1. \A n \in DOMAIN dir' : dir'[n] \in {hidden} \cup { dir[m] : m \in DOMAIN dir }
    BY <1>4 DEF WithName
  <2>2. ffd' \in [0 .. 1 -> Int] /\ ffd'[0] <= 0 /\ ffd'[1] <= 0
    BY <1>4 DEF FilesOK, Shut, Closed
  <2> QED
    BY <1>1, <1>4, <2>1, <2>2, FileAssumption DEF FilesOK, NamedShut, Inodes
<1> QED
  BY <1>2, <1>3, <1>4 DEF FileClose

LEMMA FilesStep ==
  ASSUME FilesOK, FileNext
  PROVE  FilesOK' /\ \A n \in DOMAIN dir : length'[dir[n]] = length[dir[n]]
<1>1. CASE ReadConnect
  BY <1>1, FileAssumption DEF FilesOK, NamedShut, ReadConnect, Source, Inodes
<1>2. CASE WriteConnect
  BY <1>2, WriteConnectFiles
<1>3. CASE FileSend
  BY <1>3 DEF FilesOK, NamedShut, FileSend, Stdin, Closed
<1>4. CASE FileRecv
  BY <1>4 DEF FilesOK, NamedShut, FileRecv
<1>5. CASE FileFlush
  BY <1>5 DEF FilesOK, NamedShut, FileFlush, fileVars
<1>6. CASE FileClose
  BY <1>6, FileCloseFiles DEF FileClose
<1>7. CASE ReadClose
  BY <1>7 DEF FilesOK, NamedShut, ReadClose, Shut, Closed, Inodes
<1>8. CASE Second
  BY <1>8 DEF FilesOK, NamedShut, Second
<1> QED
  BY <1>1, <1>2, <1>3, <1>4, <1>5, <1>6, <1>7, <1>8 DEF FileNext

-----------------------------------------------------------------------------
(* The buffers of the mpegts sink *)

(* Each one is upstream or in the sink; the one of the call under way is    *)
(* queued while the frame is sent, and ready when it is given back.         *)
MStates == {"invalid", "dequeued", "queued", "ready"}
StatesOK ==
    /\ mstate \in [Buffers -> MStates]
    /\ cur \in Buffers /\ currentid \in Buffers
    /\ Sending => mstate[cur] = "queued"
    /\ pc = "flush" => mstate[cur] = "ready"
UpOK ==
    /\ up \in Seq(Buffers) /\ Distinct(up)
    /\ \A b \in Buffers : Has(up, b) <=> mstate[b] \in {"invalid", "dequeued"}
MpegtsKept == StatesOK /\ UpOK

LEMMA MpegtsKeptInit == Init /\ device = "mpegts" => MpegtsKept
<1> SUFFICES ASSUME Init, device = "mpegts" PROVE MpegtsKept
  OBVIOUS
<1>1. up = [i \in 1 .. NBuffers |-> i - 1]
  BY DEF Init
<1>2. up \in Seq(Buffers) /\ Distinct(up) /\ \A b \in Buffers : Has(up, b)
  BY <1>1, AllInOrder
<1>3. StatesOK
  BY NBuffersAssumption DEF Init, MpegtsInit, StatesOK, Sending, Buffers, MStates
<1> QED
  BY <1>2, <1>3 DEF MpegtsKept, UpOK, Init, MpegtsInit

(* The queue upstream follows the states.                                   *)
LEMMA UpRests ==
  ASSUME UpOK, UNCHANGED up,
         \A b \in Buffers : mstate'[b] \in {"invalid", "dequeued"}
                              <=> mstate[b] \in {"invalid", "dequeued"}
  PROVE  UpOK'
BY DEF UpOK, Has, Distinct

LEMMA UpTaken ==
  ASSUME UpOK, NEW b, TakeUp(b), mstate \in [Buffers -> MStates],
         mstate' = [mstate EXCEPT ![b] = "queued"]
  PROVE  b \in Buffers /\ UpOK'
<1> DEFINE h == Head(up)
           t == Tail(up)
<1>1. /\ h \in Buffers /\ Has(up, h) /\ t \in Seq(Buffers) /\ Distinct(t)
      /\ \A c \in Buffers : Has(t, c) <=> Has(up, c) /\ c # h
  BY TailKeeps DEF TakeUp, UpOK
<1>2. b = h /\ up' = t
  BY DEF TakeUp
<1> HIDE DEF h, t
<1>3. \A c \in Buffers : mstate'[c] = IF c = h THEN "queued" ELSE mstate[c]
  BY <1>1, <1>2
<1> QED
  BY <1>1, <1>2, <1>3 DEF UpOK, Has, Distinct

LEMMA UpPut ==
  ASSUME UpOK, NEW b \in Buffers, PutUp(b), mstate \in [Buffers -> MStates],
         mstate[b] \in {"queued", "ready"},
         mstate' = [mstate EXCEPT ![b] = "dequeued"]
  PROVE  UpOK'
<1> DEFINE a == Append(up, b)
<1>1. ~ Has(up, b)
  BY DEF UpOK
<1>2. /\ a \in Seq(Buffers) /\ Distinct(a)
      /\ \A c \in Buffers : Has(a, c) <=> Has(up, c) \/ c = b
  BY <1>1, AppendKeeps DEF UpOK
<1>3. up' = a
  BY DEF PutUp
<1> HIDE DEF a
<1>4. \A c \in Buffers : mstate'[c] = IF c = b THEN "dequeued" ELSE mstate[c]
  OBVIOUS
<1>5. \A c \in Buffers : mstate'[c] \in {"invalid", "dequeued"} <=> Has(a, c)
  BY <1>2, <1>4 DEF UpOK
<1>6. up' \in Seq(Buffers) /\ Distinct(up') /\ \A c \in Buffers : Has(up', c) <=> Has(a, c)
  BY <1>2, <1>3
<1> QED
  BY <1>5, <1>6 DEF UpOK, Has, Distinct

(* A set of numbers has a first.                                            *)
LEMMA NatMin ==
  ASSUME NEW D \in SUBSET Nat, D # {}
  PROVE  \E d \in D : \A e \in D : d <= e
<1>1. PICK d \in D : \A e \in D : ~ (<<e, d>> \in OpToRel(<, Nat))
  BY NatLessThanWellFounded, WFMin
<1>2. \A e \in D : ~ (e < d)
  BY <1>1 DEF OpToRel
<1> QED
  BY <1>2

(* mpegts_dequeue() gives a buffer that was sent.                           *)
LEMMA GivenWasSent ==
  ASSUME StatesOK, Sent # {}
  PROVE  ToGive \in Sent
<1> DEFINE D == { Distance(b) : b \in Sent }
<1>1. \A b \in Buffers : Distance(b) \in Nat
  BY NBuffersAssumption DEF Distance, StatesOK, Buffers
<1>2. D \in SUBSET Nat /\ D # {}
  BY <1>1 DEF Sent
<1>3. PICK d \in D : \A e \in D : d <= e
  BY <1>2, NatMin
<1>4. PICK b \in Sent : d = Distance(b)
  BY <1>3
<1>5. \A c \in Sent : Distance(b) <= Distance(c)
  BY <1>3, <1>4
<1> QED
  BY <1>4, <1>5 DEF ToGive

(* The steps that leave the states as they are.                              *)
LEMMA StatesRest ==
  ASSUME MpegtsKept, UNCHANGED <<mstate, cur, currentid, up>>,
         Sending' => Sending, pc' = "flush" => pc = "flush"
  PROVE  MpegtsKept'
<1>1. UpOK'
  BY UpRests DEF MpegtsKept
<1>2. StatesOK'
  BY DEF MpegtsKept, StatesOK
<1> QED
  BY <1>1, <1>2 DEF MpegtsKept

(* A piece is sent: the frame goes on, or it is done.                        *)
LEMMA PieceKept ==
  ASSUME MpegtsKept, Sending, UNCHANGED <<up, cur, currentid>>,
         \/ UNCHANGED mstate /\ pc' # "flush"
         \/ pc' = "idle" /\ mstate' = [mstate EXCEPT ![cur] = "ready"]
  PROVE  MpegtsKept'
<1>1. mstate[cur] = "queued"
  BY DEF MpegtsKept, StatesOK
<1>2. UpOK'
  <2>1. \A b \in Buffers : mstate'[b] \in {"invalid", "dequeued"}
                           <=> mstate[b] \in {"invalid", "dequeued"}
    BY <1>1 DEF MpegtsKept, StatesOK
  <2> QED
    BY <2>1, UpRests DEF MpegtsKept
<1>3. StatesOK'
  BY <1>1 DEF MpegtsKept, StatesOK, Sending, MStates
<1> QED
  BY <1>2, <1>3 DEF MpegtsKept

LEMMA MpegtsQueueKept ==
  ASSUME MpegtsKept, NEW b \in Buffers, NEW n, TakeUp(b), MpegtsQueue(b, n)
  PROVE  MpegtsKept'
<1>1. /\ mstate' = [mstate EXCEPT ![b] = "queued"] /\ cur' = b
      /\ currentid' = currentid /\ pc' = "header"
  BY DEF MpegtsQueue, NextPacket
<1>2. UpOK'
  BY <1>1, UpTaken DEF MpegtsKept, StatesOK
<1>3. StatesOK'
  BY <1>1 DEF MpegtsKept, StatesOK, Sending, MStates
<1> QED
  BY <1>2, <1>3 DEF MpegtsKept

LEMMA SendAgainKept ==
  ASSUME MpegtsKept, SendAgain, PutUp(cur)
  PROVE  MpegtsKept'
<1>1. /\ mstate' = [mstate EXCEPT ![cur] = "dequeued"] /\ mstate[cur] = "queued"
      /\ cur \in Buffers /\ UNCHANGED <<cur, currentid>> /\ pc' = "idle"
  BY DEF SendAgain, Refused, sendVars, MpegtsKept, StatesOK
<1>2. UpOK'
  BY <1>1, UpPut DEF MpegtsKept, StatesOK
<1>3. StatesOK'
  BY <1>1 DEF MpegtsKept, StatesOK, Sending, MStates
<1> QED
  BY <1>2, <1>3 DEF MpegtsKept

LEMMA MpegtsDequeueKept ==
  ASSUME MpegtsKept, MpegtsDequeue, UNCHANGED up
  PROVE  MpegtsKept'
<1>1. ToGive \in Buffers /\ mstate[ToGive] = "ready"
  BY GivenWasSent DEF MpegtsKept, MpegtsDequeue, Sent
<1>2. UpOK'
  BY UpRests DEF MpegtsKept, MpegtsDequeue
<1>3. StatesOK'
  BY <1>1 DEF MpegtsKept, StatesOK, MpegtsDequeue, Sending, MStates
<1> QED
  BY <1>2, <1>3 DEF MpegtsKept

LEMMA MpegtsDequeuedKept ==
  ASSUME MpegtsKept, MpegtsDequeued, PutUp(cur)
  PROVE  MpegtsKept'
<1>1. /\ mstate' = [mstate EXCEPT ![cur] = "dequeued"] /\ mstate[cur] = "ready"
      /\ cur \in Buffers /\ UNCHANGED <<cur, currentid>> /\ pc' = "idle"
  BY DEF MpegtsDequeued, sendVars, MpegtsKept, StatesOK
<1>2. UpOK'
  BY <1>1, UpPut DEF MpegtsKept, StatesOK
<1>3. StatesOK'
  BY <1>1 DEF MpegtsKept, StatesOK, Sending, MStates
<1> QED
  BY <1>2, <1>3 DEF MpegtsKept

LEMMA MpegtsStepKept ==
  ASSUME MpegtsKept, MpegtsSteps
  PROVE  MpegtsKept'
<1>1. CASE UNCHANGED up /\ (MpegtsStart \/ MpegtsStarted \/ SendError \/ MpegtsStop)
  <2>1. UNCHANGED <<mstate, cur, currentid>> /\ pc' \in {"start", "idle", "failed", "stopped"}
    BY <1>1 DEF MpegtsStart, MpegtsStarted, SendError, MpegtsStop, sendVars
  <2> QED
    BY <1>1, <2>1, StatesRest DEF Sending
<1>2. CASE UNCHANGED up /\ HeaderSent
  <2>1. Sending /\ UNCHANGED <<mstate, cur, currentid>> /\ pc' = "payload"
    BY <1>2 DEF HeaderSent, Sending
  <2> QED
    BY <1>2, <2>1, PieceKept
<1>3. CASE UNCHANGED up /\ (PayloadSent \/ KlvSent \/ TableSent)
  <2>1. Sending /\ UNCHANGED <<cur, currentid>>
    BY <1>3 DEF PayloadSent, KlvSent, TableSent, Sending
  <2>2. ASSUME NEW r, Fill(r)
        PROVE  \/ UNCHANGED mstate /\ pc' # "flush"
               \/ pc' = "idle" /\ mstate' = [mstate EXCEPT ![cur] = "ready"]
    BY <2>2 DEF Fill, Done
  <2>3. ASSUME NEW r, AfterFrame(r)
        PROVE  \/ UNCHANGED mstate /\ pc' # "flush"
               \/ pc' = "idle" /\ mstate' = [mstate EXCEPT ![cur] = "ready"]
    BY <2>2, <2>3 DEF AfterFrame
  <2>4. \/ UNCHANGED mstate /\ pc' # "flush"
        \/ pc' = "idle" /\ mstate' = [mstate EXCEPT ![cur] = "ready"]
    BY <1>3, <2>2, <2>3 DEF PayloadSent, KlvSent, TableSent, NextPacket
  <2> QED
    BY <1>3, <2>1, <2>4, PieceKept
<1>4. CASE UNCHANGED up /\ MpegtsDequeue
  BY <1>4, MpegtsDequeueKept
<1>5. CASE \E b \in Buffers, n \in 1 .. MaxPackets : TakeUp(b) /\ MpegtsQueue(b, n)
  BY <1>5, MpegtsQueueKept
<1>6. CASE SendAgain /\ PutUp(cur)
  BY <1>6, SendAgainKept
<1>7. CASE MpegtsDequeued /\ PutUp(cur)
  BY <1>7, MpegtsDequeuedKept
<1> QED
  BY <1>1, <1>2, <1>3, <1>4, <1>5, <1>6, <1>7 DEF MpegtsSteps

-----------------------------------------------------------------------------
(* The accounts of the mpegts sink and of its transport *)

(* The device has counted the pieces up to here, and the transport has them.*)
Before == IF pc = "payload" THEN room + Header ELSE room
Piece  == IF pc = "header" THEN Header ELSE IF pc = "payload" THEN Payload ELSE Packet

(* The piece after which the packet of the transport leaves.                *)
Leaves == pc # "header" /\ IsLast(Before)

(* Room for whole packets, as many as are missing.                          *)
Aligned(r) == r \in Int /\ Packet <= r /\ r <= mtu /\ (mtu - r) % Packet = 0

UnderWay == call.op = "send" /\ call.len = Piece /\ call.more = ~ Leaves
PieceOK ==
    \/ UnderWay /\ walk = NoCall /\ Gathered = mtu - room
    \/ UnderWay /\ walk = call /\ Leaves
    \/ /\ call = NoCall /\ reply = "ok"
       /\ Gathered = IF Leaves THEN 0 ELSE mtu - (room - Piece)
    \/ call = NoCall /\ reply # "ok" /\ (reply = "again" => Gathered = 0)
SendingOK ==
    /\ room \in Int /\ Aligned(Before)
    /\ pc # "table" => last = IsLast(Before)
    /\ pc = "table" => psi # "none"
    /\ PieceOK

(* What may be called when no frame is under way.                           *)
CallOK ==
    /\ walk # NoCall => walk = call /\ proto = "unix" /\ call.op \in {"send", "flush"}
    /\ pc \in {"created", "idle"} => call = NoCall
    /\ pc = "start" => call = NoCall \/ call.op = "connect"
    /\ pc \in {"failed", "stopped"} => call = NoCall \/ call.op = "close"
    /\ pc = "flush" => \/ call = NoCall
                       \/ call.op = "flush" /\ call.len = 0 /\ ~ call.more

MtuOK ==
    /\ proto \in {"unix", "udp"} /\ mtu = MtuOf[proto]
    /\ mtu \in Nat /\ Packet < mtu /\ mtu % Packet # 0

Quiet == pc \in {"created", "start", "idle", "flush"}
RestOK ==
    /\ pc \in {"created", "start", "idle", "flush", "failed", "stopped"} \/ Sending
    /\ psi \in {"none", "pmt", "pat", "sdt", "null"}
    /\ Quiet => Gathered = 0
    /\ pc \in {"created", "start", "idle"} /\ mstate[cur] = "ready" => psi # "none"
StreamOK == MtuOK /\ CallOK /\ RestOK /\ (Sending => SendingOK)

(* The calls that the device makes.                                         *)
LEMMA CallIs ==
  ASSUME NEW op, Call(op), op # "none"
  PROVE  call' # NoCall /\ call'.op = op /\ call'.len = 0 /\ ~ call'.more
BY DEF Call, NoCall
LEMMA SendIs ==
  ASSUME NEW n, NEW more, NEW s, Send(n, more, s)
  PROVE  call' # NoCall /\ call'.op = "send" /\ call'.len = n /\ call'.more = more
BY DEF Send, NoCall

LEMMA StreamInit ==
  ASSUME Init, device = "mpegts", proto # "file", UdpMtu % Packet # 0
  PROVE  StreamOK
<1>1. MtuOK
  BY UnixMtuAssumption, UdpMtuAssumption DEF Init, MtuOK, MtuOf
<1>2. CallOK
  BY DEF Init, MpegtsInit, UnixInit, CallOK
<1>3. RestOK
  BY NBuffersAssumption DEF Init, MpegtsInit, UnixInit, UdpInit, RestOK, Gathered, Buffers
<1> QED
  BY <1>1, <1>2, <1>3 DEF StreamOK, Init, MpegtsInit, Sending

-----------------------------------------------------------------------------
(* The transport *)

(* It answers the piece of a packet.                                        *)
LEMMA PieceSize ==
  ASSUME MtuOK, Sending, SendingOK
  PROVE  /\ room \in Int /\ Piece \in Int /\ 0 < Piece
         /\ mtu - room + Piece <= mtu
         /\ ~ Leaves => mtu - room + Piece < mtu
<1>1. Before \in Int /\ 4 <= Before /\ mtu \in Nat
  BY DEF MtuOK, SendingOK, Aligned, Packet
<1>2. CASE pc = "payload"
  <2>1. room + 1 \in Int /\ 4 <= room + 1 /\ Piece = 3 /\ Before = room + 1
    BY <1>1, <1>2 DEF Before, Header, Piece, Payload, Packet
  <2>2. room \in Int
    BY DEF SendingOK
  <2>3. ~ Leaves => 8 <= room + 1
    BY <1>2, <2>1 DEF Leaves, IsLast, Packet
  <2> QED
    BY <1>1, <2>1, <2>2, <2>3
<1>3. CASE pc = "header"
  BY <1>1, <1>3 DEF Before, Header, Piece
<1>4. CASE pc \in {"klv", "table"}
  <2>1. room = Before /\ Piece = 4
    BY <1>4 DEF Before, Piece, Packet
  <2>2. ~ Leaves => 8 <= room
    BY <1>1, <1>4, <2>1 DEF Leaves, IsLast, Packet
  <2> QED
    BY <1>1, <2>1, <2>2
<1> QED
  BY <1>2, <1>3, <1>4 DEF Sending

(* A step of the transport.                                                 *)
LEMMA TransportStep ==
  ASSUME StreamOK, UNCHANGED <<mpegtsVars, proto>>,
         CallOK', Quiet => Gathered' = 0, Sending => PieceOK'
  PROVE  StreamOK'
<1>1. /\ UNCHANGED <<mtu, pc, mstate, cur, psi, last, room>>
      /\ Sending' = Sending /\ Quiet' = Quiet
  BY DEF mpegtsVars, mpegtsConf, sendVars, Sending, Quiet
<1>2. MtuOK' /\ RestOK'
  BY <1>1 DEF StreamOK, MtuOK, MtuOf, RestOK
<1>3. ASSUME Sending PROVE SendingOK'
  BY <1>1, <1>3 DEF StreamOK, SendingOK, Aligned, Before, IsLast
<1> QED
  BY <1>1, <1>2, <1>3 DEF StreamOK

(* The local socket: proto_send() up to the clients.                         *)
LEMMA UnixSendOK ==
  ASSUME StreamOK, proto = "unix", UnixSend, UNCHANGED <<mpegtsVars, proto>>
  PROVE  StreamOK'
<1> DEFINE full == offset + call.len >= UnixMtu
<1>1. /\ call.op \in {"send", "flush"} /\ call # NoCall /\ walk = NoCall
      /\ mtu = UnixMtu /\ Gathered = offset /\ Gathered' = offset'
      /\ UNCHANGED <<pc, mtu, room, last>>
  BY DEF UnixSend, StreamOK, MtuOK, MtuOf, Gathered, NoCall, mpegtsVars, mpegtsConf, sendVars
<1>2. CASE Sending
  <2>1. UnderWay /\ offset = mtu - room
    BY <1>1, <1>2 DEF StreamOK, SendingOK, PieceOK
  <2>2. /\ room \in Int /\ Piece \in Int /\ 0 < Piece
        /\ ~ Leaves => mtu - room + Piece < mtu
    BY <1>2, PieceSize DEF StreamOK
  <2>3. ~ Leaves => call.more /\ ~ full
    <3>1. SUFFICES ASSUME ~ Leaves PROVE call.more /\ ~ full
      OBVIOUS
    <3>2. call.more /\ call.len = Piece
      BY <2>1, <3>1 DEF UnderWay
    <3> QED
      BY <1>1, <2>1, <2>2, <3>1, <3>2, UnixMtuAssumption
  <2>4. Leaves => ~ call.more
    BY <2>1 DEF UnderWay
  <2>5. CASE Leaves
    <3>1. walk' = call /\ UNCHANGED <<call, reply>>
      BY <2>4, <2>5 DEF UnixSend
    <3>2. PieceOK'
      BY <1>1, <2>1, <2>5, <3>1 DEF PieceOK, UnderWay, Leaves, Before, Piece
    <3> QED
      BY <1>1, <1>2, <3>1, <3>2, TransportStep DEF StreamOK, CallOK, Sending, Quiet
  <2>6. CASE ~ Leaves
    <3>1. /\ call' = NoCall /\ reply' = "ok" /\ walk' = NoCall
          /\ offset' = offset + call.len
      BY <1>1, <2>3, <2>6 DEF UnixSend, Answer
    <3>2. offset' = mtu - (room - Piece)
      BY <1>1, <2>1, <2>2, <3>1, UnixMtuAssumption DEF UnderWay
    <3>3. PieceOK'
      BY <1>1, <2>6, <3>1, <3>2 DEF PieceOK, Leaves, Before, Piece
    <3> QED
      BY <1>1, <1>2, <3>1, <3>3, TransportStep DEF StreamOK, CallOK, Sending, Quiet
  <2> QED
    BY <2>5, <2>6
<1>3. CASE ~ Sending
  <2>1. pc = "flush" /\ call.op = "flush" /\ call.len = 0 /\ ~ call.more /\ offset = 0
    BY <1>1, <1>3 DEF StreamOK, CallOK, RestOK, Quiet
  <2>2. offset' = 0 /\ walk' = call /\ UNCHANGED <<call, reply>>
    BY <2>1, UnixMtuAssumption DEF UnixSend, Packet
  <2>3. CallOK'
    BY <1>1, <2>1, <2>2 DEF CallOK, StreamOK
  <2> QED
    BY <1>1, <1>3, <2>2, <2>3, TransportStep DEF Quiet
<1> QED
  BY <1>2, <1>3

(* The end of the loop on the clients empties the packet.                    *)
LEMMA WalkEndOK ==
  ASSUME StreamOK, proto = "unix", WalkEnd, UNCHANGED <<mpegtsVars, proto>>
  PROVE  StreamOK'
<1>1. /\ call' = NoCall /\ walk' = NoCall /\ offset' = 0 /\ Gathered' = 0
      /\ reply' \in {"again", "ok"} /\ walk # NoCall
      /\ UNCHANGED <<pc, mtu, room, last>>
  BY DEF WalkEnd, Answer, Emptied, Gathered, mpegtsVars, mpegtsConf, sendVars
<1>2. CallOK'
  BY <1>1 DEF StreamOK, CallOK
<1>3. ASSUME Sending PROVE PieceOK'
  <2>1. Leaves
    BY <1>1, <1>3 DEF StreamOK, SendingOK, PieceOK, CallOK
  <2>2. Leaves'
    BY <1>1, <2>1 DEF Leaves, Before
  <2> QED
    BY <1>1, <2>2 DEF PieceOK
<1> QED
  BY <1>1, <1>2, <1>3, TransportStep

(* Connections do not disturb the accounts.                                  *)
LEMMA AccountsRest ==
  ASSUME StreamOK, UNCHANGED <<mpegtsVars, proto, call, reply, walk>>, Gathered' = Gathered
  PROVE  StreamOK'
<1>1. UNCHANGED <<pc, mtu, room, last>>
  BY DEF mpegtsVars, mpegtsConf, sendVars
<1>2. CallOK'
  BY <1>1 DEF StreamOK, CallOK
<1>3. Sending => PieceOK'
  BY <1>1 DEF StreamOK, SendingOK, PieceOK, UnderWay, Leaves, Before, Piece
<1> QED
  BY <1>2, <1>3, TransportStep DEF StreamOK, RestOK

(* Connection, flush and end are answered.                                   *)
LEMMA OtherAnswer ==
  ASSUME StreamOK, UNCHANGED <<mpegtsVars, proto, walk>>, Gathered' \in {0, Gathered},
         call.op \in {"connect", "flush", "close"}, walk = NoCall,
         call' = NoCall
  PROVE  StreamOK'
<1>1. ~ Sending
  BY DEF StreamOK, SendingOK, PieceOK, UnderWay, NoCall
<1>2. CallOK'
  BY DEF StreamOK, CallOK
<1> QED
  BY <1>1, <1>2, TransportStep DEF StreamOK, RestOK

LEMMA UnixStepOK ==
  ASSUME StreamOK, proto = "unix", UnixNext, UNCHANGED <<mpegtsVars, proto>>
  PROVE  StreamOK'
<1>1. CASE UnixConnect
  <2>1. UNCHANGED <<walk, offset>> /\ call' = NoCall /\ call.op = "connect"
    BY <1>1 DEF UnixConnect, Answer
  <2>2. walk = NoCall
    BY <2>1 DEF StreamOK, CallOK
  <2> QED
    BY <2>1, <2>2, OtherAnswer DEF Gathered
<1>2. CASE UnixSend
  BY <1>2, UnixSendOK
<1>3. CASE NextClient \/ SendTo(task["device"].entry) \/ LoseClient
  BY <1>3, AccountsRest DEF NextClient, SendTo, LoseClient, Gathered
<1>4. CASE WalkEnd
  BY <1>4, WalkEndOK
<1>5. CASE UnixClose
  <2>1. UNCHANGED <<walk, offset>> /\ call.op = "close" /\ walk = NoCall
    BY <1>5 DEF UnixClose, StreamOK, CallOK
  <2>2. CASE UNCHANGED <<call, reply>>
    BY <2>1, <2>2, AccountsRest DEF Gathered
  <2>3. CASE call' = NoCall
    BY <2>1, <2>3, OtherAnswer DEF Gathered
  <2> QED
    BY <1>5, <2>2, <2>3 DEF UnixClose, Answer
<1>6. CASE \E p \in Peers : Accept(p) \/ PeerStep(p)
  BY <1>6, AccountsRest DEF Accept, PeerStep, Gathered
<1>7. CASE TakeEntry \/ AddClient \/ InList \/ Segv
  BY <1>7, AccountsRest DEF TakeEntry, AddClient, InList, Segv, Gathered
<1> QED
  BY <1>1, <1>2, <1>3, <1>4, <1>5, <1>6, <1>7 DEF UnixNext

(* The kernel has the pieces of a datagram.                                  *)
LEMMA UdpSendOK ==
  ASSUME StreamOK, proto = "udp", UdpSend, UNCHANGED <<mpegtsVars, proto, walk>>
  PROVE  StreamOK'
<1>1. /\ call.op = "send" /\ call' = NoCall /\ walk = NoCall
      /\ Gathered = corked /\ Gathered' = corked'
      /\ UNCHANGED <<pc, mtu, room, last>>
  BY DEF UdpSend, Answer, StreamOK, CallOK, Gathered, mpegtsVars, mpegtsConf, sendVars
<1>2. Sending
  BY <1>1 DEF StreamOK, RestOK, CallOK, NoCall
<1>3. UnderWay /\ corked = mtu - room
  BY <1>1, <1>2 DEF StreamOK, SendingOK, PieceOK, NoCall
<1>4. room \in Int /\ Piece \in Int /\ mtu \in Nat
  BY <1>2, PieceSize DEF StreamOK, MtuOK
<1>5. \/ reply' = "ok" /\ corked' = IF Leaves THEN 0 ELSE mtu - (room - Piece)
      \/ reply' = "error"
  <2>1. call.len = Piece /\ (call.more <=> ~ Leaves)
    BY <1>3 DEF UnderWay
  <2>2. mtu - room + Piece = mtu - (room - Piece)
    BY <1>4
  <2> QED
    BY <1>3, <2>1, <2>2 DEF UdpSend, Answer
<1>6. PieceOK'
  BY <1>1, <1>5 DEF PieceOK, Leaves, Before, Piece
<1> QED
  BY <1>1, <1>2, <1>6, TransportStep DEF StreamOK, CallOK, Sending, Quiet

LEMMA UdpStepOK ==
  ASSUME StreamOK, proto = "udp", UdpNext, UNCHANGED <<mpegtsVars, proto, walk>>
  PROVE  StreamOK'
<1>1. CASE BindInterface
  BY <1>1, AccountsRest DEF BindInterface, Gathered
<1>2. CASE UdpConnect \/ UdpFlush \/ UdpClose
  <2>1. /\ call.op \in {"connect", "flush", "close"} /\ call' = NoCall
        /\ corked' \in {0, corked} /\ walk = NoCall
    BY <1>2 DEF UdpConnect, UdpFlush, UdpClose, Answer, udpVars, StreamOK, CallOK
  <2> QED
    BY <2>1, OtherAnswer DEF Gathered
<1>3. CASE UdpSend
  BY <1>3, UdpSendOK
<1> QED
  BY <1>1, <1>2, <1>3 DEF UdpNext

-----------------------------------------------------------------------------
(* The device *)

(* Its steps leave the transport alone.                                      *)
Still == UNCHANGED <<mtu, proto, unixVars, udpVars>>

LEMMA StillMeans ==
  ASSUME Still, MtuOK
  PROVE  /\ MtuOK' /\ Gathered' = Gathered /\ walk' = walk /\ mtu' = mtu
         /\ mtu \in Nat /\ 4 < mtu /\ Packet = 4
BY DEF Still, MtuOK, MtuOf, Gathered, unixVars, udpVars, Packet

(* Between two pieces: the accounts agree.                                   *)
Open(r) == Aligned(r) /\ Gathered = mtu - r

LEMMA OpenAtStart ==
  ASSUME MtuOK, Gathered = 0
  PROVE  Open(mtu)
BY DEF MtuOK, Open, Aligned, Packet

(* One packet less.                                                          *)
LEMMA OpenNext ==
  ASSUME MtuOK, NEW r, Aligned(r), ~ IsLast(r), Gathered = mtu - (r - Packet)
  PROVE  Open(r - Packet)
<1>1. r \in Int /\ 8 <= r /\ r <= mtu /\ mtu \in Nat /\ (mtu - r) % 4 = 0 /\ Packet = 4
  BY DEF MtuOK, Aligned, IsLast, Packet
<1>2. (mtu - (r - 4)) % 4 = 0
  BY <1>1
<1> QED
  BY <1>1, <1>2 DEF Open, Aligned

LEMMA NextPacketOK ==
  ASSUME MtuOK, Still, walk = NoCall, NEW n, NEW f, NEW r, Open(r), NextPacket(n, f, r)
  PROVE  StreamOK'
<1>1. /\ pc' = "header" /\ room' = r /\ last' = IsLast(r) /\ psi' = "none"
      /\ call'.op = "send" /\ call'.len = Header /\ call'.more
  BY SendIs DEF NextPacket
<1>2. MtuOK' /\ Gathered' = Gathered /\ walk' = NoCall /\ mtu' = mtu
  BY StillMeans
<1>3. Aligned(Before)' /\ r \in Int
  BY <1>1, <1>2 DEF Open, Aligned, Before
<1>4. PieceOK'
  BY <1>1, <1>2 DEF PieceOK, UnderWay, Piece, Leaves, Open
<1>5. SendingOK'
  BY <1>1, <1>3, <1>4 DEF SendingOK, Before, IsLast
<1>6. CallOK' /\ RestOK'
  BY <1>1, <1>2 DEF CallOK, RestOK, Quiet, Sending
<1> QED
  BY <1>2, <1>5, <1>6 DEF StreamOK

(* _client_filldata(): a table more, or the frame is done.                   *)
LEMMA FillOK ==
  ASSUME StreamOK, Still, walk = NoCall, call = NoCall, cur \in Buffers, NEW r, Fill(r),
         cur' = cur,
         \/ Open(r)
         \/ r \in Int /\ r < Packet /\ Gathered = 0 /\ psi # "none"
  PROVE  StreamOK'
<1>1. MtuOK' /\ Gathered' = Gathered /\ walk' = NoCall /\ mtu' = mtu /\ Packet = 4
  BY StillMeans DEF StreamOK
<1>2. CASE Open(r)
  <2>1. HasRoom(r) /\ r \in Int
    <3>1. r \in Int /\ 4 <= r /\ r <= mtu /\ mtu \in Nat /\ (mtu - r) % 4 = 0 /\ mtu % 4 # 0
      BY <1>1, <1>2 DEF Open, Aligned, StreamOK, MtuOK
    <3>2. r # 4
      BY <3>1
    <3> QED
      BY <1>1, <3>1, <3>2 DEF HasRoom
  <2>2. /\ pc' = "table" /\ room' = r /\ psi' = Tables[psi] /\ last' = last
        /\ call'.op = "send" /\ call'.len = Packet /\ call'.more = ~ IsLast(r)
    BY <2>1, SendIs DEF Fill
  <2>3. psi' \in {"pmt", "pat", "sdt", "null"}
    BY <2>2 DEF StreamOK, RestOK, Tables
  <2>4. Aligned(Before)' /\ r \in Int
    BY <1>1, <1>2, <2>2 DEF Open, Aligned, Before
  <2>5. Leaves' <=> IsLast(r)
    BY <2>2 DEF Leaves, Before, IsLast
  <2>6. Piece' = Packet
    BY <2>2 DEF Piece
  <2>7. PieceOK'
    BY <1>1, <1>2, <2>2, <2>5, <2>6 DEF PieceOK, UnderWay, Open
  <2>8. SendingOK'
    BY <2>2, <2>3, <2>4, <2>7 DEF SendingOK
  <2>9. CallOK' /\ RestOK'
    BY <1>1, <2>2, <2>3 DEF CallOK, RestOK, Quiet, Sending
  <2> QED
    BY <1>1, <2>8, <2>9 DEF StreamOK
<1>3. CASE r \in Int /\ r < Packet /\ Gathered = 0 /\ psi # "none"
  <2>1. pc' = "idle" /\ call' = NoCall /\ psi' = psi
    <3>1. ~ HasRoom(r)
      BY <1>1, <1>3 DEF HasRoom
    <3>2. Done
      BY <3>1 DEF Fill
    <3> QED
      BY <3>2 DEF Done
  <2>2. CallOK' /\ RestOK'
    BY <1>1, <1>3, <2>1 DEF CallOK, RestOK, Quiet, Sending, StreamOK
  <2> QED
    BY <1>1, <2>1, <2>2 DEF StreamOK, Sending
<1> QED
  BY <1>2, <1>3

(* _client_pushklv(), when there is metadata.                                *)
LEMMA AfterFrameOK ==
  ASSUME StreamOK, Still, walk = NoCall, call = NoCall, cur \in Buffers, cur' = cur,
         NEW r, Open(r), AfterFrame(r)
  PROVE  StreamOK'
<1>1. CASE ~ meta
  BY <1>1, FillOK DEF AfterFrame
<1>2. CASE meta
  <2>1. MtuOK' /\ Gathered' = Gathered /\ walk' = NoCall /\ mtu' = mtu
    BY StillMeans DEF StreamOK
  <2>2. /\ pc' = "klv" /\ room' = r /\ last' = IsLast(r) /\ psi' = psi
        /\ call'.op = "send" /\ call'.len = Packet /\ call'.more = ~ IsLast(r)
    BY <1>2, SendIs DEF AfterFrame
  <2>3. Aligned(Before)' /\ r \in Int
    BY <2>1, <2>2 DEF Open, Aligned, Before
  <2>4. (Leaves' <=> IsLast(r)) /\ Piece' = Packet
    BY <2>2 DEF Leaves, Before, IsLast, Piece
  <2>5. PieceOK'
    BY <2>1, <2>2, <2>4 DEF PieceOK, UnderWay, Open
  <2>6. SendingOK'
    BY <2>2, <2>3, <2>5 DEF SendingOK, Before, IsLast
  <2>7. CallOK' /\ RestOK'
    BY <2>1, <2>2 DEF CallOK, RestOK, Quiet, Sending, StreamOK
  <2> QED
    BY <2>1, <2>6, <2>7 DEF StreamOK
<1> QED
  BY <1>1, <1>2

(* The frame begins at the start of a packet of the transport.               *)
LEMMA MpegtsQueueOK ==
  ASSUME StreamOK, Still, NEW b, NEW n, MpegtsQueue(b, n)
  PROVE  StreamOK'
<1>1. pc = "idle" /\ walk = NoCall /\ Gathered = 0
  BY DEF MpegtsQueue, StreamOK, CallOK, RestOK, Quiet
<1> QED
  BY <1>1, OpenAtStart, NextPacketOK DEF MpegtsQueue, StreamOK

(* What the transport has when it has answered.                              *)
LEMMA PieceAnswered ==
  ASSUME StreamOK, Sending, Answered("ok")
  PROVE  /\ walk = NoCall /\ call = NoCall /\ room \in Int /\ Aligned(Before)
         /\ Gathered = IF Leaves THEN 0 ELSE mtu - (room - Piece)
BY DEF StreamOK, CallOK, SendingOK, PieceOK, UnderWay, Answered, NoCall

LEMMA HeaderSentOK ==
  ASSUME StreamOK, Still, HeaderSent
  PROVE  StreamOK'
<1>1. Sending /\ pc = "header" /\ Answered("ok")
  BY DEF HeaderSent, Sending
<1>2. /\ walk = NoCall /\ room \in Int /\ Aligned(room) /\ Gathered = mtu - (room - Header)
      /\ last = IsLast(room)
  BY <1>1, PieceAnswered DEF Before, Leaves, Piece, StreamOK, SendingOK
<1>3. /\ pc' = "payload" /\ room' = room - Header /\ last' = last /\ psi' = psi
      /\ call'.op = "send" /\ call'.len = Payload /\ call'.more = ~ last
  BY SendIs DEF HeaderSent
<1>4. MtuOK' /\ Gathered' = Gathered /\ walk' = NoCall /\ mtu' = mtu
  BY <1>2, StillMeans DEF StreamOK
<1>5. Before' = room /\ room' \in Int
  BY <1>2, <1>3 DEF Before, Header
<1>6. Aligned(Before)' /\ (Leaves' <=> IsLast(room)) /\ Piece' = Payload
  BY <1>2, <1>3, <1>4, <1>5 DEF Aligned, Leaves, IsLast, Piece
<1>7. PieceOK'
  BY <1>2, <1>3, <1>4, <1>6 DEF PieceOK, UnderWay
<1>8. SendingOK'
  BY <1>2, <1>3, <1>5, <1>6, <1>7 DEF SendingOK, IsLast
<1>9. CallOK' /\ RestOK'
  BY <1>3, <1>4 DEF CallOK, RestOK, Quiet, Sending, StreamOK
<1> QED
  BY <1>4, <1>8, <1>9 DEF StreamOK

LEMMA PayloadSentOK ==
  ASSUME StreamOK, Still, PayloadSent, cur \in Buffers
  PROVE  StreamOK'
<1> DEFINE s == room + 1
           r == AfterPacket(room - Payload)
<1>1. Sending /\ pc = "payload" /\ Answered("ok")
  BY DEF PayloadSent, Sending
<1>2. room \in Int /\ Packet = 4 /\ Payload = 3 /\ Before = s /\ Piece = 3
  BY <1>1, PieceAnswered DEF Before, Piece, Header, Payload, Packet
<1>3. /\ walk = NoCall /\ call = NoCall /\ Aligned(s)
      /\ Leaves => Gathered = 0
      /\ ~ Leaves => Gathered = mtu - (room - 3)
  BY <1>1, <1>2, PieceAnswered
<1>4. \/ last = TRUE /\ Leaves
      \/ last = FALSE /\ ~ IsLast(s) /\ ~ Leaves
  <2>1. last = IsLast(s)
    BY <1>1, <1>2 DEF StreamOK, SendingOK
  <2>2. IsLast(s) \in BOOLEAN
    BY DEF IsLast
  <2>3. Leaves <=> IsLast(s)
    BY <1>1, <1>2 DEF Leaves
  <2> QED
    BY <2>1, <2>2, <2>3
<1>5. Open(r)
  <2>1. CASE last = TRUE /\ Leaves
    <3>1. r = mtu
      BY <2>1 DEF AfterPacket
    <3> QED
      BY <1>3, <2>1, <3>1, OpenAtStart DEF StreamOK
  <2>2. CASE last = FALSE /\ ~ IsLast(s) /\ ~ Leaves
    <3>1. r = room - 3 /\ s - Packet = room - 3
      BY <1>2, <2>2 DEF AfterPacket
    <3> HIDE DEF r, s
    <3> QED
      BY <1>3, <2>2, <3>1, OpenNext DEF StreamOK
  <2> QED
    BY <1>4, <2>1, <2>2
<1>6. /\ cur' = cur
      /\ \/ NextPacket(left - 1, FALSE, r)
         \/ AfterFrame(r)
  BY DEF PayloadSent
<1> HIDE DEF r
<1> QED
  BY <1>3, <1>5, <1>6, NextPacketOK, AfterFrameOK DEF StreamOK

LEMMA KlvSentOK ==
  ASSUME StreamOK, Still, KlvSent, cur \in Buffers
  PROVE  StreamOK'
<1> DEFINE r == AfterPacket(room - Packet)
<1>1. Sending /\ pc = "klv" /\ Answered("ok")
  BY DEF KlvSent, Sending
<1>2. Before = room /\ Piece = Packet
  BY <1>1 DEF Before, Piece
<1>3. /\ walk = NoCall /\ call = NoCall /\ Aligned(room)
      /\ Leaves => Gathered = 0
      /\ ~ Leaves => Gathered = mtu - (room - Packet)
  BY <1>1, <1>2, PieceAnswered
<1>4. \/ last = TRUE /\ Leaves
      \/ last = FALSE /\ ~ IsLast(room) /\ ~ Leaves
  <2>1. last = IsLast(room)
    BY <1>1, <1>2 DEF StreamOK, SendingOK
  <2>2. IsLast(room) \in BOOLEAN
    BY DEF IsLast
  <2>3. Leaves <=> IsLast(room)
    BY <1>1, <1>2 DEF Leaves
  <2> QED
    BY <2>1, <2>2, <2>3
<1>5. Open(r)
  <2>1. CASE last = TRUE /\ Leaves
    <3>1. r = mtu
      BY <2>1 DEF AfterPacket
    <3> QED
      BY <1>3, <2>1, <3>1, OpenAtStart DEF StreamOK
  <2>2. CASE last = FALSE /\ ~ IsLast(room) /\ ~ Leaves
    <3>1. r = room - Packet
      BY <2>2 DEF AfterPacket
    <3> QED
      BY <1>3, <2>2, <3>1, OpenNext DEF StreamOK
  <2> QED
    BY <1>4, <2>1, <2>2
<1>6. cur' = cur /\ Fill(r)
  BY DEF KlvSent
<1> HIDE DEF r
<1> QED
  BY <1>3, <1>5, <1>6, FillOK

LEMMA TableSentOK ==
  ASSUME StreamOK, Still, TableSent, cur \in Buffers
  PROVE  StreamOK'
<1> DEFINE r == room - Packet
<1>1. Sending /\ pc = "table" /\ Answered("ok")
  BY DEF TableSent, Sending
<1>2. /\ walk = NoCall /\ call = NoCall /\ room \in Int /\ Aligned(room) /\ psi # "none"
      /\ Gathered = IF IsLast(room) THEN 0 ELSE mtu - (room - Packet)
  BY <1>1, PieceAnswered DEF Before, Leaves, Piece, StreamOK, SendingOK
<1>3. \/ Open(r)
      \/ r \in Int /\ r < Packet /\ Gathered = 0 /\ psi # "none"
  <2>1. CASE IsLast(room)
    BY <1>2, <2>1 DEF IsLast, Packet
  <2>2. CASE ~ IsLast(room)
    BY <1>2, <2>2, OpenNext DEF StreamOK
  <2> QED
    BY <2>1, <2>2
<1>4. cur' = cur /\ Fill(r)
  BY DEF TableSent
<1> HIDE DEF r
<1> QED
  BY <1>2, <1>3, <1>4, FillOK

(* The steps without a piece.                                                *)
LEMMA OtherStepOK ==
  ASSUME StreamOK, Still, UNCHANGED psi, ~ Sending', walk = NoCall,
         pc' \in {"start", "idle", "flush", "failed", "stopped"},
         Quiet' => Gathered = 0,
         pc' = "idle" => call' = NoCall,
         pc' = "start" => call' = NoCall \/ call'.op = "connect",
         pc' \in {"failed", "stopped"} => call' = NoCall \/ call'.op = "close",
         pc' = "flush" => call'.op = "flush" /\ call'.len = 0 /\ ~ call'.more,
         pc' \in {"start", "idle"} /\ mstate'[cur'] = "ready" => psi # "none"
  PROVE  StreamOK'
<1>1. MtuOK' /\ Gathered' = Gathered /\ walk' = NoCall
  BY StillMeans DEF StreamOK
<1>2. CallOK'
  BY <1>1 DEF CallOK
<1>3. RestOK'
  BY <1>1 DEF RestOK, StreamOK
<1> QED
  BY <1>1, <1>2, <1>3 DEF StreamOK

LEMMA NoWalk == StreamOK /\ call = NoCall => walk = NoCall
BY DEF StreamOK, CallOK

LEMMA MpegtsStepOK ==
  ASSUME StreamOK, MpegtsKept, MpegtsSteps, Still
  PROVE  StreamOK'
<1>1. CASE MpegtsStart
  <2>1. /\ pc = "created" /\ call = NoCall /\ pc' = "start" /\ call'.op = "connect"
        /\ UNCHANGED <<psi, mstate, cur>>
    BY <1>1, CallIs DEF MpegtsStart, sendVars
  <2> QED
    BY <2>1, NoWalk, OtherStepOK DEF Sending, Quiet, StreamOK, RestOK
<1>2. CASE MpegtsStarted
  <2>1. /\ pc = "start" /\ call = NoCall /\ pc' = "idle" /\ call' = NoCall
        /\ UNCHANGED <<psi, mstate, cur>>
    BY <1>2 DEF MpegtsStarted, sendVars
  <2> QED
    BY <2>1, NoWalk, OtherStepOK DEF Sending, Quiet, StreamOK, RestOK
<1>3. CASE SendError
  <2>1. /\ Sending /\ call = NoCall /\ pc' = "failed" /\ call'.op = "close" /\ psi' = psi
    BY <1>3, CallIs DEF SendError, Answered, sendVars
  <2> QED
    BY <2>1, NoWalk, OtherStepOK DEF Sending, Quiet
<1>4. CASE MpegtsStop
  <2>1. call = NoCall /\ pc' = "stopped" /\ call'.op = "close" /\ psi' = psi
    BY <1>4, CallIs DEF MpegtsStop, sendVars
  <2> QED
    BY <2>1, NoWalk, OtherStepOK DEF Sending, Quiet
<1>5. CASE HeaderSent
  BY <1>5, HeaderSentOK
<1>6. CASE PayloadSent \/ KlvSent \/ TableSent
  BY <1>6, PayloadSentOK, KlvSentOK, TableSentOK DEF MpegtsKept, StatesOK
<1>7. CASE MpegtsDequeue
  <2>1. /\ pc = "idle" /\ pc' = "flush" /\ psi' = psi
        /\ call'.op = "flush" /\ call'.len = 0 /\ ~ call'.more
    BY <1>7, CallIs DEF MpegtsDequeue
  <2> QED
    BY <2>1, NoWalk, OtherStepOK DEF Sending, Quiet, StreamOK, RestOK, CallOK
<1>8. CASE \E b \in Buffers, n \in 1 .. MaxPackets : MpegtsQueue(b, n)
  BY <1>8, MpegtsQueueOK
<1>9. CASE SendAgain
  <2>1. /\ Sending /\ call = NoCall /\ reply = "again" /\ pc' = "idle" /\ call' = call
        /\ psi' = psi /\ cur' = cur /\ mstate' = [mstate EXCEPT ![cur] = "dequeued"]
    BY <1>9 DEF SendAgain, Answered, sendVars, Refused
  <2>2. Gathered = 0 /\ mstate'[cur'] = "dequeued"
    BY <2>1 DEF StreamOK, SendingOK, PieceOK, UnderWay, NoCall, MpegtsKept, StatesOK
  <2> QED
    BY <2>1, <2>2, NoWalk, OtherStepOK DEF Sending, Quiet
<1>10. CASE MpegtsDequeued
  <2>1. /\ pc = "flush" /\ call = NoCall /\ pc' = "idle" /\ call' = call
        /\ psi' = psi /\ cur' = cur /\ mstate' = [mstate EXCEPT ![cur] = "dequeued"]
    BY <1>10 DEF MpegtsDequeued, sendVars
  <2>2. Gathered = 0 /\ mstate'[cur'] = "dequeued"
    BY <2>1 DEF StreamOK, RestOK, Quiet, MpegtsKept, StatesOK
  <2> QED
    BY <2>1, <2>2, NoWalk, OtherStepOK DEF Sending, Quiet
<1> QED
  BY <1>1, <1>2, <1>3, <1>4, <1>5, <1>6, <1>7, <1>8, <1>9, <1>10 DEF MpegtsSteps

-----------------------------------------------------------------------------
(* The sink as a whole *)

StreamInv ==
    /\ device \in {"mpegts", "file"} /\ (device = "file" => proto = "file")
    /\ device = "mpegts" => MpegtsKept /\ (proto # "file" => StreamOK)

LEMMA StreamInvNext ==
  ASSUME StreamInv, [Next]_vars
  PROVE  StreamInv'
<1>1. CASE UNCHANGED vars
  <2>1. UNCHANGED <<device, proto, up, mstate, cur, currentid, pc, call, reply, walk>>
        /\ UNCHANGED <<mpegtsVars, offset, corked>>
    BY <1>1 DEF vars, sinkVars, mpegtsVars, mpegtsConf, sendVars, unixVars, udpVars
  <2>2. MpegtsKept => MpegtsKept'
    BY <2>1, StatesRest DEF Sending
  <2>3. StreamOK => StreamOK'
    BY <2>1, AccountsRest DEF Gathered
  <2> QED
    BY <2>1, <2>2, <2>3 DEF StreamInv
<1>2. CASE DeviceNext /\ UNCHANGED <<device, proto>>
  <2>1. CASE device = "file"
    BY <1>2, <2>1 DEF StreamInv
  <2>2. CASE device = "mpegts"
    <3>1. MpegtsSteps /\ UNCHANGED <<unixVars, udpVars>>
      BY <1>2, <2>2 DEF DeviceNext, SFileSteps
    <3>2. mtu' = mtu
      BY <3>1 DEF MpegtsSteps, MpegtsStart, MpegtsStarted, HeaderSent, PayloadSent, KlvSent,
                  TableSent, SendError, MpegtsDequeue, MpegtsStop, MpegtsQueue, SendAgain,
                  MpegtsDequeued, mpegtsConf
    <3>3. Still
      BY <1>2, <3>1, <3>2 DEF Still
    <3> QED
      BY <1>2, <2>2, <3>1, <3>3, MpegtsStepKept, MpegtsStepOK DEF StreamInv
  <2> QED
    BY <2>1, <2>2 DEF StreamInv
<1>3. CASE TransportNext /\ UNCHANGED <<device, proto>>
  <2>1. UNCHANGED <<mpegtsVars, up>>
    BY <1>3 DEF TransportNext
  <2>2. MpegtsKept => MpegtsKept'
    BY <2>1, StatesRest DEF mpegtsVars, mpegtsConf, sendVars, Sending
  <2>3. ASSUME StreamOK PROVE StreamOK'
    <3>1. CASE proto = "unix" /\ UnixNext
      BY <1>3, <2>1, <2>3, <3>1, UnixStepOK
    <3>2. CASE proto = "udp" /\ UdpNext /\ UNCHANGED unixVars
      BY <1>3, <2>1, <2>3, <3>2, UdpStepOK DEF unixVars
    <3> QED
      BY <1>3, <2>3, <3>1, <3>2 DEF TransportNext, StreamOK, MtuOK
  <2> QED
    BY <1>3, <2>2, <2>3 DEF StreamInv
<1> QED
  BY <1>1, <1>2, <1>3 DEF Next

LEMMA StreamInvariance ==
  ASSUME UdpMtu % Packet # 0
  PROVE  Spec => []StreamInv
<1>1. Init => StreamInv
  BY MpegtsKeptInit, StreamInit DEF Init, StreamInv
<1>2. StreamInv /\ [Next]_vars => StreamInv'
  BY StreamInvNext
<1> QED
  BY <1>1, <1>2, PTL DEF Spec

(* A send that the transport has not begun.                                  *)
LEMMA PendingPiece ==
  ASSUME StreamInv, Pending
  PROVE  StreamOK /\ Sending /\ SendingOK /\ UnderWay /\ Gathered = mtu - room
<1>1. StreamOK /\ call.op = "send" /\ call # NoCall /\ walk = NoCall
  BY DEF StreamInv, Pending, NoCall
<1>2. Sending
  BY <1>1 DEF StreamOK, RestOK, CallOK
<1> QED
  BY <1>1, <1>2 DEF StreamOK, SendingOK, PieceOK

(* The room that _client_pushdata() has left is at each send what the        *)
(* transport has left, for any lengths of a frame and any number of clients, *)
(* after refused packets too (smpegts.c): as long as the mtu of the          *)
(* interface leaves a rest when it is cut in packets, as that of an Ethernet *)
(* does.                                                                     *)
THEOREM AccountsCorrect ==
  ASSUME UdpMtu % Packet # 0
  PROVE  Spec => []AccountsAgree
<1>1. StreamInv => AccountsAgree
  BY PendingPiece DEF AccountsAgree
<1> QED
  BY <1>1, StreamInvariance, PTL

(* Nothing is cut, and what leaves for the clients is made of whole packets  *)
(* (_client_pushdata() of smpegts.c, proto_send() of the transports).        *)
THEOREM PacketsAreWhole ==
  ASSUME UdpMtu % Packet # 0
  PROVE  Spec => []WholePackets
<1>1. ASSUME StreamInv, Pending
      PROVE  /\ Gathered + call.len <= mtu
             /\ ~ call.more => (Gathered + call.len) % Packet = 0
  <2>1. /\ StreamOK /\ Sending /\ SendingOK /\ UnderWay /\ Gathered = mtu - room
        /\ room \in Int /\ Piece \in Int /\ mtu - room + Piece <= mtu
    BY <1>1, PendingPiece, PieceSize DEF StreamOK
  <2>2. call.len = Piece /\ (~ call.more => Leaves)
    BY <2>1 DEF UnderWay
  <2>3. ASSUME Leaves PROVE (mtu - room + Piece) % Packet = 0
    <3>1. mtu \in Nat /\ Before \in Int /\ 4 <= Before /\ Before <= mtu /\ (mtu - Before) % 4 = 0
      BY <2>1 DEF StreamOK, MtuOK, SendingOK, Aligned, Packet
    <3>2. mtu - room + Piece = mtu - Before + 4
      BY <2>1, <2>3, <3>1 DEF Leaves, Before, Piece, Sending, Header, Payload, Packet
    <3>3. (mtu - Before + 4) % 4 = 0
      BY <3>1
    <3> QED
      BY <3>2, <3>3 DEF Packet
  <2> QED
    BY <2>1, <2>2, <2>3
<1>2. StreamInv => WholePackets
  BY <1>1 DEF WholePackets
<1> QED
  BY <1>2, StreamInvariance, PTL

(* A frame that was sent was followed by the PMT, and its last packet left   *)
(* (_client_filldata() of smpegts.c).                                        *)
THEOREM TablesCorrect ==
  ASSUME UdpMtu % Packet # 0
  PROVE  Spec => []TablesFollow
<1>1. StreamInv => TablesFollow
  BY DEF StreamInv, StreamOK, RestOK, Quiet, TablesFollow
<1> QED
  BY <1>1, StreamInvariance, PTL

LEMMA FilesNext ==
  ASSUME FilesOK, [Next]_vars
  PROVE  FilesOK' /\ \A n \in DOMAIN dir : length'[dir[n]] = length[dir[n]]
<1>1. CASE UNCHANGED fileVars
  BY <1>1 DEF fileVars, FilesOK, NamedShut
<1>2. CASE FileNext
  BY <1>2, FilesStep
<1> QED
  BY <1>1, <1>2 DEF Next, DeviceNext, TransportNext, vars

(* Nothing is written in a file that has its name, whatever open, write or   *)
(* rename fails, and however many files have the same second for their name  *)
(* (proto_connect_reg(), proto_send() and proto_close() of sproto_file.c).   *)
THEOREM FilesAreFinal == Spec => VisibleIsFinal
<1>1. Spec => []FilesOK
  BY FilesInit, FilesNext, PTL DEF Spec
<1>2. FilesOK /\ [Next]_vars
      => [\A n \in DOMAIN dir : length'[dir[n]] = length[dir[n]]]_vars
  BY FilesNext
<1> QED
  BY <1>1, <1>2, PTL DEF Spec, VisibleIsFinal

-----------------------------------------------------------------------------
(* The buffers of the file device *)

(* How many buffers are given back before b is.                              *)
Turn(b) == TurnFrom(lastid, b)

Awaited == fpc \in {"header", "data", "read"}
Starts  == input /\ fpc \in {"created", "fill", "filling"}
Alive   == fpc \notin {"failed", "stopped"}

(* The k buffers that come next are queued, then the one of the call under   *)
(* way, and the others are upstream in the order of their numbers.  A source *)
(* fills the first ones before there is anything upstream.                   *)
RingOK(k) ==
    /\ \A b \in Buffers : fstate[b] = "queued" <=> Turn(b) < k
    /\ up \in Seq(Buffers)
    /\ \A i \in 1 .. Len(up) : Turn(up[i]) = (IF Awaited THEN k ELSE k - 1) + i
    /\ ~ Starts => Len(up) = NBuffers - (IF Awaited THEN k + 1 ELSE k)
    /\ Awaited => Turn(fcur) = k
    /\ Starts => lastid = 0 /\ up = << >> /\ (fpc = "filling" => fcur = k)
                 /\ (fpc # "filling" => k = 0)

(* A frame comes after another one in the file, which may start again.       *)
Follows(f, g) == g \in {f, f + 1, 1}

(* The frame after f is the next that is read, or has been read.             *)
Reading == fpc \in {"filling", "read"}
NextIs(f) == IF Reading /\ call = NoCall THEN reply = "ok" => Follows(f, pos)
                                         ELSE pos \in {f, 0}

(* The frames in these buffers are in the order of the file.                 *)
FramesOK(k) ==
    mode = "loop" =>
    /\ \A b, c \in Buffers : Turn(c) = Turn(b) + 1 /\ Turn(c) < k => Follows(fdata[b], fdata[c])
    /\ k > 0 => Follows(given, fdata[lastid])
    /\ k = 0 => NextIs(given)
    /\ \A b \in Buffers : Turn(b) = k - 1 => NextIs(fdata[b])

FileTypes ==
    /\ fstate \in [Buffers -> {"invalid", "dequeued", "queued"}]
    /\ fdata \in [Buffers -> Nat] /\ given \in Nat /\ pos \in 0 .. FileLen
    /\ lastid \in Buffers /\ fcur \in Buffers
    /\ proto = "file" /\ (mode = "loop" => input)
    /\ input => fpc \notin {"header", "data"}
    /\ ~ input => fpc \notin {"fill", "filling", "read"}
    /\ call.op = "recv" => Reading
    /\ Reading => call = NoCall \/ call.op = "recv"
    /\ mode # "loop" => pos = 0 /\ given = 0 /\ \A b \in Buffers : fdata[b] = 0

FileInv == FileTypes /\ (Alive => \E k \in 0 .. NBuffers : RingOK(k) /\ FramesOK(k))

LEMMA TurnIs ==
  ASSUME lastid \in Buffers
  PROVE  /\ \A b \in Buffers : Turn(b) \in 0 .. NBuffers - 1
         /\ \A b, c \in Buffers : Turn(b) = Turn(c) => b = c
         /\ \A b \in Buffers : Turn(b) = 0 <=> b = lastid
         /\ NBuffers \in Nat \ {0}
BY TurnFromIs DEF Turn

(* The next one by number, after which the first one is the last.            *)
LEMMA GiveOrderIs ==
  ASSUME lastid \in Buffers, lastid' = GiveOrder(lastid)
  PROVE  /\ lastid' \in Buffers
         /\ \A b \in Buffers : TurnFrom(lastid', b)
                               = IF b = lastid THEN NBuffers - 1 ELSE Turn(b) - 1
         /\ \A b \in Buffers : TurnFrom(lastid', b) = 0 <=> b = lastid'
BY TurnFromNext DEF Turn, GiveOrder

LEMMA FileInvInit ==
  ASSUME Init, device = "file"
  PROVE  FileInv
<1>1. FileTypes
  <2>1. NBuffers \in Nat \ {0} /\ 0 \in Buffers /\ FileLen \in Nat
    BY NBuffersAssumption, FileAssumption DEF Buffers
  <2>2. mode = "loop" => input
    BY DEF Init
  <2> QED
    BY <2>1, <2>2 DEF Init, SFileInit, FileInit, FileTypes, Reading, NoCall
<1>2. RingOK(0)
  <2>1. \A b \in Buffers : Turn(b) = b
    BY NBuffersAssumption DEF Init, SFileInit, Turn, TurnFrom, Buffers
  <2>2. CASE input
    <3>1. up = << >> /\ up \in Seq(Buffers) /\ Len(up) = 0
      BY <2>2 DEF Init
    <3>2. /\ ~ Awaited /\ Starts /\ lastid = 0 /\ fpc = "created"
          /\ \A b \in Buffers : fstate[b] # "queued"
      BY <2>2 DEF Init, SFileInit, Awaited, Starts
    <3>3. \A b \in Buffers : fstate[b] = "queued" <=> Turn(b) < 0
      BY <2>1, <3>2, NBuffersAssumption DEF Buffers
    <3> QED
      BY <3>1, <3>2, <3>3 DEF RingOK
  <2>3. CASE ~ input
    <3>1. up = [i \in 1 .. NBuffers |-> i - 1]
      BY <2>3 DEF Init
    <3>2. up \in Seq(Buffers) /\ Len(up) = NBuffers
      BY <3>1, NBuffersAssumption DEF Buffers
    <3>3. \A i \in 1 .. NBuffers : up[i] \in Buffers /\ Turn(up[i]) = i - 1
      BY <2>1, <3>1, NBuffersAssumption DEF Buffers
    <3>4. ~ Awaited /\ ~ Starts /\ \A b \in Buffers : fstate[b] # "queued"
      BY <2>3 DEF Init, SFileInit, Awaited, Starts
    <3>5. \A b \in Buffers : fstate[b] = "queued" <=> Turn(b) < 0
      BY <2>1, <3>4, NBuffersAssumption DEF Buffers
    <3>6. \A i \in 1 .. Len(up) : Turn(up[i]) = (IF Awaited THEN 0 ELSE 0 - 1) + i
      BY <3>2, <3>3, <3>4, NBuffersAssumption
    <3>7. Len(up) = NBuffers - (IF Awaited THEN 0 + 1 ELSE 0)
      BY <3>2, <3>4, NBuffersAssumption
    <3> QED
      BY <3>2, <3>4, <3>5, <3>6, <3>7 DEF RingOK
  <2> QED
    BY <2>2, <2>3
<1>3. FramesOK(0)
  BY <1>1, TurnIs DEF Init, SFileInit, FileInit, FileTypes, FramesOK, NextIs, Reading
<1> QED
  BY <1>1, <1>2, <1>3, NBuffersAssumption DEF FileInv

(* The steps that move no buffer.                                            *)
LEMMA RingRests ==
  ASSUME NEW k, RingOK(k), UNCHANGED <<fstate, up, lastid>>,
         Awaited' = Awaited, Starts' = Starts, Awaited => fcur' = fcur,
         Starts => IF fpc' = "filling" THEN fcur' = k ELSE k = 0
  PROVE  RingOK(k)'
BY DEF RingOK, Turn

LEMMA FramesRest ==
  ASSUME NEW k, FramesOK(k), UNCHANGED <<fdata, given, lastid, mode>>,
         \A f : NextIs(f) => NextIs(f)'
  PROVE  FramesOK(k)'
<1>1. \A b : Turn(b)' = Turn(b)
  BY DEF Turn
<1> QED
  BY <1>1 DEF FramesOK, Follows

(* The first buffer upstream is the one after those that are queued.         *)
LEMMA RingTakes ==
  ASSUME FileTypes, NEW k \in 0 .. NBuffers, RingOK(k), ~ Awaited, ~ Starts,
         NEW b, TakeUp(b), fcur' = b, Awaited', ~ Starts', UNCHANGED <<fstate, lastid>>
  PROVE  b \in Buffers /\ RingOK(k)'
<1> DEFINE q == Tail(up)
<1>1. /\ up \in Seq(Buffers) /\ up # << >> /\ b = up[1] /\ up' = q
      /\ q \in Seq(Buffers) /\ Len(q) = Len(up) - 1 /\ Len(up) \in Nat \ {0}
      /\ \A i \in 1 .. Len(q) : q[i] = up[i + 1]
  BY DEF TakeUp, RingOK
<1> HIDE DEF q
<1>2. b \in Buffers /\ Turn(b) = k
  BY <1>1 DEF RingOK
<1>3. \A c : Turn(c)' = Turn(c)
  BY DEF Turn
<1>4. \A i \in 1 .. Len(q) : Turn(q[i]) = k + i
  <2>1. ASSUME NEW i \in 1 .. Len(q) PROVE Turn(q[i]) = k + i
    <3>1. i + 1 \in 1 .. Len(up) /\ q[i] = up[i + 1]
      BY <1>1
    <3>2. Turn(up[i + 1]) = (k - 1) + (i + 1)
      BY <3>1 DEF RingOK
    <3> QED
      BY <3>1, <3>2
  <2> QED
    BY <2>1
<1>5. Len(q) = NBuffers - (k + 1)
  BY <1>1, NBuffersAssumption DEF RingOK
<1> QED
  BY <1>1, <1>2, <1>3, <1>4, <1>5 DEF RingOK

(* It is queued when its frame is written, or read.                          *)
LEMMA RingFills ==
  ASSUME FileTypes, NEW k \in 0 .. NBuffers, RingOK(k), Awaited,
         ~ Awaited', ~ Starts, ~ Starts',
         fstate' = [fstate EXCEPT ![fcur] = "queued"], UNCHANGED <<up, lastid>>
  PROVE  k + 1 \in 0 .. NBuffers /\ RingOK(k + 1)'
<1>1. /\ fcur \in Buffers /\ Turn(fcur) = k /\ k \in 0 .. NBuffers - 1
      /\ \A b \in Buffers : Turn(b) = k => b = fcur
      /\ \A b \in Buffers : Turn(b) \in 0 .. NBuffers - 1
  BY TurnIs DEF FileTypes, RingOK
<1>2. \A b : Turn(b)' = Turn(b)
  BY DEF Turn
<1>3. \A b \in Buffers : fstate'[b] = "queued" <=> Turn(b) < k + 1
  <2>1. ASSUME NEW b \in Buffers PROVE fstate'[b] = "queued" <=> Turn(b) < k + 1
    <3>1. CASE b = fcur
      BY <1>1, <3>1 DEF FileTypes
    <3>2. CASE b # fcur
      <4>1. fstate'[b] = fstate[b]
        BY <3>2 DEF FileTypes
      <4> QED
        BY <1>1, <3>2, <4>1 DEF RingOK
    <3> QED
      BY <3>1, <3>2
  <2> QED
    BY <2>1
<1>4. \A i \in 1 .. Len(up) : Turn(up[i]) = ((k + 1) - 1) + i
  BY <1>1 DEF RingOK
<1>5. up \in Seq(Buffers) /\ Len(up) = NBuffers - (k + 1)
  BY DEF RingOK
<1>6. k + 1 \in 0 .. NBuffers
  BY <1>1, NBuffersAssumption
<1> DEFINE n == k + 1
<1> HIDE DEF n
<1>7. RingOK(n)'
  <2>1. /\ \A b \in Buffers : fstate'[b] = "queued" <=> Turn(b)' < n
        /\ up' \in Seq(Buffers) /\ Len(up') = NBuffers - n
        /\ \A i \in 1 .. Len(up') : Turn(up[i])' = (n - 1) + i
    BY <1>2, <1>3, <1>4, <1>5 DEF n
  <2> QED
    BY <2>1 DEF RingOK
<1> QED
  BY <1>6, <1>7 DEF n

(* A source fills its buffers at the start, one after the other.             *)
LEMMA RingStarts ==
  ASSUME FileTypes, NEW k \in 0 .. NBuffers, RingOK(k), Starts, fpc = "filling",
         ~ Awaited, ~ Awaited', UNCHANGED <<up, lastid, input>>,
         fstate' = [fstate EXCEPT ![fcur] = "queued"],
         \/ fcur < NBuffers - 1 /\ fcur' = fcur + 1 /\ fpc' = "filling"
         \/ fcur = NBuffers - 1 /\ fpc' = "start"
  PROVE  k + 1 \in 0 .. NBuffers /\ RingOK(k + 1)' /\ Turn(fcur) = k
<1>1. /\ fcur = k /\ lastid = 0 /\ up = << >> /\ k \in 0 .. NBuffers - 1
      /\ \A b \in Buffers : Turn(b) = b /\ Turn(b)' = b
  BY NBuffersAssumption DEF FileTypes, RingOK, Turn, TurnFrom, Buffers
<1>2. \A b \in Buffers : fstate'[b] = "queued" <=> b < k + 1
  <2>1. ASSUME NEW b \in Buffers PROVE fstate'[b] = "queued" <=> b < k + 1
    <3>1. b \in Nat
      BY NBuffersAssumption DEF Buffers
    <3>2. CASE b = k
      BY <1>1, <3>1, <3>2 DEF FileTypes
    <3>3. CASE b # k
      <4>1. fstate'[b] = fstate[b] /\ (fstate[b] = "queued" <=> b < k)
        BY <1>1, <3>3 DEF FileTypes, RingOK
      <4> QED
        BY <1>1, <3>1, <3>3, <4>1
    <3> QED
      BY <3>2, <3>3
  <2> QED
    BY <2>1
<1>3. up' \in Seq(Buffers) /\ Len(up') = 0 /\ up' = << >>
  BY <1>1
<1>4. k + 1 \in 0 .. NBuffers
  BY <1>1, NBuffersAssumption
<1> DEFINE n == k + 1
<1>5. \/ Starts' /\ fpc' = "filling" /\ fcur' = n
      \/ ~ Starts' /\ n = NBuffers
  BY <1>1, NBuffersAssumption DEF Starts
<1>6. \A b \in Buffers : fstate'[b] = "queued" <=> b < n
  BY <1>2
<1> HIDE DEF n
<1>7. RingOK(n)'
  <2>1. /\ \A b \in Buffers : fstate'[b] = "queued" <=> Turn(b)' < n
        /\ \A i \in 1 .. Len(up') : Turn(up[i])' = (n - 1) + i
    BY <1>1, <1>3, <1>6
  <2>2. ~ Starts' => Len(up') = NBuffers - n
    BY <1>3, <1>5, NBuffersAssumption
  <2>3. Starts' => lastid' = 0 /\ up' = << >> /\ fpc' = "filling" /\ fcur' = n
    BY <1>1, <1>3, <1>5
  <2> QED
    BY <1>3, <2>1, <2>2, <2>3 DEF RingOK
<1>8. Turn(fcur) = k
  BY <1>1 DEF FileTypes
<1> QED
  BY <1>4, <1>7, <1>8 DEF n

(* The frame that was read is the next one.                                  *)
LEMMA FramesRead ==
  ASSUME FileTypes, NEW k \in 0 .. NBuffers - 1, FramesOK(k),
         Turn(fcur) = k, Reading, call = NoCall, reply = "ok",
         fdata' = [fdata EXCEPT ![fcur] = pos],
         UNCHANGED <<given, lastid, mode, pos>>, ~ (Reading' /\ call' = NoCall)
  PROVE  FramesOK(k + 1)'
<1> SUFFICES ASSUME mode = "loop" PROVE FramesOK(k + 1)'
  BY DEF FramesOK
<1>1. /\ fcur \in Buffers /\ \A b \in Buffers : Turn(b) = k => b = fcur
      /\ \A b \in Buffers : Turn(b) \in 0 .. NBuffers - 1 /\ (Turn(b) = 0 <=> b = lastid)
      /\ lastid \in Buffers /\ \A b, c \in Buffers : Turn(b) = Turn(c) => b = c
  BY TurnIs DEF FileTypes
<1>2. \A b : Turn(b)' = Turn(b)
  BY DEF Turn
<1>3. \A b \in Buffers : fdata'[b] = IF b = fcur THEN pos ELSE fdata[b]
  BY DEF FileTypes
<1>4. \A f : NextIs(f) => Follows(f, pos)
  BY DEF NextIs
<1>5. ASSUME NEW b \in Buffers, NEW c \in Buffers, Turn(c) = Turn(b) + 1, Turn(c) < k + 1
      PROVE  Follows(fdata'[b], fdata'[c])
  <2>1. CASE c = fcur
    <3>1. Turn(b) = k - 1 /\ b # fcur
      BY <1>1, <1>5, <2>1
    <3>2. Follows(fdata[b], pos)
      BY <1>4, <3>1 DEF FramesOK
    <3> QED
      BY <1>3, <2>1, <3>1, <3>2
  <2>2. CASE c # fcur
    <3>1. Turn(c) < k /\ b # fcur
      BY <1>1, <1>5, <2>2
    <3>2. Follows(fdata[b], fdata[c])
      BY <1>5, <3>1 DEF FramesOK
    <3> QED
      BY <1>3, <2>2, <3>1, <3>2
  <2> QED
    BY <2>1, <2>2
<1>6. Follows(given, fdata'[lastid])
  <2>1. CASE k = 0
    BY <1>1, <1>3, <1>4, <2>1 DEF FramesOK
  <2>2. CASE k # 0
    BY <1>1, <1>3, <2>2 DEF FramesOK
  <2> QED
    BY <2>1, <2>2
<1>7. ASSUME NEW b \in Buffers, Turn(b) = k PROVE NextIs(fdata[b])'
  <2>1. fdata'[b] = pos /\ pos' = pos
    BY <1>1, <1>3, <1>7
  <2> QED
    BY <2>1 DEF NextIs
<1> DEFINE n == k + 1
<1>8. n > 0 /\ n - 1 = k
  OBVIOUS
<1>9. \A b, c \in Buffers : Turn(c)' = Turn(b)' + 1 /\ Turn(c)' < n => Follows(fdata[b], fdata[c])'
  BY <1>2, <1>5 DEF Follows
<1>10. Follows(given, fdata[lastid])'
  BY <1>6 DEF Follows
<1>11. \A b \in Buffers : Turn(b)' = n - 1 => NextIs(fdata[b])'
  BY <1>2, <1>7, <1>8
<1> HIDE DEF n
<1>12. FramesOK(n)'
  BY <1>8, <1>9, <1>10, <1>11 DEF FramesOK
<1> QED
  BY <1>12 DEF n

(* The first buffer queued is given back.                                    *)
LEMMA RingGives ==
  ASSUME FileTypes, NEW k \in 0 .. NBuffers, RingOK(k), FramesOK(k),
         SFileDequeue, PutUp(lastid), given' = fdata[lastid], UNCHANGED <<mode, pos>>
  PROVE  /\ k - 1 \in 0 .. NBuffers /\ RingOK(k - 1)' /\ FramesOK(k - 1)'
         /\ mode = "loop" => Follows(given, given')
<1>1. /\ lastid \in Buffers /\ fstate[lastid] = "queued" /\ fpc = "idle"
      /\ fstate' = [fstate EXCEPT ![lastid] = "dequeued"]
      /\ lastid' = GiveOrder(lastid) /\ fdata' = fdata /\ fcur' = fcur
      /\ fpc' \in {"idle", "closing"}
  BY DEF SFileDequeue, FileTypes
<1>2. ~ Awaited /\ ~ Awaited' /\ ~ Starts /\ ~ Starts' /\ ~ Reading /\ ~ Reading'
  BY <1>1 DEF Awaited, Starts, Reading
<1> DEFINE T(b) == TurnFrom(lastid', b)
<1>3. /\ \A b \in Buffers : T(b) = IF b = lastid THEN NBuffers - 1 ELSE Turn(b) - 1
      /\ lastid' \in Buffers
  BY <1>1, GiveOrderIs
<1>4. /\ \A b \in Buffers : Turn(b) \in 0 .. NBuffers - 1 /\ (Turn(b) = 0 <=> b = lastid)
      /\ NBuffers \in Nat \ {0}
  BY <1>1, TurnIs
<1>5. \A b \in Buffers : T(b) = 0 <=> b = lastid'
  BY <1>1, GiveOrderIs
<1> HIDE DEF T
<1>6. k > 0
  BY <1>1, <1>4 DEF RingOK
<1> DEFINE n == k - 1
           a == Append(up, lastid)
<1>7. n \in 0 .. NBuffers - 1 /\ k = n + 1
  BY <1>6, NBuffersAssumption
<1>8. /\ a \in Seq(Buffers) /\ up' = a /\ Len(a) = Len(up) + 1 /\ Len(up) \in Nat
      /\ a[Len(up) + 1] = lastid /\ \A i \in 1 .. Len(up) : a[i] = up[i] /\ up[i] \in Buffers
  BY <1>1 DEF PutUp, RingOK
<1> HIDE DEF n, a
<1>9. \A i \in 1 .. Len(up) : up[i] # lastid /\ Turn(up[i]) = n + i
  <2>1. ASSUME NEW i \in 1 .. Len(up) PROVE up[i] # lastid /\ Turn(up[i]) = n + i
    <3>1. Turn(up[i]) = (k - 1) + i
      BY <1>2 DEF RingOK
    <3> QED
      BY <1>4, <1>7, <1>8, <3>1
  <2> QED
    BY <2>1
<1>10. Len(up) = NBuffers - (n + 1)
  BY <1>2, <1>7 DEF RingOK
<1>11. RingOK(n)'
  <2>1. \A b \in Buffers : fstate'[b] = "queued" <=> T(b) < n
    <3>1. ASSUME NEW b \in Buffers PROVE fstate'[b] = "queued" <=> T(b) < n
      <4>1. CASE b = lastid
        BY <1>1, <1>3, <1>7, <1>4, <4>1 DEF FileTypes
      <4>2. CASE b # lastid
        <5>1. fstate'[b] = fstate[b] /\ (fstate[b] = "queued" <=> Turn(b) < k)
          BY <1>1, <4>2 DEF FileTypes, RingOK
        <5> QED
          BY <1>3, <1>4, <1>7, <4>2, <5>1
      <4> QED
        BY <4>1, <4>2
    <3> QED
      BY <3>1
  <2>2. \A i \in 1 .. Len(up') : T(up'[i]) = (n - 1) + i
    <3>1. ASSUME NEW i \in 1 .. Len(a) PROVE T(a[i]) = (n - 1) + i
      <4>1. CASE i = Len(up) + 1
        <5>1. T(lastid) = NBuffers - 1
          BY <1>1, <1>3
        <5>2. a[i] = lastid /\ (n - 1) + i = NBuffers - 1
          BY <1>7, <1>8, <1>10, <4>1, <1>4
        <5> QED
          BY <5>1, <5>2
      <4>2. CASE i \in 1 .. Len(up)
        <5>1. a[i] = up[i] /\ up[i] \in Buffers /\ up[i] # lastid /\ Turn(up[i]) = n + i
          BY <1>8, <1>9, <4>2
        <5> DEFINE b == up[i]
        <5> HIDE DEF b
        <5>2. b \in Buffers /\ b # lastid /\ Turn(b) = n + i
          BY <5>1 DEF b
        <5>3. T(b) = (n - 1) + i
          BY <1>3, <1>7, <5>2
        <5> QED
          BY <5>1, <5>3 DEF b
      <4> QED
        BY <1>8, <4>1, <4>2
    <3>2. \A i \in 1 .. Len(up') : T(a[i]) = (n - 1) + i
      BY <1>8, <3>1
    <3> QED
      BY <1>8, <3>2
  <2>3. Len(up') = NBuffers - n
    BY <1>4, <1>7, <1>8, <1>10
  <2> QED
    BY <1>2, <1>8, <2>1, <2>2, <2>3 DEF RingOK, Turn, T
<1>12. mode = "loop" => Follows(given, given')
  BY <1>6 DEF FramesOK
<1>13. FramesOK(n)'
  <2> SUFFICES ASSUME mode = "loop" PROVE FramesOK(n)'
    BY DEF FramesOK
  <2>1. ASSUME NEW b \in Buffers, NEW c \in Buffers, T(c) = T(b) + 1, T(c) < n
        PROVE  Follows(fdata[b], fdata[c])
    <3>1. b # lastid /\ c # lastid
      BY <1>3, <1>4, <1>7, <2>1
    <3>2. Turn(c) = Turn(b) + 1 /\ Turn(c) < k
      BY <1>3, <1>4, <1>7, <2>1, <3>1
    <3> QED
      BY <3>2 DEF FramesOK
  <2>2. ASSUME n > 0 PROVE Follows(given', fdata[lastid'])
    <3>1. T(lastid') = 0
      BY <1>3, <1>5
    <3> DEFINE c == lastid'
    <3>2. c \in Buffers /\ (IF c = lastid THEN NBuffers - 1 ELSE Turn(c) - 1) = 0
      BY <1>3, <3>1
    <3>3. c # lastid /\ Turn(c) = 1 /\ Turn(lastid) = 0
      BY <1>1, <1>4, <1>7, <2>2, <3>2
    <3>4. Follows(fdata[lastid], fdata[c])
      BY <1>1, <1>7, <2>2, <3>2, <3>3 DEF FramesOK
    <3> QED
      BY <3>4
  <2>3. \A f : NextIs(f) => NextIs(f)'
    BY <1>2 DEF NextIs
  <2>4. ASSUME n = 0 PROVE NextIs(given)'
    <3>1. Turn(lastid) = k - 1
      BY <1>1, <1>4, <1>7, <2>4
    <3>2. NextIs(fdata[lastid])
      BY <1>1, <3>1 DEF FramesOK
    <3> QED
      BY <1>2, <3>2 DEF NextIs
  <2>5. ASSUME NEW b \in Buffers, T(b) = n - 1 PROVE NextIs(fdata[b])'
    <3>1. Turn(b) = k - 1
      BY <1>3, <1>4, <1>7, <2>5
    <3>2. NextIs(fdata[b])
      BY <3>1 DEF FramesOK
    <3> QED
      BY <1>1, <1>2, <3>2 DEF NextIs
  <2> QED
    BY <1>1, <2>1, <2>2, <2>4, <2>5 DEF FramesOK, Follows, Turn, T
<1>14. k - 1 \in 0 .. NBuffers
  BY <1>7, NBuffersAssumption
<1> QED
  BY <1>11, <1>12, <1>13, <1>14 DEF n

(* The steps of the device.                                                  *)
LEMMA NextIsRests ==
  ASSUME UNCHANGED pos, ~ Reading, ~ Reading' \/ call' # NoCall
  PROVE  \A f : NextIs(f) => NextIs(f)'
BY DEF NextIs

LEMMA RecvIs == Recv => call'.op = "recv" /\ call' # NoCall
BY DEF Recv, NoCall

(* The calls between two frames.                                             *)
LEMMA ControlCall ==
  ASSUME FileTypes,
         SFileStart \/ FillFirst \/ SFileStarted \/ HeaderWritten \/ Reopen
  PROVE  /\ ~ Reading /\ (~ Reading' \/ call' # NoCall)
         /\ call'.op = "recv" => Reading'
         /\ Reading' => call' = NoCall \/ call'.op = "recv"
<1>1. CASE SFileStart
  BY <1>1, CallIs DEF SFileStart, Reading, NoCall
<1>2. CASE FillFirst
  BY <1>2, RecvIs DEF FillFirst, Reading
<1>3. CASE SFileStarted
  BY <1>3 DEF SFileStarted, Reading, NoCall
<1>4. CASE HeaderWritten
  BY <1>4, SendIs DEF HeaderWritten, Reading
<1>5. CASE Reopen
  BY <1>5, CallIs DEF Reopen, Reading, NoCall
<1> QED
  BY <1>1, <1>2, <1>3, <1>4, <1>5

LEMMA ControlInv ==
  ASSUME FileInv, UNCHANGED <<fileVars, up, given, proto>>,
         SFileStart \/ FillFirst \/ SFileStarted \/ HeaderWritten \/ Reopen
  PROVE  FileInv'
<1>0. /\ ~ Reading /\ (~ Reading' \/ call' # NoCall)
      /\ call'.op = "recv" => Reading'
      /\ Reading' => call' = NoCall \/ call'.op = "recv"
  BY ControlCall DEF FileInv
<1>a. /\ UNCHANGED <<fstate, fdata, lastid, input>>
      /\ fcur' = IF fpc = "fill" THEN 0 ELSE fcur
  BY DEF SFileStart, FillFirst, SFileStarted, HeaderWritten, Reopen, fileConf
<1>b. UNCHANGED <<pos, mode, up, given, proto>>
  BY DEF fileVars
<1>c. \/ fpc = "created" /\ fpc' = IF input THEN "fill" ELSE "start"
      \/ fpc = "fill" /\ fpc' = "filling"
      \/ fpc \in {"start", "reopen"} /\ fpc' \in {"failed", "idle"}
      \/ fpc = "header" /\ fpc' = "data"
      \/ fpc = "closing" /\ fpc' = "reopen"
  BY DEF SFileStart, FillFirst, SFileStarted, HeaderWritten, Reopen
<1>1. /\ UNCHANGED <<fstate, fdata, lastid, input, up, given, pos, mode, proto>>
      /\ ~ Reading /\ Awaited' = Awaited /\ (~ Reading' \/ call' # NoCall)
      /\ Alive /\ (Alive' => Starts' = Starts)
  <2>1. Alive
    BY <1>c DEF Alive
  <2>2. Awaited' = Awaited
    BY <1>c DEF Awaited
  <2>3. Alive' => Starts' = Starts
    BY <1>a, <1>c DEF Alive, Starts, FileInv, FileTypes
  <2> QED
    BY <1>0, <1>a, <1>b, <2>1, <2>2, <2>3
<1>2. FileTypes'
  <2>1. fcur' \in Buffers
    BY <1>a, NBuffersAssumption DEF FileInv, FileTypes, Buffers
  <2>2. /\ input => fpc' \notin {"header", "data"}
        /\ ~ input => fpc' \notin {"fill", "filling", "read"}
    BY <1>c DEF FileInv, FileTypes
  <2> QED
    BY <1>0, <1>1, <2>1, <2>2 DEF FileInv, FileTypes
<1>3. ASSUME Alive' PROVE \E k \in 0 .. NBuffers : RingOK(k)' /\ FramesOK(k)'
  <2>1. PICK k \in 0 .. NBuffers : RingOK(k) /\ FramesOK(k)
    BY <1>1 DEF FileInv
  <2>2. FramesOK(k)'
    BY <1>1, <2>1, NextIsRests, FramesRest
  <2>3. Awaited => fcur' = fcur
    BY <1>a, <1>c DEF Awaited
  <2>4. Starts => IF fpc' = "filling" THEN fcur' = k ELSE k = 0
    <3>1. Starts => fpc \in {"created", "fill"} /\ k = 0
      BY <1>1, <2>1 DEF RingOK, Starts, Reading
    <3>2. Starts /\ fpc' = "filling" => fcur' = 0
      BY <1>a, <1>c, <3>1
    <3> QED
      BY <3>1, <3>2
  <2>5. RingOK(k)'
    BY <1>1, <1>3, <2>1, <2>3, <2>4, RingRests
  <2> QED
    BY <2>2, <2>5
<1> QED
  BY <1>2, <1>3 DEF FileInv

LEMMA EndInv ==
  ASSUME FileInv, UNCHANGED <<fileVars, up, given, proto>>, SFileError \/ SFileStop
  PROVE  FileInv'
<1>1. /\ UNCHANGED <<fstate, fdata, lastid, fcur, input, up, given, pos, mode, proto>>
      /\ fpc' \in {"failed", "stopped"} /\ call'.op # "recv"
  BY CallIs DEF SFileError, SFileStop, fileConf, fileVars, Answered, NoCall
<1> QED
  BY <1>1 DEF FileInv, FileTypes, Alive, Reading

LEMMA TakeInv ==
  ASSUME FileInv, UNCHANGED <<fileVars, given, proto>>,
         NEW b, TakeUp(b), WriteFrame(b) \/ ReadFrame(b)
  PROVE  FileInv'
<1>a. UNCHANGED <<pos, mode, given, proto>>
  BY DEF fileVars
<1>b. /\ UNCHANGED <<fstate, fdata, lastid, input>>
      /\ fpc = "idle" /\ fcur' = b
  BY DEF WriteFrame, ReadFrame, fileConf
<1>1. /\ UNCHANGED <<fstate, fdata, lastid, input, given, pos, mode, proto>>
      /\ fpc = "idle" /\ fcur' = b
      /\ \/ input /\ fpc' = "read" /\ call'.op = "recv" /\ call' # NoCall
         \/ ~ input /\ fpc' \in {"header", "data"} /\ call'.op = "send"
  <2>1. CASE ReadFrame(b)
    BY <1>a, <1>b, <2>1, RecvIs DEF ReadFrame
  <2>2. CASE WriteFrame(b)
    BY <1>a, <1>b, <2>2, SendIs DEF WriteFrame
  <2> QED
    BY <2>1, <2>2
<1>2. ~ Awaited /\ Awaited' /\ ~ Starts /\ ~ Starts' /\ ~ Reading /\ Alive
  BY <1>1 DEF Awaited, Starts, Reading, Alive
<1>3. ~ Reading' \/ call' # NoCall
  BY <1>1 DEF Reading
<1>4. PICK k \in 0 .. NBuffers : RingOK(k) /\ FramesOK(k)
  BY <1>2 DEF FileInv
<1>5. b \in Buffers /\ RingOK(k)'
  BY <1>1, <1>2, <1>4, RingTakes DEF FileInv
<1>6. FramesOK(k)'
  BY <1>1, <1>2, <1>3, <1>4, NextIsRests, FramesRest
<1>7. FileTypes'
  BY <1>1, <1>5 DEF FileInv, FileTypes, Reading
<1> QED
  BY <1>5, <1>6, <1>7 DEF FileInv

LEMMA DataWrittenInv ==
  ASSUME FileInv, UNCHANGED <<fileVars, up, given, proto>>, DataWritten
  PROVE  FileInv'
<1>1. /\ UNCHANGED <<fdata, lastid, fcur, input, up, given, pos, mode, proto>>
      /\ fpc = "data" /\ fpc' = "idle" /\ call' = NoCall
      /\ fstate' = [fstate EXCEPT ![fcur] = "queued"]
  BY DEF DataWritten, Answered, fileConf, fileVars
<1>2. Awaited /\ ~ Awaited' /\ ~ Starts /\ ~ Starts' /\ Alive
  BY <1>1 DEF Awaited, Starts, Alive
<1>3. PICK k \in 0 .. NBuffers : RingOK(k)
  BY <1>2 DEF FileInv
<1>4. k + 1 \in 0 .. NBuffers /\ RingOK(k + 1)'
  BY <1>1, <1>2, <1>3, RingFills DEF FileInv
<1>5. FramesOK(k + 1)'
  BY <1>1 DEF FileInv, FileTypes, FramesOK
<1>6. FileTypes'
  BY <1>1 DEF FileInv, FileTypes, Reading, NoCall
<1> QED
  BY <1>4, <1>5, <1>6 DEF FileInv

LEMMA FrameReadInv ==
  ASSUME FileInv, UNCHANGED <<fileVars, up, given, proto>>, FrameRead(pos)
  PROVE  FileInv'
<1>1. /\ UNCHANGED <<lastid, fcur, input, up, given, pos, mode, proto>>
      /\ fpc = "read" /\ fpc' = "idle" /\ call = NoCall /\ reply = "ok" /\ call' = NoCall
      /\ fstate' = [fstate EXCEPT ![fcur] = "queued"]
      /\ fdata' = [fdata EXCEPT ![fcur] = pos]
  BY DEF FrameRead, Answered, fileConf, fileVars
<1>2. Awaited /\ ~ Awaited' /\ ~ Starts /\ ~ Starts' /\ Alive /\ Reading /\ ~ Reading'
  BY <1>1 DEF Awaited, Starts, Alive, Reading
<1>3. PICK k \in 0 .. NBuffers : RingOK(k) /\ FramesOK(k)
  BY <1>2 DEF FileInv
<1>4. k + 1 \in 0 .. NBuffers /\ RingOK(k + 1)'
  BY <1>1, <1>2, <1>3, RingFills DEF FileInv
<1>5. FramesOK(k + 1)'
  <2>1. Turn(fcur) = k /\ k \in 0 .. NBuffers - 1
    BY <1>2, <1>3, <1>4, NBuffersAssumption DEF RingOK
  <2> QED
    BY <1>1, <1>2, <1>3, <2>1, FramesRead DEF FileInv
<1>6. FileTypes'
  <2>1. pos \in Nat /\ (mode # "loop" => pos = 0)
    BY FileAssumption DEF FileInv, FileTypes
  <2> QED
    BY <1>1, <2>1 DEF FileInv, FileTypes, Reading, NoCall
<1> QED
  BY <1>4, <1>5, <1>6 DEF FileInv

LEMMA FillNextInv ==
  ASSUME FileInv, UNCHANGED <<fileVars, up, given, proto>>, FillNext(pos)
  PROVE  FileInv'
<1>1. /\ UNCHANGED <<lastid, input, up, given, pos, mode, proto>>
      /\ fpc = "filling" /\ call = NoCall /\ reply = "ok"
      /\ fstate' = [fstate EXCEPT ![fcur] = "queued"]
      /\ fdata' = [fdata EXCEPT ![fcur] = pos]
      /\ IF fcur < NBuffers - 1
         THEN fcur' = fcur + 1 /\ fpc' = "filling" /\ call'.op = "recv" /\ call' # NoCall
         ELSE fcur' = fcur /\ fpc' = "start" /\ call'.op = "connect"
  BY CallIs DEF FillNext, Answered, Recv, NoCall, fileConf, fileVars
<1>2. input /\ fcur \in Buffers
  BY <1>1 DEF FileInv, FileTypes
<1>3. \/ fcur < NBuffers - 1 /\ fcur' = fcur + 1 /\ fpc' = "filling" /\ fcur' \in Buffers
      \/ fcur = NBuffers - 1 /\ fpc' = "start" /\ fcur' \in Buffers
  BY <1>1, <1>2, NBuffersAssumption DEF Buffers
<1>4. ~ Awaited /\ ~ Awaited' /\ Starts /\ Alive /\ Reading /\ ~ (Reading' /\ call' = NoCall)
  BY <1>1, <1>2 DEF Awaited, Starts, Alive, Reading
<1>5. PICK k \in 0 .. NBuffers : RingOK(k) /\ FramesOK(k)
  BY <1>4 DEF FileInv
<1>6. k + 1 \in 0 .. NBuffers /\ RingOK(k + 1)' /\ Turn(fcur) = k
  BY <1>1, <1>3, <1>4, <1>5, RingStarts DEF FileInv
<1>7. FramesOK(k + 1)'
  <2>1. k \in 0 .. NBuffers - 1
    BY <1>6, NBuffersAssumption
  <2> QED
    BY <1>1, <1>4, <1>5, <1>6, <2>1, FramesRead DEF FileInv
<1>8. FileTypes'
  <2>1. pos \in Nat /\ (mode # "loop" => pos = 0)
    BY FileAssumption DEF FileInv, FileTypes
  <2> QED
    BY <1>1, <1>3, <2>1 DEF FileInv, FileTypes, Reading
<1> QED
  BY <1>6, <1>7, <1>8 DEF FileInv

LEMMA GiveInv ==
  ASSUME FileInv, UNCHANGED <<fileVars, proto>>,
         SFileDequeue, PutUp(lastid), given' = fdata[lastid]
  PROVE  FileInv' /\ given' \in {given, given + 1, 1}
<1>1. /\ UNCHANGED <<fdata, fcur, input, pos, mode, proto>>
      /\ fpc = "idle" /\ fpc' \in {"idle", "closing"} /\ lastid' = GiveOrder(lastid)
      /\ fstate' = [fstate EXCEPT ![lastid] = "dequeued"]
      /\ call' = call \/ call'.op = "close"
  BY CallIs DEF SFileDequeue, fileConf, fileVars
<1>2. PICK k \in 0 .. NBuffers : RingOK(k) /\ FramesOK(k)
  BY <1>1 DEF FileInv, Alive
<1>3. /\ k - 1 \in 0 .. NBuffers /\ RingOK(k - 1)' /\ FramesOK(k - 1)'
      /\ mode = "loop" => Follows(given, given')
  BY <1>1, <1>2, RingGives DEF FileInv
<1>4. FileTypes'
  <2>1. lastid \in Buffers /\ lastid' \in Buffers
    BY <1>1, GiveOrderIs DEF FileInv, FileTypes
  <2> QED
    BY <1>1, <2>1 DEF FileInv, FileTypes, Reading
<1>5. given' \in {given, given + 1, 1}
  BY <1>1, <1>3 DEF Follows, FileInv, FileTypes
<1> QED
  BY <1>3, <1>4, <1>5 DEF FileInv

LEMMA SFileStepInv ==
  ASSUME FileInv, SFileSteps, UNCHANGED <<fileVars, proto>>
  PROVE  FileInv' /\ given' \in {given, given + 1, 1}
<1>1. CASE /\ SFileStart \/ FillFirst \/ FillNext(pos) \/ SFileStarted
              \/ HeaderWritten \/ DataWritten \/ FrameRead(pos) \/ SFileError
              \/ Reopen \/ SFileStop
           /\ UNCHANGED <<up, given>>
  BY <1>1, ControlInv, EndInv, FillNextInv, FrameReadInv, DataWrittenInv
<1>2. CASE \E b \in Buffers :
              TakeUp(b) /\ (WriteFrame(b) \/ ReadFrame(b)) /\ UNCHANGED given
  BY <1>2, TakeInv
<1>3. CASE SFileDequeue /\ PutUp(lastid) /\ given' = fdata[lastid]
  BY <1>3, GiveInv
<1> QED
  BY <1>1, <1>2, <1>3 DEF SFileSteps

(* The frame that read() gives comes after the one before.                   *)
LEMMA NextPos ==
  ASSUME NEW p \in 0 .. FileLen
  PROVE  /\ (p % FileLen) + 1 \in 0 .. FileLen
         /\ (p % FileLen) + 1 \in {p + 1, 1}
         /\ p = 0 => (p % FileLen) + 1 = 1
<1>1. FileLen \in Nat \ {0} /\ p \in Nat /\ p <= FileLen
  BY FileAssumption
<1>2. CASE p < FileLen
  <2>1. p % FileLen = p
    BY <1>1, <1>2
  <2> QED
    BY <1>1, <1>2, <2>1
<1>3. CASE p = FileLen
  <2>1. p % FileLen = 0
    BY <1>1, <1>3
  <2> QED
    BY <1>1, <1>3, <2>1
<1> QED
  BY <1>1, <1>2, <1>3

(* A step of the transport reads the next frame, or leaves the frames alone. *)
LEMMA FileRecvNext ==
  ASSUME FileTypes, FileRecv, UNCHANGED fpc
  PROVE  /\ pos' \in 0 .. FileLen /\ (mode # "loop" => pos' = 0)
         /\ Reading' /\ call' = NoCall /\ mode' = mode
         /\ mode = "loop" => \A f \in Nat : NextIs(f) => NextIs(f)'
<1>1. Reading /\ Reading' /\ call # NoCall /\ call' = NoCall /\ mode' = mode
  BY DEF FileTypes, FileRecv, Answer, NoCall, Reading
<1>2. CASE mode = "loop"
  <2>1. pos' = (pos % FileLen) + 1
    BY <1>2 DEF FileRecv
  <2>2. pos' \in 0 .. FileLen /\ pos' \in {pos + 1, 1} /\ (pos = 0 => pos' = 1)
    BY <2>1, NextPos DEF FileTypes
  <2>3. ASSUME NEW f \in Nat, NextIs(f) PROVE NextIs(f)'
    <3>1. pos \in {f, 0}
      BY <1>1, <2>3 DEF NextIs
    <3>2. Follows(f, pos')
      BY <2>2, <3>1 DEF Follows
    <3> QED
      BY <1>1, <3>2 DEF NextIs, Follows
  <2> QED
    BY <1>1, <1>2, <2>2, <2>3
<1>3. CASE mode # "loop"
  <2>1. pos' = 0
    BY <1>3 DEF FileRecv, FileTypes
  <2> QED
    BY <1>1, <1>3, <2>1, FileAssumption
<1> QED
  BY <1>2, <1>3

LEMMA FileOtherNext ==
  ASSUME FileTypes, UNCHANGED fpc,
         \/ ReadConnect \/ WriteConnect \/ FileSend \/ FileFlush
         \/ FileClose \/ ReadClose \/ Second
  PROVE  /\ pos' \in 0 .. FileLen /\ (mode # "loop" => pos' = 0) /\ mode' = mode
         /\ call' = call \/ (~ Reading /\ call' = NoCall)
         /\ \A f \in Nat : NextIs(f) => NextIs(f)'
<1>1. CASE Second
  <2>1. UNCHANGED <<pos, mode, call, reply>>
    BY <1>1 DEF Second
  <2> QED
    BY <2>1 DEF FileTypes, NextIs, Reading, Follows
<1>2. CASE \/ ReadConnect \/ WriteConnect \/ FileSend \/ FileFlush
           \/ FileClose \/ ReadClose
  <2>1. /\ call.op \in {"connect", "send", "flush", "close"} /\ call' = NoCall
        /\ pos' \in {pos, 0} /\ mode' = mode
    <3>1. CASE ReadConnect
      BY <3>1 DEF ReadConnect, Answer
    <3>2. CASE WriteConnect
      BY <3>2 DEF WriteConnect, Answer
    <3>3. CASE FileSend
      BY <3>3 DEF FileSend, Answer
    <3>4. CASE FileFlush
      BY <3>4 DEF FileFlush, Answer, fileVars
    <3>5. CASE FileClose \/ ReadClose
      BY <3>5 DEF FileClose, ReadClose, Answer
    <3> QED
      BY <1>2, <3>1, <3>2, <3>3, <3>4, <3>5
  <2>2. ~ Reading /\ ~ Reading'
    BY <2>1 DEF FileTypes, NoCall, Reading
  <2>3. \A f \in Nat : NextIs(f) => NextIs(f)'
    BY <2>1, <2>2 DEF NextIs
  <2> QED
    BY <2>1, <2>2, <2>3, FileAssumption DEF FileTypes
<1> QED
  BY <1>1, <1>2

LEMMA FramesKeep ==
  ASSUME NEW k, FileTypes, FramesOK(k), UNCHANGED <<fdata, given, lastid, mode>>,
         mode = "loop" => \A f \in Nat : NextIs(f) => NextIs(f)'
  PROVE  FramesOK(k)'
<1>1. \A b : Turn(b)' = Turn(b)
  BY DEF Turn
<1> QED
  BY <1>1 DEF FramesOK, Follows, FileTypes

LEMMA FileTransportInv ==
  ASSUME FileInv, FileNext, UNCHANGED <<sfileVars, up, given, proto>>
  PROVE  FileInv'
<1>1. UNCHANGED <<fstate, fdata, lastid, fcur, fpc, input, up, given, proto>>
  BY DEF sfileVars, fileConf
<1>2. /\ pos' \in 0 .. FileLen /\ (mode # "loop" => pos' = 0) /\ mode' = mode
      /\ call' = call \/ call' = NoCall
      /\ mode = "loop" => \A f \in Nat : NextIs(f) => NextIs(f)'
  BY <1>1, FileRecvNext, FileOtherNext DEF FileInv, FileNext
<1>3. FileTypes'
  BY <1>1, <1>2 DEF FileInv, FileTypes, Reading, NoCall
<1>4. ASSUME Alive PROVE \E k \in 0 .. NBuffers : RingOK(k)' /\ FramesOK(k)'
  <2>1. PICK k \in 0 .. NBuffers : RingOK(k) /\ FramesOK(k)
    BY <1>4 DEF FileInv
  <2>2. RingOK(k)'
    BY <1>1, <2>1, RingRests DEF RingOK, Awaited, Starts
  <2>3. FramesOK(k)'
    BY <1>1, <1>2, <2>1, FramesKeep DEF FileInv
  <2> QED
    BY <2>2, <2>3
<1> QED
  BY <1>1, <1>3, <1>4 DEF FileInv, Alive

LEMMA FileStutterInv ==
  ASSUME FileInv, UNCHANGED <<call, reply, sfileVars, fileVars, up, given, proto>>
  PROVE  FileInv'
<1>1. UNCHANGED <<call, reply, fstate, fdata, lastid, fcur, fpc, input, up, given, proto, pos, mode>>
  BY DEF sfileVars, fileConf, fileVars
<1>2. \A f : NextIs(f) => NextIs(f)'
  BY <1>1 DEF NextIs, Reading, Follows
<1>3. ASSUME NEW k, RingOK(k), FramesOK(k) PROVE RingOK(k)' /\ FramesOK(k)'
  BY <1>1, <1>2, <1>3, RingRests, FramesRest DEF RingOK, Awaited, Starts
<1> QED
  BY <1>1, <1>3 DEF FileInv, FileTypes, Reading, Alive

-----------------------------------------------------------------------------
(* The buffers of either device *)

KeptInv ==
    /\ device \in {"mpegts", "file"}
    /\ device = "mpegts" => MpegtsKept
    /\ device = "file" => FileInv
    /\ device = "mpegts" => given = 0

LEMMA KeptInit == Init => KeptInv
BY MpegtsKeptInit, FileInvInit DEF Init, KeptInv

LEMMA KeptNext ==
  ASSUME KeptInv, [Next]_vars
  PROVE  KeptInv' /\ (device = "file" => given' \in {given, given + 1, 1})
                  /\ (device = "mpegts" => given' = given)
<1>1. CASE UNCHANGED vars
  <2>1. UNCHANGED <<device, proto, up, given, mstate, cur, currentid, pc>>
        /\ UNCHANGED <<call, reply, sfileVars, fileVars>>
    BY <1>1 DEF vars, sinkVars, mpegtsVars, sendVars
  <2>2. MpegtsKept => MpegtsKept'
    BY <2>1, StatesRest DEF Sending
  <2> QED
    BY <2>1, <2>2, FileStutterInv DEF KeptInv
<1>2. CASE DeviceNext /\ UNCHANGED <<device, proto>>
  <2>1. CASE device = "mpegts"
    <3>1. MpegtsSteps /\ given' = given
      BY <1>2, <2>1 DEF DeviceNext, SFileSteps, MpegtsSteps
    <3> QED
      BY <1>2, <2>1, <3>1, MpegtsStepKept DEF KeptInv
  <2>2. CASE device = "file"
    <3>1. SFileSteps /\ UNCHANGED <<fileVars, proto>>
      BY <1>2, <2>2 DEF DeviceNext, MpegtsSteps
    <3> QED
      BY <1>2, <2>2, <3>1, SFileStepInv DEF KeptInv
  <2> QED
    BY <2>1, <2>2 DEF KeptInv
<1>3. CASE TransportNext /\ UNCHANGED <<device, proto>>
  <2>1. UNCHANGED <<mpegtsVars, sfileVars, up, given>>
    BY <1>3 DEF TransportNext
  <2>2. MpegtsKept => MpegtsKept'
    BY <2>1, StatesRest DEF mpegtsVars, mpegtsConf, sendVars, Sending
  <2>3. FileInv => FileInv'
    BY <1>3, <2>1, FileTransportInv DEF TransportNext, FileInv, FileTypes
  <2> QED
    BY <1>3, <2>1, <2>2, <2>3 DEF KeptInv
<1> QED
  BY <1>1, <1>2, <1>3 DEF Next

LEMMA KeptInvariance == Spec => []KeptInv
BY KeptInit, KeptNext, PTL DEF Spec

(* Upstream of the file device are the buffers that are not queued, once.    *)
LEMMA FileUpOK ==
  ASSUME FileInv, fpc \in {"idle", "closing", "reopen"}
  PROVE  /\ up \in Seq(Buffers) /\ Distinct(up)
         /\ \A b \in Buffers : Has(up, b) <=> fstate[b] # "queued"
<1>1. PICK k \in 0 .. NBuffers : RingOK(k)
  BY DEF FileInv, Alive
<1>2. ~ Awaited /\ ~ Starts
  BY DEF Awaited, Starts
<1>3. /\ up \in Seq(Buffers) /\ Len(up) = NBuffers - k
      /\ \A i \in 1 .. Len(up) : Turn(up[i]) = (k - 1) + i /\ up[i] \in Buffers
  BY <1>1, <1>2 DEF RingOK
<1>4. /\ \A b \in Buffers : Turn(b) \in 0 .. NBuffers - 1
      /\ \A b, c \in Buffers : Turn(b) = Turn(c) => b = c
      /\ NBuffers \in Nat
  BY TurnIs DEF FileInv, FileTypes
<1>5. Distinct(up)
  BY <1>3 DEF Distinct
<1>6. ASSUME NEW b \in Buffers PROVE Has(up, b) <=> fstate[b] # "queued"
  <2>1. fstate[b] # "queued" <=> Turn(b) >= k
    BY <1>1, <1>4 DEF RingOK
  <2>2. ASSUME Turn(b) >= k PROVE Has(up, b)
    <3> DEFINE i == Turn(b) - k + 1
    <3>1. i \in 1 .. Len(up) /\ (k - 1) + i = Turn(b)
      BY <1>3, <1>4, <2>2
    <3>2. up[i] = b
      BY <1>3, <1>4, <3>1
    <3> QED
      BY <3>1, <3>2 DEF Has
  <2>3. ASSUME Has(up, b) PROVE Turn(b) >= k
    <3>1. PICK i \in 1 .. Len(up) : up[i] = b
      BY <2>3 DEF Has
    <3> QED
      BY <1>3, <3>1
  <2> QED
    BY <2>1, <2>2, <2>3
<1> QED
  BY <1>3, <1>5, <1>6

(* A buffer is in the sink or with the other device, for any number of them: *)
(* also after a refused frame, and when a file is closed for the next one    *)
(* (queue and dequeue of smpegts.c and sfile.c).                             *)
THEOREM BuffersAreKept == Spec => []BufferKept
<1>1. ASSUME KeptInv PROVE BufferKept
  <2> SUFFICES ASSUME device = "mpegts" \/ fpc \in {"idle", "closing", "reopen"},
                      NEW b \in Buffers
               PROVE  InUp(b) = IF InSink(b) THEN 0 ELSE 1
    BY DEF BufferKept
  <2>1. up \in Seq(Buffers) /\ Distinct(up) /\ (Has(up, b) <=> ~ InSink(b))
    <3>1. CASE device = "mpegts"
      BY <1>1, <3>1 DEF KeptInv, MpegtsKept, UpOK, StatesOK, MStates, InSink
    <3>2. CASE device = "file"
      BY <1>1, <3>2, FileUpOK DEF KeptInv, InSink
    <3> QED
      BY <1>1, <3>1, <3>2 DEF KeptInv
  <2> QED
    BY <2>1, OnePosition DEF InUp
<1> QED
  BY <1>1, KeptInvariance, PTL

(* The frames of a file are given in its order, for any number of buffers    *)
(* and frames, though buffers are given by number (sfile_dequeue()).         *)
THEOREM FramesInOrder == Spec => InFileOrder
<1>1. KeptInv /\ [Next]_vars => [given' \in {given, given + 1, 1}]_vars
  BY KeptNext DEF KeptInv
<1> QED
  BY <1>1, KeptInvariance, PTL DEF Spec, InFileOrder

==============================================================================
