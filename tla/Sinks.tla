-------------------------------- MODULE Sinks --------------------------------
(***************************************************************************)
(* A stream at its end: the mpegts sink over the unix, udp or file transport, *)
(* or the file device over the file transport.  Which of them is chosen at    *)
(* the start, like the configuration does.  The device upstream (downstream   *)
(* of a file that is read) gives the buffers in the order it got them back.   *)
(***************************************************************************)
EXTENDS Mpegts, SFile, ProtoUnix, ProtoUdp, ProtoFile

VARIABLES
    device,   \* "mpegts" or "file"
    proto,    \* config->proto
    up,       \* the buffers that the other device holds, in its order
    given     \* the last frame that the source gave, 0 before the first

sinkVars == <<device, proto, up, given>>
vars == <<call, reply, mpegtsVars, sfileVars, unixVars, udpVars, fileVars, sinkVars>>

MtuOf == [unix |-> UnixMtu, udp |-> UdpMtu, file |-> FileMtu]

Init ==
    /\ device \in {"mpegts", "file"}
    /\ proto \in (IF device = "mpegts" THEN {"unix", "udp", "file"} ELSE {"file"})
    /\ call = NoCall /\ reply = "ok"
    /\ MpegtsInit /\ mtu = MtuOf[proto]
    /\ meta \in (IF device = "mpegts" THEN BOOLEAN ELSE {FALSE})
    /\ SFileInit
    /\ UnixInit /\ UdpInit /\ FileInit
    /\ input = (mode # "write")
    /\ header \in (IF device = "file" /\ ~ input THEN BOOLEAN ELSE {FALSE})
    /\ device = "mpegts" => mode = "write"
    /\ proto # "file" => filename = Given
    /\ up = IF input THEN << >> ELSE [i \in 1 .. NBuffers |-> i - 1]
    /\ given = 0

-----------------------------------------------------------------------------
TakeUp(b) == up # << >> /\ b = Head(up) /\ up' = Tail(up)
PutUp(b) == up' = Append(up, b)

(* The thread of the main loop in the device.                                 *)
MpegtsSteps ==
    /\ device = "mpegts"
    /\ \/ /\ \/ MpegtsStart \/ MpegtsStarted \/ HeaderSent \/ PayloadSent \/ KlvSent
             \/ TableSent \/ SendError \/ MpegtsDequeue \/ MpegtsStop
          /\ UNCHANGED up
       \/ \E b \in Buffers, n \in 1 .. MaxPackets : TakeUp(b) /\ MpegtsQueue(b, n)
       \/ SendAgain /\ PutUp(cur)
       \/ MpegtsDequeued /\ PutUp(cur)
    /\ UNCHANGED <<sfileVars, given>>

SFileSteps ==
    /\ device = "file"
    /\ \/ /\ \/ SFileStart \/ FillFirst \/ FillNext(pos) \/ SFileStarted
             \/ HeaderWritten \/ DataWritten \/ FrameRead(pos) \/ SFileError
             \/ Reopen \/ SFileStop
          /\ UNCHANGED <<up, given>>
       \/ \E b \in Buffers :
             TakeUp(b) /\ (WriteFrame(b) \/ ReadFrame(b)) /\ UNCHANGED given
       \/ SFileDequeue /\ PutUp(lastid) /\ given' = fdata[lastid]
    /\ UNCHANGED mpegtsVars

DeviceNext ==
    /\ ubroken = "no"
    /\ MpegtsSteps \/ SFileSteps
    /\ UNCHANGED <<unixVars, udpVars, fileVars>>

TransportNext ==
    /\ \/ proto = "unix" /\ UnixNext /\ UNCHANGED <<udpVars, fileVars>>
       \/ proto = "udp"  /\ UdpNext /\ UNCHANGED <<unixVars, fileVars>>
       \/ proto = "file" /\ FileNext /\ UNCHANGED <<unixVars, udpVars>>
    /\ UNCHANGED <<mpegtsVars, sfileVars, up, given>>

Next == (DeviceNext \/ TransportNext) /\ UNCHANGED <<device, proto>>
Spec == Init /\ [][Next]_vars

-----------------------------------------------------------------------------
(* What the transport has gathered for the packet under way, and a send that   *)
(* it has not begun.                                                           *)
Gathered == IF proto = "unix" THEN offset ELSE corked
Pending  == device = "mpegts" /\ proto # "file" /\ call.op = "send" /\ walk = NoCall

(* The device and the transport count the same packet apart from each other:   *)
(* the room left in _client_pushdata() is at each send what the transport has  *)
(* left, after refused packets and tables too.                                 *)
AccountsAgree == Pending => Gathered = mtu - room

(* Nothing is ever cut: what is sent fits, and a packet of the transport       *)
(* leaves with whole packets of the stream, so that a client that comes or     *)
(* misses one stays in step.                                                   *)
WholePackets ==
    Pending => /\ Gathered + call.len <= mtu
               /\ ~ call.more => (Gathered + call.len) % Packet = 0

(* A frame that was sent to clients was followed by the PMT at least, so that  *)
(* a client that comes late can start, and the packet was sent off.            *)
TablesFollow ==
    (proto # "file" /\ pc = "idle" /\ mstate[cur] = "ready")
        => psi # "none" /\ Gathered = 0

(* A buffer is with the sink or with the other device, never with both and     *)
(* never lost: also after a refused frame.                                     *)
InUp(b) == Cardinality({ i \in DOMAIN up : up[i] = b })
InSink(b) == IF device = "mpegts" THEN mstate[b] \in {"queued", "ready"}
                                  ELSE fstate[b] = "queued"
BufferKept ==
    (device = "mpegts" \/ fpc \in {"idle", "closing", "reopen"})
        => \A b \in Buffers : InUp(b) = IF InSink(b) THEN 0 ELSE 1

(* A file that has its name is final: nothing more is written in it.           *)
VisibleIsFinal == [][ \A n \in DOMAIN dir : length'[dir[n]] = length[dir[n]] ]_vars

(* The frames of a file that is read are given in the order of the file, which *)
(* may start again.                                                            *)
InFileOrder == [][ given' \in {given, given + 1, 1} ]_vars

(* An entry of the pool is free: it has no descriptor and is not in the list   *)
(* of clients, as long as the two threads are never in a call for the same of    *)
(* the two lists at once.                                                       *)
PoolIsFree ==
    ubroken = "no" /\ ~ ucrossed => \A e \in Members(heap, pool) :
                          fd[e] = NoPeer /\ e \notin Members(heap, clients)
==============================================================================
