-------------------------------- MODULE Mpegts --------------------------------
(***************************************************************************)
(* The "mpegts" sink (src/smpegts.c): a frame is cut in packets of 188 bytes, *)
(* each sent in pieces to the transport, followed by the tables (PMT, PAT,    *)
(* SDT) and by null packets.  The device itself counts how many bytes are     *)
(* left in the packet of the transport, to ask for its departure on a         *)
(* boundary of 188 bytes.                                                     *)
(***************************************************************************)
EXTENDS FrameBuffers, Transport

CONSTANTS MaxPackets,   \* bound: packets of a frame
          Counter       \* continuity counters are counted modulo this, 16 in the code
ASSUME CounterAssumption == Counter \in Nat \ {0} /\ MaxPackets \in Nat

VARIABLES
    mtu,      \* what proto->mtu() answers
    meta,     \* config->meta
    mstate,   \* buffers[i].state
    currentid,
    pc,       \* the call whose answer is awaited
    cur,      \* the buffer of the frame being sent
    left,     \* packets of that frame not sent yet
    first,    \* header.pusi
    room,     \* the local variable `mtu'
    last,     \* lastflags is 0 for the packet being sent
    psi,      \* the last table sent with the frame, "none" before the first
    cc        \* header.cc

mpegtsConf == <<mtu, meta>>
sendVars   == <<cur, left, first, room, last, psi>>
mpegtsVars == <<mpegtsConf, mstate, currentid, pc, sendVars, cc>>

Header  == 1
Payload == Packet - Header

MpegtsInit ==
    /\ mstate = [b \in Buffers |-> "invalid"]
    /\ currentid = 0
    /\ pc = "created"
    /\ cur = 0 /\ left = 0 /\ first = TRUE /\ room = 0 /\ last = FALSE /\ psi = "none"
    /\ cc = 0

(* mpegts_start(): an initial connection that fails is only reported.          *)
MpegtsStart ==
    /\ pc = "created" /\ call = NoCall
    /\ pc' = "start"
    /\ Call("connect")
    /\ UNCHANGED <<mpegtsConf, mstate, currentid, sendVars, cc>>
MpegtsStarted ==
    /\ pc = "start" /\ call = NoCall
    /\ pc' = "idle"
    /\ UNCHANGED <<mpegtsConf, mstate, currentid, sendVars, cc, call, reply>>

-----------------------------------------------------------------------------
(* _client_pushdata() *)

(* Mutant of IsLast: the last packet of the transport is the one that fills it. *)
IsLastFull(r) == r <= Packet
IsLast(r) == r < 2 * Packet

(* Mutant of AfterPacket: the room is not reset when the packet has left.       *)
AfterPacketKept(r) == IF last THEN r ELSE r
AfterPacket(r) == IF last THEN mtu ELSE r

NextPacket(n, f, r) ==
    /\ pc' = "header"
    /\ left' = n /\ first' = f /\ room' = r /\ last' = IsLast(r)
    /\ psi' = "none"
    /\ Send(Header, TRUE, f)

(* _client_filldata(): one table after the other, then null packets, while      *)
(* more than a packet is left.                                                  *)
Tables == [none |-> "pmt", pmt |-> "pat", pat |-> "sdt", sdt |-> "null", null |-> "null"]

(* Mutant of HasRoom: the room of a packet is kept free.                        *)
HasRoomForTwo(r) == r >= 2 * Packet
HasRoom(r) == r > Packet

Done == /\ pc' = "idle"
        /\ mstate' = [mstate EXCEPT ![cur] = "ready"]
        /\ UNCHANGED <<call, reply, left, first, last, psi>>
Fill(r) ==
    /\ room' = r
    /\ IF HasRoom(r)
       THEN /\ pc' = "table" /\ psi' = Tables[psi]
            /\ Send(Packet, ~ IsLast(r), FALSE)
            /\ UNCHANGED <<mstate, left, first, last>>
       ELSE Done
AfterFrame(r) ==
    IF meta
    THEN /\ pc' = "klv" /\ room' = r /\ last' = IsLast(r)
         /\ Send(Packet, ~ IsLast(r), FALSE)
         /\ UNCHANGED <<mstate, left, first, psi>>
    ELSE Fill(r)

(* mpegts_queue(): a buffer that did not come back is refused.                  *)
Takes(b) == mstate[b] \in {"dequeued", "invalid"}
MpegtsQueue(b, n) ==
    /\ pc = "idle" /\ Takes(b)
    /\ cur' = b
    /\ mstate' = [mstate EXCEPT ![b] = "queued"]
    /\ NextPacket(n, TRUE, mtu)
    /\ UNCHANGED <<mpegtsConf, currentid, cc>>

(* The header of a packet is sent, with the adaptation field and the PES header *)
(* when there are some: the payload follows.                                    *)
HeaderSent ==
    /\ pc = "header" /\ Answered("ok")
    /\ pc' = "payload"
    /\ room' = room - Header
    /\ Send(Payload, ~ last, first /\ ~ last)
    /\ UNCHANGED <<mpegtsConf, mstate, currentid, cur, left, first, last, psi, cc>>
PayloadSent ==
    /\ pc = "payload" /\ Answered("ok")
    /\ cc' = (cc + 1) % Counter
    /\ LET r == AfterPacket(room - Payload)
       IN  IF left > 1 THEN NextPacket(left - 1, FALSE, r) /\ UNCHANGED mstate
                       ELSE AfterFrame(r)
    /\ UNCHANGED <<mpegtsConf, currentid, cur>>
(* _client_pushklv() has sent its packet.                                       *)
KlvSent ==
    /\ pc = "klv" /\ Answered("ok")
    /\ Fill(AfterPacket(room - Packet))
    /\ UNCHANGED <<mpegtsConf, currentid, cur, cc>>
TableSent ==
    /\ pc = "table" /\ Answered("ok")
    /\ Fill(room - Packet)
    /\ UNCHANGED <<mpegtsConf, currentid, cur, cc>>

Sending == pc \in {"header", "payload", "klv", "table"}

(* Mutant of Refused: the buffer stays queued.                                  *)
RefusedKept == mstate
Refused == [mstate EXCEPT ![cur] = "dequeued"]

(* EAGAIN: the rest of the frame is dropped and the buffer goes back.           *)
SendAgain ==
    /\ Sending /\ Answered("again")
    /\ pc' = "idle"
    /\ mstate' = Refused
    /\ UNCHANGED <<mpegtsConf, currentid, sendVars, cc, call, reply>>
(* Another error: the transport is closed, the buffer stays queued, and the     *)
(* main loop ends on the error.                                                 *)
SendError ==
    /\ Sending /\ Answered("error")
    /\ pc' = "failed"
    /\ Call("close")
    /\ UNCHANGED <<mpegtsConf, mstate, currentid, sendVars, cc>>

-----------------------------------------------------------------------------
(* mpegts_dequeue(): the first buffer sent, from the last one given back on.    *)
Sent == { b \in Buffers : mstate[b] = "ready" }
Distance(b) == (b + NBuffers - currentid) % NBuffers
ToGive == CHOOSE b \in Sent : \A c \in Sent : Distance(b) <= Distance(c)
MpegtsDequeue ==
    /\ pc = "idle" /\ Sent # {}
    /\ pc' = "flush"
    /\ cur' = ToGive /\ currentid' = ToGive
    /\ Call("flush")
    /\ UNCHANGED <<mpegtsConf, mstate, left, first, room, last, psi, cc>>
MpegtsDequeued ==
    /\ pc = "flush" /\ call = NoCall
    /\ pc' = "idle"
    /\ mstate' = [mstate EXCEPT ![cur] = "dequeued"]
    /\ UNCHANGED <<mpegtsConf, currentid, sendVars, cc, call, reply>>

(* mpegts_stop()                                                                *)
MpegtsStop ==
    /\ pc \in {"idle", "failed"} /\ call = NoCall
    /\ pc' = "stopped"
    /\ Call("close")
    /\ UNCHANGED <<mpegtsConf, mstate, currentid, sendVars, cc>>
==============================================================================
