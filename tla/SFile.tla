-------------------------------- MODULE SFile --------------------------------
(***************************************************************************)
(* The "file" device (src/sfile.c).  As a sink it writes each buffer when it  *)
(* is queued; as a source it reads one frame into each buffer queued.  Both   *)
(* give the buffers back in the order of their numbers.                       *)
(***************************************************************************)
EXTENDS FrameBuffers, Transport

CONSTANT Maxframes   \* protoconf.maxframes

VARIABLES
    input,    \* dev->type = device_input
    header,   \* dev->headerlen is not 0 (a PAM file)
    fstate,   \* buffers[i].state
    fdata,    \* the frame read in buffers[i]
    lastid,   \* dev->lastbufferid
    fpc,      \* the call whose answer is awaited
    fcur,     \* the buffer of the call
    fcount    \* dev->frames

fileConf == <<input, header>>
sfileVars == <<fileConf, fstate, fdata, lastid, fpc, fcur, fcount>>

SFileInit ==
    /\ fstate = [b \in Buffers |-> "invalid"]
    /\ fdata = [b \in Buffers |-> 0]
    /\ lastid = 0 /\ fpc = "created" /\ fcur = 0 /\ fcount = 0

Recv == call' = [NoCall EXCEPT !.op = "recv"] /\ UNCHANGED reply

(* sfile_create() of a source connects; sfile_start() fills its buffers, one    *)
(* after the other, and connects again.                                         *)
SFileStart ==
    /\ fpc = "created" /\ call = NoCall
    /\ fpc' = IF input THEN "fill" ELSE "start"
    /\ Call("connect")
    /\ UNCHANGED <<fileConf, fstate, fdata, lastid, fcur, fcount>>
FillFirst ==
    /\ fpc = "fill" /\ call = NoCall
    /\ fpc' = "filling" /\ fcur' = 0
    /\ Recv
    /\ UNCHANGED <<fileConf, fstate, fdata, lastid, fcount>>
FillNext(frame) ==
    /\ fpc = "filling" /\ Answered("ok")
    /\ fstate' = [fstate EXCEPT ![fcur] = "queued"]
    /\ fdata' = [fdata EXCEPT ![fcur] = frame]
    /\ IF fcur < NBuffers - 1
       THEN fcur' = fcur + 1 /\ Recv /\ UNCHANGED fpc
       ELSE fpc' = "start" /\ Call("connect") /\ UNCHANGED fcur
    /\ UNCHANGED <<fileConf, lastid, fcount>>
SFileStarted ==
    /\ fpc \in {"start", "reopen"} /\ call = NoCall
    /\ fpc' = IF fpc = "start" /\ reply = "error" THEN "failed" ELSE "idle"
    /\ UNCHANGED <<fileConf, fstate, fdata, lastid, fcur, fcount, call, reply>>

-----------------------------------------------------------------------------
(* sfile_queue() of a sink: the header, then the data; a frame that cannot be   *)
(* written is not queued.                                                       *)
WriteFrame(b) ==
    /\ fpc = "idle" /\ ~ input
    /\ fcur' = b
    /\ IF header THEN fpc' = "header" /\ Send(1, TRUE, FALSE)
                 ELSE fpc' = "data" /\ Send(Packet - 1, FALSE, FALSE)
    /\ UNCHANGED <<fileConf, fstate, fdata, lastid, fcount>>
HeaderWritten ==
    /\ fpc = "header" /\ Answered("ok")
    /\ fpc' = "data"
    /\ Send(Packet - 1, FALSE, FALSE)
    /\ UNCHANGED <<fileConf, fstate, fdata, lastid, fcur, fcount>>
DataWritten ==
    /\ fpc = "data" /\ Answered("ok")
    /\ fpc' = "idle"
    /\ fstate' = [fstate EXCEPT ![fcur] = "queued"]
    /\ UNCHANGED <<fileConf, fdata, lastid, fcur, fcount, call, reply>>
(* sfile_queue() of a source: one frame is read.                                *)
ReadFrame(b) ==
    /\ fpc = "idle" /\ input
    /\ fpc' = "read" /\ fcur' = b
    /\ Recv
    /\ UNCHANGED <<fileConf, fstate, fdata, lastid, fcount>>
FrameRead(frame) ==
    /\ fpc = "read" /\ Answered("ok")
    /\ fpc' = "idle"
    /\ fstate' = [fstate EXCEPT ![fcur] = "queued"]
    /\ fdata' = [fdata EXCEPT ![fcur] = frame]
    /\ UNCHANGED <<fileConf, lastid, fcur, fcount, call, reply>>
(* A call that fails ends the main loop.                                        *)
SFileError ==
    /\ fpc \in {"filling", "header", "data", "read"} /\ Answered("error")
    /\ fpc' = "failed"
    /\ UNCHANGED <<fileConf, fstate, fdata, lastid, fcur, fcount, call, reply>>

-----------------------------------------------------------------------------
(* Mutant of GiveOrder: every other buffer of the ring.                          *)
GiveOrderLong(i) == (i + 2) % NBuffers
GiveOrder(i) == (i + 1) % NBuffers

(* sfile_dequeue(): the next buffer by number, when it is queued; after          *)
(* Maxframes frames the transport is closed and opened again.                    *)
SFileDequeue ==
    /\ fpc = "idle" /\ fstate[lastid] = "queued"
    /\ fstate' = [fstate EXCEPT ![lastid] = "dequeued"]
    /\ lastid' = GiveOrder(lastid)
    /\ IF fcount + 1 = Maxframes
       THEN fcount' = 0 /\ fpc' = "closing" /\ Call("close")
       ELSE fcount' = (fcount + 1) % (Maxframes + 1) /\ fpc' = "idle" /\ UNCHANGED <<call, reply>>
    /\ UNCHANGED <<fileConf, fdata, fcur>>
Reopen ==
    /\ fpc = "closing" /\ call = NoCall
    /\ fpc' = "reopen"
    /\ Call("connect")
    /\ UNCHANGED <<fileConf, fstate, fdata, lastid, fcur, fcount>>

(* sfile_stop()                                                                  *)
SFileStop ==
    /\ fpc \in {"idle", "failed"} /\ call = NoCall
    /\ fpc' = "stopped"
    /\ Call("close")
    /\ UNCHANGED <<fileConf, fstate, fdata, lastid, fcur, fcount>>
==============================================================================
