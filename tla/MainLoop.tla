------------------------------ MODULE MainLoop ------------------------------
(***************************************************************************)
(* fastvideo's main loop over two pipes:                                   *)
(*                                                                         *)
(*    pipe 1: camera ==> main side of the passthrough                      *)
(*    pipe 2: dup side of the passthrough ==> sink                         *)
(*                                                                         *)
(* The legs are "camera" and "dup" in pass 1, "sink" and "main" in pass 2. *)
(***************************************************************************)
EXTENDS Passthrough, Camera, Relay, FiniteSets

Legs  == {"camera", "dup", "sink", "main"}
Pipes == {1, 2}

VARIABLE sink   \* "app": not with the sink; "held": in use; "done": to dequeue

deviceVars == <<vars, cameraVars, sink>>
pipeVars   == <<deviceVars, loopVars>>

(* After the start of the devices.                                         *)
PipeInit ==
    /\ Init
    /\ CameraInit
    /\ sink = [b \in Buffers |-> "app"]
    /\ LoopInit

(* Pass 1 then pass 2, then the next iteration.                            *)
NextLeg == CASE leg = "camera" -> "dup"
             [] leg = "dup"    -> "sink"
             [] leg = "sink"   -> "main"
             [] OTHER          -> "end"

(* After the break of a pass.                                              *)
BreakLeg == IF leg \in {"camera", "dup"} THEN "sink" ELSE "end"

Pipe == IF leg \in {"camera", "main"} THEN 1 ELSE 2

(* The descriptors in the read set that are readable.  The sink's is never *)
(* in it: eventfd(dev, 2) and eventfd(dev, 1) of a V4L2 output are -1.     *)
(* Mutant of Readable: the descriptor of the dup side is not in the set.   *)
ReadableUpstream ==
    (IF CameraReadable THEN {"camera"} ELSE {})
    \cup (IF mfd > 0 THEN {"main"} ELSE {})
Readable ==
    (IF CameraReadable THEN {"camera"} ELSE {})
    \cup (IF mfd > 0 THEN {"main"} ELSE {})
    \cup (IF dfd > 0 THEN {"dup"} ELSE {})

(* The steps of the loop between two relays.                               *)
Iterate ==
    /\ Check \/ Select(Readable, "camera") \/ Stop(Pipes)
    /\ UNCHANGED deviceVars

-----------------------------------------------------------------------------
(* main_transferbuffer(): the dequeue *)

(* Pass 1 wants the input readable, pass 2 the output; a sink without a    *)
(* descriptor is tried every time.                                         *)
Tried == leg = "sink" \/ leg \in rfds

SkipLeg ==
    /\ pc = "dequeue"
    /\ ~ Tried
    /\ Advance(NextLeg)
    /\ UNCHANGED deviceVars

Trying(l) == pc = "dequeue" /\ leg = l /\ Tried

DequeueCamera ==
    /\ Trying("camera")
    /\ DequeueFrame
    /\ Dequeued(Head(cdone))
    /\ UNCHANGED <<vars, sink>>

(* ENODEV                                                                  *)
DequeueCameraGone ==
    /\ Trying("camera") /\ camera = "gone"
    /\ Failed(BreakLeg, Pipe)
    /\ UNCHANGED deviceVars

DequeueDup ==
    /\ Trying("dup")
    /\ DequeueInput
    /\ Dequeued(dcur)
    /\ UNCHANGED <<cameraVars, sink>>

DequeueSink(b) ==
    /\ Trying("sink")
    /\ sink[b] = "done"
    /\ sink' = [sink EXCEPT ![b] = "app"]
    /\ Dequeued(b)
    /\ UNCHANGED <<vars, cameraVars>>

(* Mutant of DequeueMain: the index of the dup side's buffer is returned.  *)
DequeueMainOfDup ==
    /\ Trying("main")
    /\ DequeueOutput
    /\ Dequeued(dcur)
    /\ UNCHANGED <<cameraVars, sink>>
DequeueMain ==
    /\ Trying("main")
    /\ DequeueOutput
    /\ Dequeued(Head(fifo))
    /\ UNCHANGED <<cameraVars, sink>>

(* EAGAIN, which changes the modes of the passthrough.                     *)
DequeueMainBusy ==
    /\ Trying("main")
    /\ DequeueOutputBusy
    /\ Advance(NextLeg)
    /\ UNCHANGED <<cameraVars, sink>>

(* EAGAIN: nothing to take.                                                *)
DequeueNothing ==
    /\ \/ Trying("camera") /\ ~ CameraReadable
       \/ Trying("dup") /\ dstate[dcur] # "ready"
       \/ Trying("sink") /\ \A b \in Buffers : sink[b] # "done"
       \/ Trying("main") /\ ~ Available
    /\ Advance(NextLeg)
    /\ UNCHANGED deviceVars

-----------------------------------------------------------------------------
(* main_transferbuffer(): the queue, or the buffer is pushed back *)

(* spassthrough_queue() on the main side.                                  *)
QueueMain ==
    /\ pc = "queue" /\ leg = "camera"
    /\ IF mstate[hand] = "dequeued"
       THEN QueueOutput(hand, clen[hand]) /\ Relayed(NextLeg)
       ELSE RefuseOutput(hand) /\ PushBack
    /\ UNCHANGED <<cameraVars, sink>>

(* sv4l2_queue() on the sink: VIDIOC_QBUF answers EINVAL for a buffer that *)
(* the driver already has.                                                 *)
QueueSink ==
    /\ pc = "queue" /\ leg = "dup"
    /\ IF sink[hand] = "app"
       THEN sink' = [sink EXCEPT ![hand] = "held"] /\ Relayed(NextLeg)
       ELSE UNCHANGED sink /\ Failed(BreakLeg, Pipe)
    /\ UNCHANGED <<vars, cameraVars>>

(* A sink that is not ready answers EAGAIN: an encoder without a free      *)
(* buffer, a file or a stream whose network is full.                       *)
QueueSinkBusy ==
    /\ pc = "queue" /\ leg = "dup"
    /\ PushBack
    /\ UNCHANGED deviceVars

(* spassthrough_queue() on the dup side.                                   *)
QueueDup ==
    /\ pc = "queue" /\ leg = "sink"
    /\ IF dstate[hand] = "dequeued"
       THEN QueueInput(hand) /\ Relayed(NextLeg)
       ELSE UNCHANGED vars /\ PushBack
    /\ UNCHANGED <<cameraVars, sink>>

(* sv4l2_queue() on the camera.                                            *)
QueueCamera ==
    /\ pc = "queue" /\ leg = "main"
    /\ \/ QueueEmpty(hand) /\ Relayed(NextLeg)
       \/ ~ CameraAccepts(hand) /\ UNCHANGED cameraVars /\ Failed(BreakLeg, Pipe)
    /\ UNCHANGED <<vars, sink>>

(* The buffer goes back where it comes from; the answer is not read.  The  *)
(* "main" leg never comes here, a camera does not answer EAGAIN.           *)
GiveBack ==
    /\ pc = "giveback"
    /\ IF leg = "dup" /\ dstate[hand] = "dequeued"
       THEN QueueInput(hand)
       ELSE UNCHANGED vars
    /\ IF leg = "camera" /\ CameraAccepts(hand)
       THEN QueueEmpty(hand)
       ELSE UNCHANGED cameraVars
    /\ sink' = IF leg = "sink" THEN [sink EXCEPT ![hand] = "held"] ELSE sink
    /\ Advance(NextLeg)

MainThread ==
    \/ Iterate \/ SkipLeg
    \/ DequeueCamera \/ DequeueCameraGone
    \/ DequeueDup
    \/ \E b \in Buffers : DequeueSink(b)
    \/ DequeueMain \/ DequeueMainBusy
    \/ DequeueNothing
    \/ QueueMain
    \/ QueueSink \/ QueueSinkBusy
    \/ QueueDup
    \/ QueueCamera
    \/ GiveBack

-----------------------------------------------------------------------------
(* What happens around the thread *)

CameraFill(l) == FillFrame(l) /\ UNCHANGED <<vars, sink, loopVars>>
CameraBreaks == Fault /\ UNCHANGED <<vars, sink, loopVars>>

(* The sink has finished with a buffer; not in any order.                  *)
SinkDone(b) ==
    /\ sink[b] = "held"
    /\ sink' = [sink EXCEPT ![b] = "done"]
    /\ UNCHANGED <<vars, cameraVars, loopVars>>

TimerTick == Tick /\ UNCHANGED deviceVars

Terminate == Interrupt /\ UNCHANGED deviceVars

SettingsStep == Settings /\ UNCHANGED <<cameraVars, sink, loopVars>>

PipeNext ==
    \/ MainThread
    \/ \E l \in Lengths : CameraFill(l)
    \/ CameraBreaks
    \/ \E b \in Buffers : SinkDone(b)
    \/ TimerTick
    \/ Terminate
    \/ SettingsStep

(* The thread runs when it is not asleep in select(); the kernel's timer   *)
(* expires every second.                                                   *)
ThreadFairness == WF_pipeVars(MainThread) /\ WF_pipeVars(TimerTick)
(* A camera that works fills the buffers it has, a sink finishes with a    *)
(* buffer.  A camera may hang: nothing but the timer then wakes the loop.  *)
DeviceFairness ==
    /\ WF_pipeVars(\E l \in Lengths : CameraFill(l))
    /\ \A b \in Buffers : WF_pipeVars(SinkDone(b))

PipeSpec == PipeInit /\ [][PipeNext]_pipeVars
LiveSpec == PipeSpec /\ ThreadFairness /\ DeviceFairness

-----------------------------------------------------------------------------
(* Properties *)

SinkTypeOK == sink \in [Buffers -> {"app", "held", "done"}]

ControlTypeOK == LoopTypeOK(Legs, Pipes)

(* Every variable has its type.                                            *)
PipeTypeOK == TypeOK /\ CameraTypeOK /\ SinkTypeOK /\ ControlTypeOK

InHand(b, l) == hand = b /\ leg \in l /\ pc \in {"queue", "giveback"}

(* The places where buffer b of the camera is, counted once per occurrence.*)
Places(b) ==
    { <<"cqueue", n>> : n \in { m \in DOMAIN cqueue : cqueue[m] = b } }
    \cup { <<"cdone", n>> : n \in { m \in DOMAIN cdone : cdone[m] = b } }
    \cup (IF InHand(b, {"camera", "main"}) THEN {<<"hand", 0>>} ELSE {})
    \cup (IF mstate[b] = "ready" THEN {<<"main", 0>>} ELSE {})

(* No buffer of the camera is lost or is in two places, whatever the sink  *)
(* answers and whatever is pushed back: while the camera works, each is    *)
(* with the driver, in the hand of the loop or in the passthrough.  It is  *)
(* what keeps VIDIOC_QBUF from answering EINVAL, which kills the daemon.   *)
OnePlace == camera # "gone" => \A b \in Buffers : Cardinality(Places(b)) = 1

(* The buffers the dup side has lent are the ones with the sink or in the  *)
(* hand of the loop: a frame refused by the sink comes back to the ring,   *)
(* and no buffer is queued twice to the sink.                              *)
LentToSink ==
    \A b \in Buffers :
        /\ dstate[b] = "dequeued" <=> sink[b] # "app" \/ InHand(b, {"dup", "sink"})
        /\ ~ (sink[b] # "app" /\ InHand(b, {"dup", "sink"}))

(* The main side loses wakeups, so the loop can sleep with buffers waiting *)
(* in it; then the camera still has one, whose frame will wake the loop.   *)
SleepsSafely ==
    pc = "select" /\ camera # "gone" /\ fifo # << >> /\ mfd = 0
        => cqueue # << >> \/ cdone # << >>

(* A buffer waiting in the passthrough goes back upstream.                 *)
BuffersReturn ==
    \A b \in Buffers :
        mstate[b] = "ready" ~> mstate[b] = "dequeued" \/ ~ run \/ camera # "works"

(* A frame handed to the dup side is taken out for the sink.               *)
FramesReachSink ==
    \A b \in Buffers : dstate[b] = "ready" ~> dstate[b] # "ready" \/ ~ run

(* A signal ends the loop, even when no device ever does anything again.   *)
Terminates == ~ run ~> pc = "exit"

(* A sink that works on DMA buffers is given an index only, and shares the  *)
(* memory of the camera's buffer of the same index: what it gets is the     *)
(* frame handed over only if the head of the ring has that index.           *)
SameBuffer ==
    HandsOver /\ fifo # << >> /\ dstate[dcur] = "queued" => dcur = Head(fifo)

-----------------------------------------------------------------------------
(* What the documentation says and the code does not do ("this module       *)
(* simply hands buffers from one module to the next").                      *)

(* The frame handed over is the one that is given back upstream, even when  *)
(* two frames were queued before the first was dequeued.                    *)
FrameIntact == [][FrameHandedOver => dmem[dcur] = Head(fifo)]_pipeVars
=============================================================================
