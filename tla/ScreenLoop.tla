----------------------------- MODULE ScreenLoop -----------------------------
(***************************************************************************)
(* fastvideo's main loop over a stream that ends on a screen:              *)
(*                                                                         *)
(*    with the renderer:  camera ==> gpu        gpu's dup side ==> screen  *)
(*    without:            camera ==> screen                                *)
(*                                                                         *)
(* Pass 1 has the legs "camera" and "gpudup", pass 2 "screen" and "gpu".   *)
(***************************************************************************)
EXTENDS Camera, Gpu, Screen, Relay, FiniteSets

CONSTANT WithGpu
ASSUME WithGpuAssumption == WithGpu \in BOOLEAN

Legs  == IF WithGpu THEN {"camera", "gpudup", "screen", "gpu"} ELSE {"camera", "screen"}
Pipes == IF WithGpu THEN {1, 2} ELSE {1}

deviceVars == <<cameraVars, gpuVars, screenVars>>
vars       == <<deviceVars, loopVars>>

(* After the start of the devices.                                         *)
Init == CameraInit /\ GpuInit /\ ScreenInit /\ LoopInit

NextLeg == CASE leg = "camera" /\ WithGpu -> "gpudup"
             [] leg = "screen" /\ WithGpu -> "gpu"
             [] leg = "gpu" \/ (leg = "screen" /\ ~ WithGpu) -> "end"
             [] OTHER                     -> "screen"

(* After the break of a pass.                                              *)
BreakLeg == IF leg \in {"camera", "gpudup"} THEN "screen" ELSE "end"

Pipe == IF WithGpu /\ leg \in {"gpudup", "screen"} THEN 2 ELSE 1

(* The device that the leg queues to.                                      *)
Peer == CASE leg = "camera" -> IF WithGpu THEN "gpu" ELSE "screen"
          [] leg = "screen" -> IF WithGpu THEN "gpudup" ELSE "camera"
          [] leg = "gpudup" -> "screen"
          [] OTHER          -> "camera"

(* Both sides of the renderer have no descriptor (-1).                     *)
(* Mutant of Readable: the flips are not waited for.                       *)
ReadableCamera == IF CameraReadable THEN {"camera"} ELSE {}
Readable ==
    (IF CameraReadable THEN {"camera"} ELSE {})
    \cup (IF ScreenReadable THEN {"screen"} ELSE {})

Iterate ==
    /\ Check \/ Select(Readable, "camera") \/ Stop(Pipes)
    /\ UNCHANGED deviceVars

-----------------------------------------------------------------------------
(* main_transferbuffer(): the dequeue *)

(* Without a descriptor a leg is always tried, but segl_fd() answers 0,    *)
(* which is never ready, while the renderer has nothing to give back.      *)
(* Mutant of Tried: only what select() reported is tried.                  *)
TriedWhenReadable == leg \in rfds
Tried == \/ leg = "gpudup"
         \/ leg = "gpu" /\ ~ GpuIdle
         \/ leg \in rfds

SkipLeg ==
    /\ pc = "dequeue"
    /\ ~ Tried
    /\ Advance(NextLeg)
    /\ UNCHANGED deviceVars

Trying(l) == pc = "dequeue" /\ leg = l /\ Tried

DequeueCamera ==
    /\ Trying("camera")
    /\ DequeueFrame
    /\ Dequeued(Head(cdone))
    /\ UNCHANGED <<gpuVars, screenVars>>

(* ENODEV                                                                  *)
DequeueCameraGone ==
    /\ Trying("camera") /\ camera = "gone"
    /\ Failed(BreakLeg, Pipe)
    /\ UNCHANGED deviceVars

DequeueGpuDup ==
    /\ Trying("gpudup")
    /\ TakeImage
    /\ Dequeued(gring)
    /\ UNCHANGED <<cameraVars, screenVars>>

DequeueScreen ==
    /\ Trying("screen")
    /\ ReadFlip
    /\ Dequeued(queueid)
    /\ UNCHANGED <<cameraVars, gpuVars>>

DequeueGpu ==
    /\ Trying("gpu")
    /\ Drawn
    /\ Dequeued(gcur)
    /\ UNCHANGED <<cameraVars, screenVars>>

(* EAGAIN                                                                  *)
DequeueNothing ==
    /\ \/ Trying("camera") /\ ~ CameraReadable
       \/ Trying("gpudup") /\ ~ HasImage
       \/ Trying("screen") /\ ~ ScreenReadable
    /\ Advance(NextLeg)
    /\ UNCHANGED deviceVars

-----------------------------------------------------------------------------
(* main_transferbuffer(): the queue, or the buffer is pushed back *)

QueueGpu ==
    /\ pc = "queue" /\ Peer = "gpu"
    /\ \/ Draw(hand) /\ Relayed(NextLeg)
       \/ ~ GpuIdle /\ UNCHANGED gpuVars /\ PushBack
    /\ UNCHANGED <<cameraVars, screenVars>>

QueueScreen ==
    /\ pc = "queue" /\ Peer = "screen"
    /\ \/ Commit(hand) /\ Relayed(NextLeg)
       \/ ~ ScreenAccepts /\ UNCHANGED screenVars /\ PushBack
    /\ UNCHANGED <<cameraVars, gpuVars>>

QueueGpuDup ==
    /\ pc = "queue" /\ Peer = "gpudup"
    /\ ReturnImage(hand)
    /\ Relayed(NextLeg)
    /\ UNCHANGED <<cameraVars, screenVars>>

(* An error is fatal only when the leg's descriptor is positive: the loop  *)
(* goes on after one on the "gpu" leg, and the buffer is lost.             *)
QueueCamera ==
    /\ pc = "queue" /\ Peer = "camera"
    /\ \/ QueueEmpty(hand) /\ Relayed(NextLeg)
       \/ /\ ~ CameraAccepts(hand) /\ UNCHANGED cameraVars
          /\ IF leg = "screen" THEN Failed(BreakLeg, Pipe) ELSE Advance(NextLeg)
    /\ UNCHANGED <<gpuVars, screenVars>>

(* Only the renderer and the screen answer EAGAIN.                         *)
GiveBack ==
    /\ pc = "giveback"
    /\ IF leg = "camera" /\ CameraAccepts(hand)
       THEN QueueEmpty(hand)
       ELSE UNCHANGED cameraVars
    /\ IF leg = "gpudup" THEN ReturnImage(hand) ELSE UNCHANGED gpuVars
    /\ Advance(NextLeg)
    /\ UNCHANGED screenVars

MainThread ==
    \/ Iterate \/ SkipLeg
    \/ DequeueCamera \/ DequeueCameraGone
    \/ DequeueGpuDup \/ DequeueScreen \/ DequeueGpu
    \/ DequeueNothing
    \/ QueueGpu \/ QueueScreen \/ QueueGpuDup \/ QueueCamera
    \/ GiveBack

-----------------------------------------------------------------------------
(* What happens around the thread *)

CameraFill(l) == FillFrame(l) /\ UNCHANGED <<gpuVars, screenVars, loopVars>>
CameraBreaks == Fault /\ UNCHANGED <<gpuVars, screenVars, loopVars>>

ScreenFlips == Flip /\ UNCHANGED <<cameraVars, gpuVars, loopVars>>
ScreenTaken == AcceptsChanges /\ UNCHANGED <<cameraVars, gpuVars, loopVars>>

TimerTick == Tick /\ UNCHANGED deviceVars
Terminate == Interrupt /\ UNCHANGED deviceVars

Next ==
    \/ MainThread
    \/ \E l \in Lengths : CameraFill(l)
    \/ CameraBreaks
    \/ ScreenFlips \/ ScreenTaken
    \/ TimerTick
    \/ Terminate

Spec == Init /\ [][Next]_vars

(* The thread runs, the timer expires every second, a camera that works    *)
(* fills its buffers and a commit is shown at the next refresh.            *)
LiveSpec ==
    /\ Spec
    /\ WF_vars(MainThread) /\ WF_vars(TimerTick)
    /\ WF_vars(\E l \in Lengths : CameraFill(l))
    /\ WF_vars(ScreenFlips)

-----------------------------------------------------------------------------
(* Properties *)

(* Every variable has its type.                                            *)
ScreenLoopTypeOK ==
    CameraTypeOK /\ GpuTypeOK /\ ScreenTypeOK /\ LoopTypeOK(Legs, Pipes)

InHand(b, l) == hand = b /\ leg \in l /\ pc \in {"queue", "giveback"}

(* The places where buffer b of the camera is, counted once per occurrence.*)
Places(b) ==
    { <<"cqueue", n>> : n \in { m \in DOMAIN cqueue : cqueue[m] = b } }
    \cup { <<"cdone", n>> : n \in { m \in DOMAIN cdone : cdone[m] = b } }
    \cup (IF InHand(b, {"camera", "gpu"}) THEN {<<"hand", 0>>} ELSE {})
    \cup (IF gcur = b THEN {<<"gpu", 0>>} ELSE {})

(* The renderer holds one buffer of the camera and refuses the others: none *)
(* is drawn from when the driver has it again, and none is lost.           *)
CameraKept == camera # "gone" => \A b \in Buffers : Cardinality(Places(b)) = 1

(* `queueid' is the one flip on its way: no commit races with another in   *)
(* the kernel, no event is left that nobody reads, and the flip that       *)
(* sdrm_dequeue() reads is that of the buffer it returns.                  *)
OneFlip ==
    /\ queueid # NoBuffer <=> flipping \/ events > 0
    /\ events + (IF flipping THEN 1 ELSE 0) <= 1

(* An image given by the renderer is with the screen or in the hand of the *)
(* loop: one that the screen refuses comes back to the ring.               *)
ImagesKept ==
    \A b \in Buffers :
        gstate[b] = "dequeued" => queueid = b \/ InHand(b, {"gpudup", "screen"})

(* A flip is read, and its buffer goes back: the loop waits for the screen *)
(* although sdrm_fd() hides its descriptor half of the time.               *)
FlipsRead == queueid # NoBuffer ~> queueid = NoBuffer \/ ~ run

(* While the camera works, frames go on being drawn and given back,        *)
(* whatever the screen does: a frame that is refused stops nothing.        *)
StreamMoves ==
    <>[](run /\ camera = "works") => []<>(gcur = NoBuffer) /\ []<>(gcur # NoBuffer)

-----------------------------------------------------------------------------
(* What the documentation says and the code does not do.                    *)

(* The renderer "can export the result" to a device that "display[s] images *)
(* on the screen": while the camera works and the driver takes commits,     *)
(* images go on being shown, even when the camera is faster than the loop   *)
(* and has frames refused.                                                  *)
ImagesDisplayed ==
    <>[](run /\ camera = "works" /\ accepts) => []<><<ScreenFlips>>_vars
=============================================================================
