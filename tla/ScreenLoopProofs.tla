-------------------------- MODULE ScreenLoopProofs --------------------------
(***************************************************************************)
(* Proofs about ScreenLoop, for any number of buffers, with the renderer   *)
(* and without: one flip is on its way and never two, and an image given   *)
(* by the renderer is never lost.  With the renderer, no buffer of the     *)
(* camera is lost either.                                                  *)
(***************************************************************************)
EXTENDS ScreenLoop, QueueLemmas

(* The loop has no buffer in hand.                                          *)
Empty == pc \notin {"queue", "giveback"}

(* A buffer is in the hand of the loop between a dequeue and a queue.       *)
HandOK == ~ Empty => hand \in Buffers

(* Only a frame or an image that was refused is given back.                 *)
RefusedOK == pc = "giveback" => leg \in {"camera", "gpudup"}

(* Without the renderer its legs are never taken.                           *)
NoGpuOK ==
    ~ WithGpu => /\ leg \notin {"gpudup", "gpu"}
                 /\ \A b \in Buffers : gstate[b] = "queued"

(* The inductive invariant.  HandOK makes each commit one of a buffer, which*)
(* OneFlip needs; RefusedOK and NoGpuOK tell that the loop does not drop an *)
(* image that it has in hand, which ImagesKept needs.                       *)
LoopOK    == HandOK /\ RefusedOK /\ NoGpuOK
DevicesOK == CameraTypeOK /\ GpuTypeOK /\ ScreenTypeOK
SInv      == DevicesOK /\ LoopOK /\ OneFlip /\ ImagesKept

-----------------------------------------------------------------------------
(* The control of the loop *)

(* A leg that ends, or goes on, leaves the hand empty.                      *)
LEMMA LegEnds ==
  ASSUME NoGpuOK, WithGpu \/ UNCHANGED gstate,
         Advance(NextLeg) \/ Relayed(NextLeg) \/ Failed(BreakLeg, Pipe)
  PROVE  Empty' /\ LoopOK'
<1>1. /\ pc' \in {"dequeue", "check"}
      /\ leg' \in {leg, NextLeg, BreakLeg}
  BY DEF Advance, Relayed, Failed, GoTo
<1>2. ~ WithGpu => leg' \notin {"gpudup", "gpu"}
  BY <1>1 DEF NoGpuOK, NextLeg, BreakLeg
<1> QED
  BY <1>1, <1>2 DEF Empty, LoopOK, HandOK, RefusedOK, NoGpuOK

(* Images that are lent stay where they are.                                *)
LEMMA ImagesQuiet ==
  ASSUME ImagesKept,
         \A b \in Buffers : gstate'[b] = "dequeued" => gstate[b] = "dequeued",
         queueid' = queueid,
         Empty \/ leg \notin {"gpudup", "screen"}
  PROVE  ImagesKept'
  BY DEF ImagesKept, InHand, Empty

(* The screen is left alone.                                                *)
LEMMA ScreenQuiet ==
  ASSUME ScreenTypeOK, OneFlip, UNCHANGED screenVars
  PROVE  ScreenTypeOK' /\ OneFlip' /\ queueid' = queueid
  BY DEF ScreenTypeOK, OneFlip, screenVars

(* Nothing but the control of the loop changes.                             *)
LEMMA ControlStep ==
  ASSUME SInv, UNCHANGED deviceVars, Empty, LoopOK'
  PROVE  SInv'
<1>1. UNCHANGED cameraVars /\ UNCHANGED gpuVars /\ UNCHANGED screenVars
  BY DEF deviceVars
<1>2. DevicesOK' /\ OneFlip'
  BY <1>1, ScreenQuiet DEF SInv, DevicesOK, CameraTypeOK, cameraVars, GpuTypeOK, gpuVars
<1>3. ImagesKept'
  BY <1>1, ScreenQuiet, ImagesQuiet DEF SInv, DevicesOK, gpuVars
<1> QED
  BY <1>2, <1>3 DEF SInv

(* The head of the loop, select(), the legs that are not tried or find      *)
(* nothing, an unplugged camera and the end.                                *)
LEMMA LoopControl ==
  ASSUME SInv, Iterate \/ SkipLeg \/ DequeueCameraGone \/ DequeueNothing
  PROVE  SInv'
<1> USE DEF SInv, LoopOK
<1>1. CASE Iterate
  <2>1. /\ UNCHANGED deviceVars /\ Empty /\ pc' \notin {"queue", "giveback"}
        /\ leg' \in {leg, "camera"}
    BY <1>1, Zenon DEF Iterate, Check, Select, Stop, iterVars, Empty
  <2>2. LoopOK'
    BY <2>1 DEF deviceVars, gpuVars, Empty, HandOK, RefusedOK, NoGpuOK
  <2> QED
    BY <2>1, <2>2, ControlStep
<1>2. CASE SkipLeg \/ DequeueCameraGone \/ DequeueNothing
  <2>1. /\ UNCHANGED deviceVars /\ Empty
        /\ Advance(NextLeg) \/ Failed(BreakLeg, Pipe)
    BY <1>2 DEF SkipLeg, DequeueCameraGone, DequeueNothing, Trying, Empty
  <2>2. UNCHANGED gstate
    BY <2>1 DEF deviceVars, gpuVars
  <2> QED
    BY <2>1, <2>2, LegEnds, ControlStep
<1> QED
  BY <1>1, <1>2

-----------------------------------------------------------------------------
(* main_transferbuffer(): the dequeue *)

(* A buffer is taken in hand.                                               *)
LEMMA DequeuedLoop ==
  ASSUME NoGpuOK, WithGpu \/ UNCHANGED gstate, NEW b \in Buffers, Dequeued(b)
  PROVE  LoopOK' /\ pc' = "queue" /\ leg' = leg /\ hand' = b
  BY DEF Dequeued, LoopOK, HandOK, RefusedOK, NoGpuOK

(* A frame is taken from the camera.                                        *)
LEMMA DequeueCameraInv ==
  ASSUME SInv, DequeueCamera PROVE SInv'
<1> USE DEF SInv, DevicesOK, LoopOK
<1>1. /\ cdone # << >> /\ cdone \in Seq(Buffers) /\ cdone' = Tail(cdone)
      /\ UNCHANGED <<camera, cqueue, clen, gpuVars, screenVars>>
      /\ leg = "camera" /\ pc = "dequeue" /\ Dequeued(Head(cdone))
  BY DEF DequeueCamera, DequeueFrame, CameraHasFrame, Trying, CameraTypeOK
<1>2. Head(cdone) \in Buffers /\ cdone' \in Seq(Buffers)
  BY <1>1
<1>3. LoopOK' /\ leg' = leg
  BY <1>1, <1>2, DequeuedLoop DEF gpuVars
<1>4. DevicesOK' /\ OneFlip'
  BY <1>1, <1>2, ScreenQuiet DEF CameraTypeOK, GpuTypeOK, gpuVars
<1>5. ImagesKept'
  BY <1>1, ScreenQuiet, ImagesQuiet DEF gpuVars
<1> QED
  BY <1>3, <1>4, <1>5

(* An image is taken from the renderer: it is lent.                         *)
LEMMA DequeueGpuDupInv ==
  ASSUME SInv, DequeueGpuDup PROVE SInv'
<1> USE DEF SInv, DevicesOK, LoopOK
<1>1. /\ gring \in Buffers /\ gstate' = [gstate EXCEPT ![gring] = "dequeued"]
      /\ gring' = NextImage(gring) /\ gcur' = gcur
      /\ UNCHANGED <<cameraVars, screenVars>>
      /\ leg = "gpudup" /\ pc = "dequeue" /\ Dequeued(gring)
  BY DEF DequeueGpuDup, TakeImage, Trying, GpuTypeOK
<1>2. LoopOK' /\ pc' = "queue" /\ leg' = leg /\ hand' = gring
  BY <1>1, DequeuedLoop DEF NoGpuOK
<1>3. NextImage(gring) \in Buffers
  BY <1>1, NBuffersAssumption DEF NextImage, Buffers
<1>4. GpuTypeOK'
  BY <1>1, <1>3 DEF GpuTypeOK
<1>5. CameraTypeOK' /\ ScreenTypeOK' /\ OneFlip' /\ queueid' = queueid
  BY <1>1, ScreenQuiet DEF CameraTypeOK, cameraVars
<1>6. ImagesKept'
  BY <1>1, <1>2, <1>5 DEF ImagesKept, InHand, GpuTypeOK
<1> QED
  BY <1>2, <1>4, <1>5, <1>6

(* A flip is read: its buffer is in hand.                                   *)
LEMMA DequeueScreenInv ==
  ASSUME SInv, DequeueScreen PROVE SInv'
<1> USE DEF SInv, DevicesOK, LoopOK
<1>1. /\ queueid \in Buffers /\ queueid' = NoBuffer
      /\ events > 0 /\ events' = 0
      /\ UNCHANGED <<cameraVars, gpuVars, flipping, accepts>>
      /\ leg = "screen" /\ pc = "dequeue" /\ Dequeued(queueid)
  BY DEF DequeueScreen, ReadFlip, Trying, ScreenTypeOK
<1>2. LoopOK' /\ pc' = "queue" /\ leg' = leg /\ hand' = queueid
  BY <1>1, DequeuedLoop DEF gpuVars
<1>3. CameraTypeOK' /\ GpuTypeOK'
  BY <1>1 DEF CameraTypeOK, cameraVars, GpuTypeOK, gpuVars
<1>4. ScreenTypeOK' /\ OneFlip'
  BY <1>1 DEF ScreenTypeOK, OneFlip
<1>5. ImagesKept'
  BY <1>1, <1>2 DEF ImagesKept, InHand, gpuVars
<1> QED
  BY <1>2, <1>3, <1>4, <1>5

(* A frame that was drawn is taken back.                                    *)
LEMMA DequeueGpuInv ==
  ASSUME SInv, DequeueGpu PROVE SInv'
<1> USE DEF SInv, DevicesOK, LoopOK
<1>1. /\ gcur \in Buffers /\ gcur' = NoBuffer
      /\ UNCHANGED <<gstate, gring, cameraVars, screenVars>>
      /\ leg = "gpu" /\ pc = "dequeue" /\ Dequeued(gcur)
  BY DEF DequeueGpu, Drawn, Trying, GpuTypeOK
<1>2. LoopOK'
  BY <1>1, DequeuedLoop
<1>3. DevicesOK' /\ OneFlip' /\ queueid' = queueid
  BY <1>1, ScreenQuiet DEF CameraTypeOK, cameraVars, GpuTypeOK
<1>4. ImagesKept'
  BY <1>1, <1>3, ImagesQuiet
<1> QED
  BY <1>2, <1>3, <1>4

-----------------------------------------------------------------------------
(* main_transferbuffer(): the queue *)

(* The refused buffer stays in hand.                                        *)
LEMMA PushBackInv ==
  ASSUME SInv, pc = "queue", leg \in {"camera", "gpudup"}, PushBack,
         UNCHANGED <<cameraVars, gpuVars, screenVars>>
  PROVE  SInv'
<1> USE DEF SInv, DevicesOK, LoopOK
<1>1. pc' = "giveback" /\ leg' = leg /\ hand' = hand
  BY DEF PushBack, iterVars
<1>2. LoopOK'
  BY <1>1 DEF Empty, HandOK, RefusedOK, NoGpuOK, gpuVars
<1>3. DevicesOK' /\ OneFlip' /\ queueid' = queueid
  BY ScreenQuiet DEF CameraTypeOK, cameraVars, GpuTypeOK, gpuVars
<1>4. ImagesKept'
  BY <1>1, <1>3 DEF ImagesKept, InHand, gpuVars
<1> QED
  BY <1>2, <1>3, <1>4

(* A frame is drawn, or refused.                                            *)
LEMMA QueueGpuInv ==
  ASSUME SInv, QueueGpu PROVE SInv'
<1> USE DEF SInv, DevicesOK, LoopOK
<1>1. /\ pc = "queue" /\ leg = "camera" /\ WithGpu /\ hand \in Buffers
      /\ UNCHANGED <<cameraVars, screenVars>>
  BY DEF QueueGpu, Peer, HandOK, Empty
<1>2. CASE Draw(hand) /\ Relayed(NextLeg)
  <2>1. LoopOK'
    BY <1>1, <1>2, LegEnds
  <2>2. GpuTypeOK' /\ \A b \in Buffers : gstate'[b] = "dequeued" => gstate[b] = "dequeued"
    BY <1>1, <1>2 DEF Draw, GpuTypeOK
  <2>3. CameraTypeOK' /\ ScreenTypeOK' /\ OneFlip' /\ queueid' = queueid
    BY <1>1, ScreenQuiet DEF CameraTypeOK, cameraVars
  <2>4. ImagesKept'
    BY <1>1, <2>2, <2>3, ImagesQuiet
  <2> QED
    BY <2>1, <2>2, <2>3, <2>4
<1>3. CASE UNCHANGED gpuVars /\ PushBack
  BY <1>1, <1>3, PushBackInv
<1> QED
  BY <1>2, <1>3 DEF QueueGpu

(* An image is committed, when no flip is awaited, or refused.              *)
LEMMA QueueScreenInv ==
  ASSUME SInv, QueueScreen PROVE SInv'
<1> USE DEF SInv, DevicesOK, LoopOK
<1>1. /\ pc = "queue" /\ leg \in {"camera", "gpudup"} /\ hand \in Buffers
      /\ UNCHANGED <<cameraVars, gpuVars>>
  BY DEF QueueScreen, Peer, HandOK, Empty
<1>2. CASE Commit(hand) /\ Relayed(NextLeg)
  <2>1. /\ queueid = NoBuffer /\ queueid' = hand /\ flipping' = TRUE
        /\ flipping = FALSE /\ events' = events /\ accepts' = accepts
    BY <1>2 DEF Commit, ScreenAccepts, Unawaited, ScreenTypeOK
  <2>2. LoopOK' /\ Empty'
    BY <1>1, <1>2, LegEnds DEF gpuVars
  <2>3. hand # NoBuffer
    BY <1>1, NBuffersAssumption DEF Buffers, NoBuffer
  <2>4. ScreenTypeOK' /\ OneFlip'
    BY <1>1, <2>1, <2>3 DEF ScreenTypeOK, OneFlip
  <2>5. CameraTypeOK' /\ GpuTypeOK'
    BY <1>1 DEF CameraTypeOK, cameraVars, GpuTypeOK, gpuVars
  <2>6. \A b \in Buffers : gstate[b] = "dequeued" => hand = b
    BY <2>1, NBuffersAssumption DEF ImagesKept, InHand, Buffers, NoBuffer
  <2>7. ImagesKept'
    BY <1>1, <2>1, <2>6 DEF ImagesKept, gpuVars
  <2> QED
    BY <2>2, <2>4, <2>5, <2>7
<1>3. CASE UNCHANGED screenVars /\ PushBack
  BY <1>1, <1>3, PushBackInv
<1> QED
  BY <1>2, <1>3 DEF QueueScreen

(* The dup side of the renderer takes an image back.                        *)
LEMMA ReturnedInv ==
  ASSUME SInv, hand \in Buffers, ReturnImage(hand), Empty', LoopOK',
         CameraTypeOK', UNCHANGED screenVars
  PROVE  SInv'
<1> USE DEF SInv, DevicesOK
<1>1. GpuTypeOK'
  BY DEF ReturnImage, GpuTypeOK
<1>2. ScreenTypeOK' /\ OneFlip' /\ queueid' = queueid
  BY ScreenQuiet
<1>3. ImagesKept'
  BY <1>2 DEF ImagesKept, InHand, ReturnImage, GpuTypeOK
<1> QED
  BY <1>1, <1>2, <1>3

(* The buffer of a flip goes back to the renderer.                          *)
LEMMA QueueGpuDupInv ==
  ASSUME SInv, QueueGpuDup PROVE SInv'
<1> USE DEF SInv, DevicesOK, LoopOK
<1>1. /\ pc = "queue" /\ leg = "screen" /\ WithGpu /\ hand \in Buffers
      /\ UNCHANGED <<cameraVars, screenVars>>
      /\ ReturnImage(hand) /\ Relayed(NextLeg)
  BY DEF QueueGpuDup, Peer, HandOK, Empty
<1>2. LoopOK' /\ Empty'
  BY <1>1, LegEnds
<1>3. CameraTypeOK'
  BY <1>1 DEF CameraTypeOK, cameraVars
<1> QED
  BY <1>1, <1>2, <1>3, ReturnedInv

(* A buffer goes back to the camera, which may not take it.  It holds no    *)
(* image of the renderer: with the screen's leg there is no renderer.       *)
LEMMA QueueCameraInv ==
  ASSUME SInv, QueueCamera PROVE SInv'
<1> USE DEF SInv, DevicesOK, LoopOK
<1>1. /\ pc = "queue" /\ leg # "gpudup" /\ (leg = "screen" => ~ WithGpu)
      /\ hand \in Buffers /\ UNCHANGED <<gpuVars, screenVars>>
      /\ UNCHANGED <<camera, cdone, clen>>
      /\ cqueue' \in {cqueue, Append(cqueue, hand)}
      /\ Relayed(NextLeg) \/ Failed(BreakLeg, Pipe) \/ Advance(NextLeg)
  BY DEF QueueCamera, Peer, HandOK, Empty, QueueEmpty, cameraVars
<1>2. LoopOK' /\ Empty'
  BY <1>1, LegEnds DEF gpuVars
<1>3. CameraTypeOK'
  <2>1. cqueue' \in Seq(Buffers)
    BY <1>1 DEF CameraTypeOK
  <2> QED
    BY <1>1, <2>1, Zenon DEF CameraTypeOK
<1>4. GpuTypeOK' /\ ScreenTypeOK' /\ OneFlip' /\ queueid' = queueid
  BY <1>1, ScreenQuiet DEF GpuTypeOK, gpuVars
<1>5. ImagesKept'
  BY <1>1, <1>4 DEF ImagesKept, InHand, NoGpuOK, gpuVars
<1> QED
  BY <1>2, <1>3, <1>4, <1>5

(* A refused frame goes back to the camera, a refused image to the renderer.*)
LEMMA GiveBackInv ==
  ASSUME SInv, GiveBack PROVE SInv'
<1> USE DEF SInv, DevicesOK, LoopOK
<1>1. /\ pc = "giveback" /\ leg \in {"camera", "gpudup"} /\ hand \in Buffers
      /\ UNCHANGED screenVars /\ UNCHANGED <<camera, cdone, clen>>
      /\ cqueue' \in {cqueue, Append(cqueue, hand)}
      /\ Advance(NextLeg)
  BY DEF GiveBack, HandOK, RefusedOK, Empty, QueueEmpty, cameraVars
<1>2. CameraTypeOK'
  <2>1. cqueue' \in Seq(Buffers)
    BY <1>1 DEF CameraTypeOK
  <2> QED
    BY <1>1, <2>1, Zenon DEF CameraTypeOK
<1>3. CASE leg = "gpudup"
  <2>1. ReturnImage(hand) /\ WithGpu
    BY <1>3 DEF GiveBack, NoGpuOK
  <2>2. LoopOK' /\ Empty'
    BY <1>1, <2>1, LegEnds
  <2> QED
    BY <1>1, <1>2, <2>1, <2>2, ReturnedInv
<1>4. CASE leg = "camera"
  <2>1. UNCHANGED gpuVars
    BY <1>4 DEF GiveBack
  <2>2. LoopOK'
    BY <1>1, <2>1, LegEnds DEF gpuVars
  <2>3. GpuTypeOK' /\ ScreenTypeOK' /\ OneFlip' /\ queueid' = queueid
    BY <1>1, <2>1, ScreenQuiet DEF GpuTypeOK, gpuVars
  <2>4. ImagesKept'
    BY <1>4, <2>1, <2>3, ImagesQuiet DEF gpuVars
  <2> QED
    BY <1>2, <2>2, <2>3, <2>4
<1> QED
  BY <1>1, <1>3, <1>4

-----------------------------------------------------------------------------
(* What happens around the thread *)

(* The loop and the renderer are left alone.                                *)
LEMMA AroundStep ==
  ASSUME SInv, UNCHANGED <<gpuVars, loopVars>>,
         CameraTypeOK', ScreenTypeOK', OneFlip', queueid' = queueid
  PROVE  SInv'
<1> USE DEF SInv, DevicesOK, LoopOK
<1>1. pc' = pc /\ leg' = leg /\ hand' = hand
  BY DEF loopVars, iterVars
<1>2. LoopOK'
  BY <1>1 DEF HandOK, Empty, RefusedOK, NoGpuOK, gpuVars
<1>3. GpuTypeOK' /\ ImagesKept'
  BY <1>1 DEF GpuTypeOK, gpuVars, ImagesKept, InHand
<1> QED
  BY <1>2, <1>3

(* The camera fills a buffer, stops or is unplugged.                        *)
LEMMA CameraInv ==
  ASSUME SInv, CameraBreaks \/ \E l \in Lengths : CameraFill(l) PROVE SInv'
<1> USE DEF SInv, DevicesOK
<1>1. UNCHANGED <<gpuVars, loopVars>> /\ UNCHANGED screenVars
  BY DEF CameraBreaks, CameraFill
<1>2. CameraTypeOK'
  <2>1. CASE CameraBreaks
    BY <2>1 DEF CameraBreaks, Fault, CameraTypeOK
  <2>2. ASSUME NEW l \in Lengths, CameraFill(l) PROVE CameraTypeOK'
    <3>1. /\ camera' = camera /\ cqueue \in Seq(Buffers) /\ cqueue # << >>
          /\ cdone \in Seq(Buffers) /\ cqueue' = Tail(cqueue)
          /\ cdone' = Append(cdone, Head(cqueue))
          /\ clen \in [Buffers -> MaybeLength]
          /\ clen' = [clen EXCEPT ![Head(cqueue)] = l]
      BY <2>2 DEF CameraFill, FillFrame, CameraTypeOK
    <3>2. Head(cqueue) \in Buffers /\ cqueue' \in Seq(Buffers)
      BY <3>1
    <3>3. cdone' \in Seq(Buffers) /\ clen' \in [Buffers -> MaybeLength]
      BY <3>1, <3>2 DEF MaybeLength
    <3> QED
      BY <3>1, <3>2, <3>3 DEF CameraTypeOK
  <2> QED
    BY <2>1, <2>2
<1> QED
  BY <1>1, <1>2, ScreenQuiet, AroundStep

(* A commit is shown, which puts the only event; or the driver changes its  *)
(* mind about commits.                                                      *)
LEMMA KernelInv ==
  ASSUME SInv, ScreenFlips \/ ScreenTaken PROVE SInv'
<1> USE DEF SInv, DevicesOK
<1>1. UNCHANGED <<gpuVars, loopVars>> /\ UNCHANGED cameraVars /\ queueid' = queueid
  BY DEF ScreenFlips, ScreenTaken, Flip, AcceptsChanges
<1>2. ScreenTypeOK' /\ OneFlip'
  <2>1. CASE ScreenFlips
    <3>1. /\ flipping /\ ~ flipping' /\ flipping' \in BOOLEAN
          /\ events' = events + 1 /\ queueid' = queueid /\ accepts' = accepts
      BY <2>1, Zenon DEF ScreenFlips, Flip
    <3>2. /\ queueid # NoBuffer <=> flipping \/ events > 0
          /\ events + (IF flipping THEN 1 ELSE 0) <= 1
      BY Zenon DEF OneFlip
    <3>3. events = 0 /\ events' = 1
      <4>1. events + 1 <= 1
        BY <3>1, <3>2, Zenon
      <4> QED
        BY <3>1, <4>1 DEF ScreenTypeOK
    <3>4. queueid' # NoBuffer
      BY <3>1, <3>2, Zenon
    <3>5. ScreenTypeOK'
      BY <3>1, <3>3 DEF ScreenTypeOK
    <3>6. events' > 0 /\ events' + (IF flipping' THEN 1 ELSE 0) <= 1
      <4>1. (IF flipping' THEN 1 ELSE 0) = 0
        BY <3>1, Zenon
      <4> QED
        BY <3>3, <4>1
    <3> QED
      BY <3>4, <3>5, <3>6, Zenon DEF OneFlip
  <2>2. CASE ScreenTaken
    BY <2>2 DEF ScreenTaken, AcceptsChanges, ScreenTypeOK, OneFlip
  <2> QED
    BY <2>1, <2>2
<1>3. CameraTypeOK'
  BY <1>1 DEF CameraTypeOK, cameraVars
<1> QED
  BY <1>1, <1>2, <1>3, AroundStep

(* The timer expires, or a signal ends the loop.                            *)
LEMMA EventsInv ==
  ASSUME SInv, TimerTick \/ Terminate PROVE SInv'
<1> USE DEF SInv, DevicesOK, LoopOK
<1>1. /\ UNCHANGED deviceVars /\ leg' = leg /\ hand' = hand
      /\ pc' = pc \/ (pc = "select" /\ pc' = "check")
  BY DEF TimerTick, Tick, Terminate, Interrupt, iterVars
<1>2. LoopOK'
  BY <1>1 DEF HandOK, Empty, RefusedOK, NoGpuOK, deviceVars, gpuVars
<1>3. DevicesOK' /\ OneFlip' /\ queueid' = queueid
  BY <1>1, ScreenQuiet
     DEF deviceVars, CameraTypeOK, cameraVars, GpuTypeOK, gpuVars
<1>4. ImagesKept'
  BY <1>1, <1>3 DEF ImagesKept, InHand, deviceVars, gpuVars
<1> QED
  BY <1>2, <1>3, <1>4

-----------------------------------------------------------------------------
(* After the start: buffer 0 is committed and no image is lent.             *)
LEMMA SInitInv == Init => SInv
<1> SUFFICES ASSUME Init PROVE SInv
  OBVIOUS
<1> USE DEF Init, CameraInit, GpuInit, ScreenInit, LoopInit
<1>1. 0 \in Buffers /\ 0 # NoBuffer
  BY NBuffersAssumption DEF Buffers, NoBuffer
<1>2. CameraTypeOK
  <2>1. cqueue \in Seq(Buffers)
    BY NBuffersAssumption DEF Buffers
  <2> QED
    BY <2>1 DEF CameraTypeOK, MaybeLength
<1>3. GpuTypeOK /\ ScreenTypeOK
  BY <1>1 DEF GpuTypeOK, ScreenTypeOK
<1>4. LoopOK /\ OneFlip /\ ImagesKept
  BY <1>1 DEF LoopOK, HandOK, Empty, RefusedOK, NoGpuOK, OneFlip, ImagesKept
<1> QED
  BY <1>2, <1>3, <1>4 DEF SInv, DevicesOK

(* Every step keeps the invariant.                                          *)
LEMMA SNextInv == SInv /\ [Next]_vars => SInv'
<1> SUFFICES ASSUME SInv, [Next]_vars PROVE SInv'
  OBVIOUS
<1>1. CASE MainThread
  <2>1. CASE Iterate \/ SkipLeg \/ DequeueCameraGone \/ DequeueNothing
    BY <2>1, LoopControl
  <2>2. CASE DequeueCamera
    BY <2>2, DequeueCameraInv
  <2>3. CASE DequeueGpuDup
    BY <2>3, DequeueGpuDupInv
  <2>4. CASE DequeueScreen
    BY <2>4, DequeueScreenInv
  <2>5. CASE DequeueGpu
    BY <2>5, DequeueGpuInv
  <2>6. CASE QueueGpu
    BY <2>6, QueueGpuInv
  <2>7. CASE QueueScreen
    BY <2>7, QueueScreenInv
  <2>8. CASE QueueGpuDup
    BY <2>8, QueueGpuDupInv
  <2>9. CASE QueueCamera
    BY <2>9, QueueCameraInv
  <2>10. CASE GiveBack
    BY <2>10, GiveBackInv
  <2> QED
    BY <1>1, <2>1, <2>2, <2>3, <2>4, <2>5, <2>6, <2>7, <2>8, <2>9, <2>10
       DEF MainThread
<1>2. CASE CameraBreaks \/ \E l \in Lengths : CameraFill(l)
  BY <1>2, CameraInv
<1>3. CASE ScreenFlips \/ ScreenTaken
  BY <1>3, KernelInv
<1>4. CASE TimerTick \/ Terminate
  BY <1>4, EventsInv
<1>5. CASE UNCHANGED vars
  <2>1. UNCHANGED <<gpuVars, loopVars>> /\ UNCHANGED cameraVars /\ UNCHANGED screenVars
    BY <1>5 DEF vars, deviceVars
  <2>2. CameraTypeOK'
    BY <2>1 DEF SInv, DevicesOK, CameraTypeOK, cameraVars
  <2> QED
    BY <2>1, <2>2, ScreenQuiet, AroundStep DEF SInv, DevicesOK
<1> QED
  BY <1>1, <1>2, <1>3, <1>4, <1>5 DEF Next

(* The inductive invariant holds in every reachable state.                  *)
THEOREM ScreenInvariance == Spec => []SInv
<1>1. Init => SInv
  BY SInitInv
<1>2. SInv /\ [Next]_vars => SInv'
  BY SNextInv
<1> QED
  BY <1>1, <1>2, PTL DEF Spec

(* One flip is on its way at most, and `queueid' tells it: no commit races  *)
(* with another, the flip that is read is that of the buffer returned.      *)
THEOREM OneFlipCorrect == Spec => []OneFlip
<1>1. SInv => OneFlip
  BY DEF SInv
<1> QED
  BY <1>1, ScreenInvariance, PTL

(* An image given by the renderer is with the screen or in the hand of the  *)
(* loop, whatever the screen refuses.                                       *)
THEOREM ImagesCorrect == Spec => []ImagesKept
<1>1. SInv => ImagesKept
  BY DEF SInv
<1> QED
  BY <1>1, ScreenInvariance, PTL

-----------------------------------------------------------------------------
(* The buffers of the camera, with the renderer *)

(* The two queues of the camera's driver (QueueLemmas), and what the calls   *)
(* of the loop and the driver do to them.                                   *)
WithCamera(b) == With(cqueue, cdone, b)
QueuesOK == TwoQueues(cqueue, cdone)

LEMMA CameraHasAll ==
  ASSUME CameraInit
  PROVE  QueuesOK /\ \A b \in Buffers : WithCamera(b)
BY AllWith DEF CameraInit, QueuesOK, WithCamera

LEMMA FillKeeps ==
  ASSUME QueuesOK, NEW l, FillFrame(l)
  PROVE  QueuesOK' /\ \A b \in Buffers : WithCamera(b)' <=> WithCamera(b)
BY FillKeepsBoth DEF FillFrame, QueuesOK, WithCamera

LEMMA DequeueKeeps ==
  ASSUME QueuesOK, DequeueFrame
  PROVE  /\ QueuesOK' /\ Head(cdone) \in Buffers /\ WithCamera(Head(cdone))
         /\ \A b \in Buffers : WithCamera(b)' <=> WithCamera(b) /\ b # Head(cdone)
BY TakeKeepsBoth DEF DequeueFrame, CameraHasFrame, QueuesOK, WithCamera

LEMMA QueueKeeps ==
  ASSUME QueuesOK, NEW b \in Buffers, QueueEmpty(b), ~ WithCamera(b)
  PROVE  QueuesOK' /\ \A c \in Buffers : WithCamera(c)' <=> WithCamera(c) \/ c = b
BY GiveKeepsBoth DEF QueueEmpty, QueuesOK, WithCamera

LEMMA DriverAccepts ==
  ASSUME QueuesOK, NEW b \in Buffers, camera # "gone"
  PROVE  CameraAccepts(b) <=> ~ WithCamera(b)
<1>1. DOMAIN cqueue = 1 .. Len(cqueue) /\ DOMAIN cdone = 1 .. Len(cdone)
  BY DEF QueuesOK, TwoQueues
<1> QED
  BY <1>1 DEF CameraAccepts, OwnedByCamera, WithCamera, With, Has

LEMMA CameraRests ==
  ASSUME QueuesOK, UNCHANGED <<cqueue, cdone>>
  PROVE  QueuesOK' /\ \A b \in Buffers : WithCamera(b)' <=> WithCamera(b)
BY DEF QueuesOK, WithCamera, TwoQueues, With, Has, Distinct

(* A buffer in hand is on a leg.                                            *)
LegOK == ~ Empty => leg \in {"camera", "gpudup", "screen", "gpu"}

InLoop(b) == InHand(b, {"camera", "gpu"})

(* Buffer b is in one place.                                                *)
OnePart(b) ==
    \/ WithCamera(b) /\ ~ InLoop(b) /\ gcur # b
    \/ ~ WithCamera(b) /\ InLoop(b) /\ gcur # b
    \/ ~ WithCamera(b) /\ ~ InLoop(b) /\ gcur = b

(* The strengthening of CameraKept: the queues of the driver hold no buffer *)
(* twice, which is what makes VIDIOC_QBUF take the one that comes back.     *)
CInv == LegOK /\ (camera # "gone" => QueuesOK /\ \A b \in Buffers : OnePart(b))

(* The legs go on.                                                          *)
LEMMA LegStep ==
  ASSUME LegOK, Empty' \/ UNCHANGED <<pc, leg>>
                \/ (pc' = "queue" /\ leg' = leg /\ leg \in {"camera", "gpudup", "screen", "gpu"})
                \/ (pc = "queue" /\ leg' = leg)
  PROVE  LegOK'
BY DEF LegOK, Empty

(* The buffers of the camera are left where they are.                       *)
LEMMA BuffersRest ==
  ASSUME CInv, LegOK', UNCHANGED <<cqueue, cdone, gcur>>,
         camera' # "gone" => camera # "gone",
         \A b \in Buffers : InLoop(b)' <=> InLoop(b)
  PROVE  CInv'
<1>1. SUFFICES ASSUME camera' # "gone" PROVE QueuesOK' /\ \A b \in Buffers : OnePart(b)'
  BY DEF CInv
<1>2. QueuesOK /\ \A b \in Buffers : OnePart(b)
  BY <1>1 DEF CInv
<1>3. QueuesOK' /\ \A b \in Buffers : WithCamera(b)' <=> WithCamera(b)
  BY <1>2, CameraRests
<1> QED
  BY <1>2, <1>3 DEF OnePart

(* The legs that move no buffer of the camera: those between the renderer   *)
(* and the screen, and those that find nothing.                             *)
LEMMA OtherLegs ==
  ASSUME WithGpu, SInv, CInv,
         \/ Iterate \/ SkipLeg \/ DequeueCameraGone \/ DequeueNothing
         \/ DequeueGpuDup \/ DequeueScreen \/ QueueScreen \/ QueueGpuDup
         \/ (GiveBack /\ leg = "gpudup")
  PROVE  CInv'
<1>1. UNCHANGED <<camera, cqueue, cdone>>
  BY DEF Iterate, SkipLeg, DequeueCameraGone, DequeueNothing, DequeueGpuDup,
         DequeueScreen, QueueScreen, QueueGpuDup, GiveBack, deviceVars, cameraVars
<1>2. UNCHANGED gcur
  BY DEF Iterate, SkipLeg, DequeueCameraGone, DequeueNothing, DequeueGpuDup, TakeImage,
         DequeueScreen, QueueScreen, QueueGpuDup, GiveBack, ReturnImage, deviceVars, gpuVars
<1>3. CASE Iterate
  <2>1. Empty /\ Empty'
    BY <1>3, Zenon DEF Iterate, Check, Select, Stop, iterVars, Empty
  <2> QED
    BY <1>1, <1>2, <2>1, LegStep, BuffersRest DEF Empty, InLoop, InHand, CInv
<1>4. CASE SkipLeg \/ DequeueCameraGone \/ DequeueNothing
  <2>1. Empty /\ Empty'
    BY <1>4 DEF SkipLeg, DequeueCameraGone, DequeueNothing, Trying, Empty,
                Advance, Failed, GoTo
  <2> QED
    BY <1>1, <1>2, <2>1, LegStep, BuffersRest DEF Empty, InLoop, InHand, CInv
<1>5. CASE DequeueGpuDup \/ DequeueScreen
  <2>1. Empty /\ leg \in {"gpudup", "screen"} /\ leg' = leg /\ pc' = "queue"
    BY <1>5 DEF DequeueGpuDup, DequeueScreen, Trying, Empty, Dequeued
  <2>2. LegOK' /\ \A b \in Buffers : InLoop(b)' <=> InLoop(b)
    BY <2>1, LegStep DEF Empty, InLoop, InHand, CInv
  <2> QED
    BY <1>1, <1>2, <2>2, BuffersRest
<1>6. CASE QueueScreen \/ QueueGpuDup \/ (GiveBack /\ leg = "gpudup")
  <2>1. leg \in {"gpudup", "screen"}
    BY <1>6 DEF QueueScreen, QueueGpuDup, Peer
  <2>2. Empty' \/ (pc = "queue" /\ leg' = leg)
    BY <1>6 DEF QueueScreen, QueueGpuDup, GiveBack, Relayed, Advance, GoTo, Empty,
                PushBack, iterVars
  <2>3. LegOK' /\ \A b \in Buffers : InLoop(b)' <=> InLoop(b)
    BY <2>1, <2>2, LegStep DEF Empty, InLoop, InHand, CInv
  <2> QED
    BY <1>1, <1>2, <2>3, BuffersRest
<1> QED
  BY <1>3, <1>4, <1>5, <1>6

(* A frame of the camera comes in hand.                                     *)
LEMMA FrameTaken ==
  ASSUME SInv, CInv, DequeueCamera PROVE CInv'
<1> DEFINE h == Head(cdone)
<1>1. /\ DequeueFrame /\ UNCHANGED gcur /\ pc = "dequeue" /\ leg = "camera"
      /\ pc' = "queue" /\ leg' = leg /\ hand' = h /\ camera # "gone"
  BY DEF DequeueCamera, Trying, Dequeued, gpuVars, DequeueFrame, CameraHasFrame
<1>2. QueuesOK /\ \A b \in Buffers : OnePart(b) /\ ~ InLoop(b)
  BY <1>1 DEF CInv, InLoop, InHand
<1>3. /\ QueuesOK' /\ h \in Buffers /\ WithCamera(h)
      /\ \A b \in Buffers : WithCamera(b)' <=> WithCamera(b) /\ b # h
  BY <1>1, <1>2, DequeueKeeps
<1> HIDE DEF h
<1>4. \A b \in Buffers : InLoop(b)' <=> b = h
  BY <1>1 DEF InLoop, InHand
<1>5. LegOK'
  BY <1>1, LegStep DEF CInv
<1> QED
  BY <1>1, <1>2, <1>3, <1>4, <1>5 DEF CInv, OnePart

(* The renderer takes it, or it stays in hand.                              *)
LEMMA FrameDrawn ==
  ASSUME WithGpu, SInv, CInv, QueueGpu PROVE CInv'
<1>1. /\ pc = "queue" /\ leg = "camera" /\ hand \in Buffers
      /\ UNCHANGED <<camera, cqueue, cdone>>
  BY DEF QueueGpu, Peer, SInv, LoopOK, HandOK, Empty, cameraVars
<1>2. CASE UNCHANGED gpuVars /\ PushBack
  <2>1. gcur' = gcur /\ pc' = "giveback" /\ leg' = leg /\ hand' = hand
    BY <1>2 DEF gpuVars, PushBack, iterVars
  <2>2. LegOK' /\ \A b \in Buffers : InLoop(b)' <=> InLoop(b)
    BY <1>1, <2>1, LegStep DEF InLoop, InHand, CInv
  <2> QED
    BY <1>1, <2>1, <2>2, BuffersRest
<1>3. CASE Draw(hand) /\ Relayed(NextLeg)
  <2>1. gcur = NoBuffer /\ gcur' = hand /\ Empty'
    BY <1>3 DEF Draw, GpuIdle, Relayed, Advance, GoTo, Empty
  <2>2. LegOK' /\ \A b \in Buffers : ~ InLoop(b)'
    BY <2>1 DEF LegOK, InLoop, InHand, Empty
  <2>3. ASSUME camera' # "gone" PROVE QueuesOK' /\ \A b \in Buffers : OnePart(b)'
    <3>1. QueuesOK /\ \A b \in Buffers : OnePart(b)
      BY <1>1, <2>3 DEF CInv
    <3>2. QueuesOK' /\ \A b \in Buffers : WithCamera(b)' <=> WithCamera(b)
      BY <1>1, <3>1, CameraRests
    <3>3. \A b \in Buffers : b # NoBuffer /\ (InLoop(b) <=> b = hand)
      BY <1>1, NBuffersAssumption DEF InLoop, InHand, Buffers, NoBuffer
    <3> QED
      BY <2>1, <2>2, <3>1, <3>2, <3>3 DEF OnePart
  <2> QED
    BY <2>2, <2>3 DEF CInv
<1> QED
  BY <1>2, <1>3 DEF QueueGpu

(* The renderer gives it back.                                              *)
LEMMA FrameBack ==
  ASSUME SInv, CInv, DequeueGpu PROVE CInv'
<1>1. /\ gcur \in Buffers /\ gcur' = NoBuffer /\ UNCHANGED <<camera, cqueue, cdone>>
      /\ leg = "gpu" /\ pc = "dequeue" /\ leg' = leg /\ pc' = "queue" /\ hand' = gcur
  BY DEF DequeueGpu, Drawn, Trying, Dequeued, cameraVars, SInv, DevicesOK, GpuTypeOK
<1>2. LegOK' /\ \A b \in Buffers : ~ InLoop(b) /\ (InLoop(b)' <=> b = gcur)
  BY <1>1, LegStep DEF CInv, InLoop, InHand
<1>3. ASSUME camera' # "gone" PROVE QueuesOK' /\ \A b \in Buffers : OnePart(b)'
  <2>1. QueuesOK /\ \A b \in Buffers : OnePart(b)
    BY <1>1, <1>3 DEF CInv
  <2>2. QueuesOK' /\ \A b \in Buffers : WithCamera(b)' <=> WithCamera(b)
    BY <1>1, <2>1, CameraRests
  <2>3. NoBuffer \notin Buffers
    BY NBuffersAssumption DEF Buffers, NoBuffer
  <2> QED
    BY <1>1, <1>2, <2>1, <2>2, <2>3 DEF OnePart
<1> QED
  BY <1>2, <1>3 DEF CInv

(* The driver takes the buffer in hand, unless it is unplugged.             *)
LEMMA BufferReturned ==
  ASSUME CInv, hand \in Buffers, UNCHANGED gcur, Empty',
         \A b \in Buffers : InLoop(b) <=> b = hand,
         \/ QueueEmpty(hand)
         \/ ~ CameraAccepts(hand) /\ UNCHANGED cameraVars
  PROVE  CInv'
<1>1. LegOK' /\ \A b \in Buffers : ~ InLoop(b)'
  BY DEF LegOK, InLoop, InHand, Empty
<1>2. ASSUME camera' # "gone" PROVE QueuesOK' /\ \A b \in Buffers : OnePart(b)'
  <2>1. camera # "gone"
    BY <1>2 DEF QueueEmpty, CameraAccepts, cameraVars
  <2>2. QueuesOK /\ \A b \in Buffers : OnePart(b)
    BY <2>1 DEF CInv
  <2>3. ~ WithCamera(hand) /\ gcur # hand
    BY <2>2 DEF OnePart
  <2>4. QueueEmpty(hand)
    BY <2>1, <2>2, <2>3, DriverAccepts
  <2>5. QueuesOK' /\ \A c \in Buffers : WithCamera(c)' <=> WithCamera(c) \/ c = hand
    BY <2>2, <2>3, <2>4, QueueKeeps
  <2> QED
    BY <1>1, <2>2, <2>3, <2>5 DEF OnePart
<1> QED
  BY <1>1, <1>2 DEF CInv

(* The camera's leg of pass 2, and a frame refused by the renderer.         *)
LEMMA CameraTakes ==
  ASSUME WithGpu, SInv, CInv, QueueCamera \/ (GiveBack /\ leg = "camera")
  PROVE  CInv'
<1>1. pc \in {"queue", "giveback"} /\ hand \in Buffers /\ UNCHANGED gpuVars
  BY DEF QueueCamera, GiveBack, SInv, LoopOK, HandOK, Empty
<1>2. leg \in {"camera", "gpu"}
  BY <1>1 DEF QueueCamera, Peer, CInv, LegOK, Empty
<1>3. \A b \in Buffers : InLoop(b) <=> b = hand
  BY <1>1, <1>2 DEF InLoop, InHand
<1>4. Empty' /\ UNCHANGED gcur
  BY <1>1 DEF QueueCamera, GiveBack, Relayed, Failed, Advance, GoTo, Empty, gpuVars
<1>5. QueueEmpty(hand) \/ (~ CameraAccepts(hand) /\ UNCHANGED cameraVars)
  BY DEF QueueCamera, GiveBack
<1> QED
  BY <1>1, <1>3, <1>4, <1>5, BufferReturned

(* The camera fills a buffer, stops or is unplugged; the screen, the timer  *)
(* and the signals leave the buffers where they are.                        *)
LEMMA AroundBuffers ==
  ASSUME CInv,
         \/ \E l \in Lengths : CameraFill(l)
         \/ CameraBreaks \/ ScreenFlips \/ ScreenTaken \/ TimerTick \/ Terminate
         \/ UNCHANGED vars
  PROVE  CInv'
<1>1. /\ gcur' = gcur /\ leg' = leg /\ hand' = hand
      /\ pc' = pc \/ (pc = "select" /\ pc' = "check")
  BY DEF CameraFill, CameraBreaks, ScreenFlips, ScreenTaken, TimerTick, Tick, Terminate,
         Interrupt, vars, deviceVars, gpuVars, loopVars, iterVars
<1>2. LegOK' /\ \A b \in Buffers : InLoop(b)' <=> InLoop(b)
  BY <1>1 DEF CInv, LegOK, Empty, InLoop, InHand
<1>3. ASSUME NEW l \in Lengths, CameraFill(l) PROVE CInv'
  <2>1. FillFrame(l) /\ camera # "gone"
    BY <1>3 DEF CameraFill, FillFrame
  <2>2. QueuesOK /\ \A b \in Buffers : OnePart(b)
    BY <2>1 DEF CInv
  <2>3. QueuesOK' /\ \A b \in Buffers : WithCamera(b)' <=> WithCamera(b)
    BY <2>1, <2>2, FillKeeps
  <2> QED
    BY <1>1, <1>2, <2>2, <2>3 DEF CInv, OnePart
<1>4. CASE CameraBreaks \/ ScreenFlips \/ ScreenTaken \/ TimerTick \/ Terminate
           \/ UNCHANGED vars
  <2>1. UNCHANGED <<cqueue, cdone>> /\ (camera' # "gone" => camera # "gone")
    BY <1>4 DEF CameraBreaks, Fault, ScreenFlips, ScreenTaken, TimerTick, Terminate,
                vars, deviceVars, cameraVars
  <2> QED
    BY <1>1, <1>2, <2>1, BuffersRest
<1> QED
  BY <1>3, <1>4

(* After the start the driver has all the buffers.                          *)
LEMMA CInitInv == Init => CInv
<1> SUFFICES ASSUME Init PROVE CInv
  OBVIOUS
<1>1. QueuesOK /\ \A b \in Buffers : WithCamera(b)
  BY CameraHasAll DEF Init
<1>2. Empty /\ gcur = NoBuffer /\ NoBuffer \notin Buffers
  BY NBuffersAssumption DEF Init, LoopInit, GpuInit, Empty, Buffers, NoBuffer
<1> QED
  BY <1>1, <1>2 DEF CInv, LegOK, OnePart, InLoop, InHand, Empty

LEMMA CNextInv ==
  ASSUME WithGpu PROVE SInv /\ CInv /\ [Next]_vars => CInv'
<1> SUFFICES ASSUME SInv, CInv, [Next]_vars PROVE CInv'
  OBVIOUS
<1>1. CASE MainThread
  <2>1. CASE \/ Iterate \/ SkipLeg \/ DequeueCameraGone \/ DequeueNothing
             \/ DequeueGpuDup \/ DequeueScreen \/ QueueScreen \/ QueueGpuDup
    BY <2>1, OtherLegs
  <2>2. CASE DequeueCamera
    BY <2>2, FrameTaken
  <2>3. CASE QueueGpu
    BY <2>3, FrameDrawn
  <2>4. CASE DequeueGpu
    BY <2>4, FrameBack
  <2>5. CASE QueueCamera
    BY <2>5, CameraTakes
  <2>6. CASE GiveBack
    <3>1. leg \in {"camera", "gpudup"}
      BY <2>6 DEF GiveBack, SInv, LoopOK, RefusedOK
    <3> QED
      BY <2>6, <3>1, OtherLegs, CameraTakes
  <2> QED
    BY <1>1, <2>1, <2>2, <2>3, <2>4, <2>5, <2>6 DEF MainThread
<1>2. CASE \/ \E l \in Lengths : CameraFill(l)
           \/ CameraBreaks \/ ScreenFlips \/ ScreenTaken \/ TimerTick \/ Terminate
           \/ UNCHANGED vars
  BY <1>2, AroundBuffers
<1> QED
  BY <1>1, <1>2 DEF Next

(* One place is counted once.                                               *)
LEMMA PlacesCounted ==
  ASSUME QueuesOK, NEW b \in Buffers, OnePart(b)
  PROVE  Cardinality(Places(b)) = 1
<1> DEFINE Q == { <<"cqueue", n>> : n \in { m \in DOMAIN cqueue : cqueue[m] = b } }
           D == { <<"cdone", n>> : n \in { m \in DOMAIN cdone : cdone[m] = b } }
           H == IF InLoop(b) THEN {<<"hand", 0>>} ELSE {}
           G == IF gcur = b THEN {<<"gpu", 0>>} ELSE {}
<1>1. IF Has(cqueue, b) THEN \E x : Q = {x} ELSE Q = {}
  BY OneMark DEF QueuesOK, TwoQueues
<1>2. IF Has(cdone, b) THEN \E x : D = {x} ELSE D = {}
  BY OneMark DEF QueuesOK, TwoQueues
<1>3. ~ (Has(cqueue, b) /\ Has(cdone, b))
  BY DEF QueuesOK, TwoQueues
<1>4. Places(b) = Q \cup D \cup H \cup G
  BY DEF Places, InLoop
<1> HIDE DEF Q, D
<1>5. PICK x : Q \cup D \cup H \cup G = {x}
  BY <1>1, <1>2, <1>3 DEF OnePart, WithCamera, With
<1> QED
  BY <1>4, <1>5, FS_Singleton

(* With the renderer, for any number of buffers, each buffer of a camera    *)
(* that is still there is in one place: with the driver, in the hand of the *)
(* loop or drawn from, whatever is refused and given back.                  *)
THEOREM CameraCorrect ==
  ASSUME WithGpu PROVE Spec => []CameraKept
<1>1. Init => SInv /\ CInv
  BY SInitInv, CInitInv
<1>2. SInv /\ CInv /\ [Next]_vars => SInv' /\ CInv'
  BY SNextInv, CNextInv
<1>3. SInv /\ CInv => CameraKept
  BY PlacesCounted DEF CInv, CameraKept
<1> QED
  BY <1>1, <1>2, <1>3, PTL DEF Spec
=============================================================================
