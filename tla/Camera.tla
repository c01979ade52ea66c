------------------------------- MODULE Camera -------------------------------
(***************************************************************************)
(* A camera: a V4L2 capture device (src/sv4l2.c) and its driver.  The      *)
(* driver fills the buffers it is given in order.  It may hang, or be      *)
(* unplugged, at any time.                                                 *)
(***************************************************************************)
EXTENDS FrameBuffers, Sequences

VARIABLES
    camera,   \* "works", "hung": no more frames, "gone": unplugged
    cqueue,   \* buffers the driver may fill
    cdone,    \* buffers it has filled, in order
    clen      \* the length of the frame in each buffer

cameraVars == <<camera, cqueue, cdone, clen>>

(* sv4l2_start() has queued every buffer.                                  *)
CameraInit ==
    /\ camera = "works"
    /\ cqueue = [n \in 1 .. NBuffers |-> n - 1]
    /\ cdone = << >>
    /\ clen = [b \in Buffers |-> 0]

-----------------------------------------------------------------------------
(* The calls of the main loop *)

(* Its descriptor is readable: a frame, or the error of an unplugged device. *)
CameraReadable == cdone # << >> \/ camera = "gone"

(* sv4l2_dequeue(), which returns Head(cdone).  The other outcomes change   *)
(* nothing: EAGAIN when there is no frame, ENODEV when it is unplugged.     *)
CameraHasFrame == camera # "gone" /\ cdone # << >>
DequeueFrame ==
    /\ CameraHasFrame
    /\ cdone' = Tail(cdone)
    /\ UNCHANGED <<camera, cqueue, clen>>

OwnedByCamera(b) == b \in { cqueue[n] : n \in DOMAIN cqueue }
                        \cup { cdone[n] : n \in DOMAIN cdone }

(* sv4l2_queue(): VIDIOC_QBUF answers ENODEV, EINVAL for a buffer the driver *)
(* already has, or success; never EAGAIN.                                   *)
CameraAccepts(b) == camera # "gone" /\ ~ OwnedByCamera(b)
QueueEmpty(b) ==
    /\ CameraAccepts(b)
    /\ cqueue' = Append(cqueue, b)
    /\ UNCHANGED <<camera, cdone, clen>>

-----------------------------------------------------------------------------
(* The driver *)

(* It fills the oldest buffer it was given.                                 *)
FillFrame(l) ==
    /\ camera = "works" /\ cqueue # << >>
    /\ clen' = [clen EXCEPT ![Head(cqueue)] = l]
    /\ cdone' = Append(cdone, Head(cqueue))
    /\ cqueue' = Tail(cqueue)
    /\ UNCHANGED camera

(* It stops without a word, or it is unplugged.                             *)
Fault ==
    /\ \/ camera = "works" /\ camera' = "hung"
       \/ camera # "gone" /\ camera' = "gone"
    /\ UNCHANGED <<cqueue, cdone, clen>>

(* Every variable of the camera has its type.                               *)
CameraTypeOK ==
    /\ camera \in {"works", "hung", "gone"}
    /\ cqueue \in Seq(Buffers) /\ cdone \in Seq(Buffers)
    /\ clen \in [Buffers -> MaybeLength]
=============================================================================
