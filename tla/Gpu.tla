-------------------------------- MODULE Gpu --------------------------------
(***************************************************************************)
(* The renderer src/segl.c as a transfer, off screen: one side takes the   *)
(* frames of a camera and draws them, the dup side gives what was drawn to *)
(* the next device.  Drawing on a pbuffer does not fail                    *)
(* (src/segl_offscreen.c: flush and sync return 0).                        *)
(***************************************************************************)
EXTENDS FrameBuffers

VARIABLES
    gcur,     \* dev->curbufferid: the frame drawn, not yet given back
    gstate,   \* state of each buffer of the dup side
    gring     \* dup->curbufferid: the next buffer to give

gpuVars == <<gcur, gstate, gring>>

(* segl_start() on both sides.                                             *)
GpuInit ==
    /\ gcur = NoBuffer
    /\ gstate = [b \in Buffers |-> "queued"]
    /\ gring = 0

(* No frame drawn waits to be given back.                                  *)
(* Mutant of GpuIdle: the test on curbufferid is forgotten.                *)
GpuAlways == TRUE
GpuIdle == gcur = NoBuffer

(* segl_queue(): EAGAIN unless idle; a frame is lost when the dup side's   *)
(* buffer of its number is not free.                                       *)
Draw(b) ==
    /\ GpuIdle
    /\ gcur' = b
    /\ gstate' = [gstate EXCEPT ![b] = IF @ = "queued" THEN "ready" ELSE @]
    /\ UNCHANGED gring

(* segl_dequeue() returns gcur.                                            *)
Drawn ==
    /\ gcur # NoBuffer
    /\ gcur' = NoBuffer
    /\ UNCHANGED <<gstate, gring>>

(* segl_dequeue() on the dup side returns gring.                           *)
NextImage(r) == (r + 1) % NBuffers
HasImage == gstate[gring] = "ready"
TakeImage ==
    /\ HasImage
    /\ gstate' = [gstate EXCEPT ![gring] = "dequeued"]
    /\ gring' = NextImage(gring)
    /\ UNCHANGED gcur

(* segl_queue() on the dup side, whatever the state of the buffer.         *)
(* Mutant of ReturnImage: the state is left alone.                         *)
ReturnNothing(b) == b \in Buffers /\ UNCHANGED gpuVars
ReturnImage(b) ==
    /\ gstate' = [gstate EXCEPT ![b] = "queued"]
    /\ UNCHANGED <<gcur, gring>>

(* Every variable of the renderer has its type.                            *)
GpuTypeOK ==
    /\ gcur \in Buffers \cup {NoBuffer}
    /\ gstate \in [Buffers -> {"queued", "ready", "dequeued"}]
    /\ gring \in Buffers
=============================================================================
