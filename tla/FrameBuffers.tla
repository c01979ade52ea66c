---------------------------- MODULE FrameBuffers ----------------------------
(***************************************************************************)
(* The buffers of a stream.  The two devices of a pipe number the same     *)
(* buffers in the same way (requestbuffer gives the memory of one to the   *)
(* other), and the main loop passes numbers between them.                  *)
(***************************************************************************)
EXTENDS Naturals

CONSTANTS
    NBuffers,     \* nbuffers: as many in each device
    Lengths       \* what the frames measure (bytesused)

ASSUME NBuffersAssumption == NBuffers \in Nat \ {0}
ASSUME LengthsAssumption  == Lengths \subseteq Nat \ {0}

Buffers  == 0 .. NBuffers - 1
NoBuffer == NBuffers   \* no index, -1 in the code

MaybeLength == Lengths \cup {0}   \* 0: nothing written yet
=============================================================================
