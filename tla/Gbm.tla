--------------------------------- MODULE Gbm ---------------------------------
(***************************************************************************)
(* The renderer src/segl.c on a screen of its own (src/segl_drm.c): the GPU  *)
(* draws in the buffer objects of a gbm surface, which the kernel shows one   *)
(* after the other.  There is no dup side; a frame is given back once what    *)
(* was drawn from it is on the screen.                                        *)
(***************************************************************************)
EXTENDS FrameBuffers, FiniteSets, Sequences, SequencesExt

CONSTANTS Bos, NoBo       \* the buffer objects of the surface
(* The surface has more than two objects (four with Mesa): native_flush() locks *)
(* a second one before it releases the first, and a refused commit keeps it.    *)
ASSUME BosAssumption == NoBo \notin Bos /\ IsFiniteSet(Bos) /\ Cardinality(Bos) > 2

VARIABLES
    bcur,     \* dev->curbufferid
    locked,   \* the buffer objects that the GPU may not draw in
    oldbo,    \* old_bo: the last that was committed
    shown,    \* what the screen shows
    flip,     \* what it will show at the next refresh
    bevent    \* the event of the last flip is not read yet

gbmVars == <<bcur, locked, oldbo, shown, flip, bevent>>
kernelVars == <<shown, flip, bevent>>

(* native_create() takes the first mode of the connector that has the size,    *)
(* else the width and at least the height, else a size a little larger, else   *)
(* the mode that the screen prefers.                                           *)
ModeOf(modes, width, height) ==
    LET exact(m) == m.w = width /\ m.h = height
        taller(m) == m.w = width /\ m.h >= height
        larger(m) == /\ m.h >= height /\ m.h <= (height * 6) \div 5
                     /\ m.w >= width /\ m.w <= (width * 8) \div 5
        favorite(m) == m.preferred
        found == SelectSeq(<<SelectInSeq(modes, exact), SelectInSeq(modes, taller),
                             SelectInSeq(modes, larger), SelectInSeq(modes, favorite)>>,
                           LAMBDA i : i > 0)
    IN  IF found = << >> THEN 0 ELSE Head(found)

(* segl_start(); the surface has no buffer on the screen before the first frame. *)
GbmInit ==
    /\ bcur = NoBuffer /\ locked = {} /\ oldbo = NoBo
    /\ shown = NoBo /\ flip = NoBo /\ bevent = FALSE

-----------------------------------------------------------------------------
(* segl_queue(): the frame is drawn in a free buffer object, native_flush()    *)
(* locks it and commits it, and releases the one before.  The commit is        *)
(* refused (EBUSY) while the former flip is not done, and for good when the     *)
(* program lost the screen: the object stays locked then.                      *)
Idle == bcur = NoBuffer

Commits == flip = NoBo
GbmQueue(b) ==
    /\ Idle /\ Commits
    /\ \E x \in Bos \ locked :
          /\ locked' = (locked \ {oldbo}) \cup {x}
          /\ oldbo' = x
          /\ flip' = x
    /\ bcur' = b
    /\ UNCHANGED <<shown, bevent>>
GbmRefuse == ~ Idle /\ UNCHANGED gbmVars
GbmFails ==
    /\ Idle
    /\ \E x \in Bos \ locked : locked' = locked \cup {x}
    /\ UNCHANGED <<bcur, oldbo, kernelVars>>
(* The kernel shows the buffer at a refresh and tells it.                       *)
Refresh ==
    /\ flip # NoBo
    /\ shown' = flip /\ flip' = NoBo /\ bevent' = TRUE
    /\ UNCHANGED <<bcur, locked, oldbo>>

(* segl_dequeue() when the descriptor of the screen is readable: native_sync()  *)
(* reads the event.                                                             *)
GbmDequeue ==
    /\ bevent
    /\ bevent' = FALSE
    /\ bcur' = NoBuffer
    /\ UNCHANGED <<locked, oldbo, shown, flip>>

-----------------------------------------------------------------------------
(* When a frame may be drawn, what is on the screen is not free for the GPU,    *)
(* and an object is free: nothing is drawn where the screen reads.              *)
NeverTorn ==
    Idle => /\ shown \in locked \cup {NoBo}
            /\ flip \in locked \cup {NoBo}
            /\ Cardinality(locked) < Cardinality(Bos)
==============================================================================
