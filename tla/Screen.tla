------------------------------- MODULE Screen -------------------------------
(***************************************************************************)
(* A screen: src/sdrm.c with atomic commits and no writeback, and the      *)
(* kernel's part of a page flip.  A commit is shown at a later refresh,    *)
(* which puts an event on the descriptor.  The state of the buffer         *)
(* `queueid' is always queued and the states of the others are not tested. *)
(***************************************************************************)
EXTENDS FrameBuffers

VARIABLES
    queueid,    \* the buffer of the commit whose event was not read
    flipping,   \* the kernel has a commit it does not show yet
    events,     \* flip events that were not read
    accepts     \* the driver takes commits

screenVars == <<queueid, flipping, events, accepts>>

(* sdrm_start() commits buffer 0.                                          *)
ScreenInit ==
    /\ queueid = 0
    /\ flipping = TRUE /\ events = 0
    /\ accepts = TRUE

(* sdrm_fd(): no descriptor unless a flip is awaited.                      *)
ScreenReadable == queueid # NoBuffer /\ events > 0

(* sdrm_queue(): EAGAIN while a flip is awaited, and when the commit fails.*)
(* The kernel answers EBUSY to a commit that comes before the last is shown.*)
(* Mutant of Unawaited: only the kernel's answer counts.                   *)
AwaitedByKernel == ~ flipping
Unawaited == queueid = NoBuffer
ScreenAccepts == Unawaited /\ ~ flipping /\ accepts
Commit(b) ==
    /\ ScreenAccepts
    /\ queueid' = b
    /\ flipping' = TRUE
    /\ UNCHANGED <<events, accepts>>

(* sdrm_dequeue(): drmHandleEvent() reads every event, page_flip_handler() *)
(* resets queueid, whose value on entry is returned.                       *)
ReadFlip ==
    /\ queueid # NoBuffer /\ events > 0
    /\ events' = 0
    /\ queueid' = NoBuffer
    /\ UNCHANGED <<flipping, accepts>>

-----------------------------------------------------------------------------
(* The kernel *)

Flip ==
    /\ flipping
    /\ flipping' = FALSE
    /\ events' = events + 1
    /\ UNCHANGED <<queueid, accepts>>

(* Another client takes the screen, or leaves it.                          *)
AcceptsChanges ==
    /\ accepts' = ~ accepts
    /\ UNCHANGED <<queueid, flipping, events>>

(* Every variable of the screen has its type.                              *)
ScreenTypeOK ==
    /\ queueid \in Buffers \cup {NoBuffer}
    /\ flipping \in BOOLEAN /\ accepts \in BOOLEAN
    /\ events \in Nat
=============================================================================
