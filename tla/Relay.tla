-------------------------------- MODULE Relay --------------------------------
(***************************************************************************)
(* The control of fastvideo's main loop, main_loop() and                   *)
(* main_transferbuffer() in src/fastvideo.c, for any pipes and devices.    *)
(*                                                                         *)
(* One thread sleeps in select(), then relays filled buffers down the      *)
(* pipes in order (pass 1) and empty ones up the pipes in reverse order    *)
(* (pass 2).  A LEG is one relay, named after the device it dequeues from. *)
(* Every device call is a step of its own, so that the devices, the timer  *)
(* and signals act between a dequeue and the queue that follows it.        *)
(*                                                                         *)
(* The modules that extend this one say what the legs are, in which order, *)
(* and what the devices answer.                                            *)
(***************************************************************************)
EXTENDS FrameBuffers

CONSTANT MaxDrain     \* MAX_DRAIN_PER_ITERATION, 28 in the code
ASSUME DrainAssumption == MaxDrain \in Nat \ {0}

VARIABLES
    run,      \* isrunning()
    pc,       \* where the thread is
    leg,      \* the relay under way, "end" between two iterations
    drained,  \* relays done on this leg since select() returned
    rfds,     \* the descriptors select() found readable
    hand,     \* `index' in main_transferbuffer()
    ticked,   \* the one-second timer has expired
    broke,    \* the pipe on which pass 2 was left by `break', 0 if it was not
    stopped   \* the pipes stopped at the end

iterVars == <<leg, drained, rfds, hand>>
endVars  == <<ticked, broke, stopped>>
loopVars == <<run, pc, iterVars, endVars>>

(* The devices are started.                                                *)
LoopInit ==
    /\ run = TRUE
    /\ pc = "check"
    /\ leg = "end" /\ drained = 0 /\ rfds = {} /\ hand = NoBuffer
    /\ ticked = FALSE /\ broke = 0 /\ stopped = {}

-----------------------------------------------------------------------------
(* The iterations *)

(* while (isrunning())                                                     *)
Check ==
    /\ pc = "check"
    /\ pc' = IF run THEN "select" ELSE "stop"
    /\ UNCHANGED <<run, iterVars, endVars>>

(* Mutant of Awake: no timer in the set.                                   *)
AwakeByDevices(readable) == readable # {}
Awake(readable) == readable # {} \/ ticked

(* select() returns with the readable descriptors; when only the timer has *)
(* expired nothing is tried.                                               *)
Select(readable, first) ==
    /\ pc = "select"
    /\ Awake(readable)
    /\ ticked' = FALSE
    /\ rfds' = readable
    /\ IF readable = {}
       THEN pc' = "check" /\ UNCHANGED leg
       ELSE pc' = "dequeue" /\ leg' = first
    /\ UNCHANGED <<run, drained, hand, broke, stopped>>

GoTo(next) ==
    /\ leg' = next
    /\ drained' = 0
    /\ hand' = NoBuffer
    /\ IF next = "end" THEN pc' = "check" /\ rfds' = {}
                       ELSE pc' = "dequeue" /\ UNCHANGED rfds

(* main_transferbuffer() returned 0, or was not called: the next leg.      *)
Advance(next) == GoTo(next) /\ UNCHANGED <<run, endVars>>

(* main_transferbuffer() returned 1: the same leg again, MaxDrain times at *)
(* most.                                                                   *)
Relayed(next) ==
    IF drained + 1 < MaxDrain
    THEN /\ drained' = drained + 1
         /\ hand' = NoBuffer
         /\ pc' = "dequeue"
         /\ UNCHANGED <<leg, rfds, run, endVars>>
    ELSE Advance(next)

(* main_transferbuffer() returned -1 on `pipe': killdaemon() and break.     *)
(* Breaking pass 1 leads to `back', the first leg of pass 2; breaking pass 2 *)
(* ends the iteration and leaves the list's iterator on the pipe.           *)
Failed(back, pipe) ==
    /\ run' = FALSE
    /\ GoTo(back)
    /\ broke' = IF back = "end" THEN pipe ELSE broke
    /\ UNCHANGED <<ticked, stopped>>

(* The devices are stopped from the pipe that follows the iterator.         *)
Stop(pipes) ==
    /\ pc = "stop"
    /\ pc' = "exit"
    /\ stopped' = { p \in pipes : p > broke }
    /\ UNCHANGED <<run, iterVars, ticked, broke>>

-----------------------------------------------------------------------------
(* main_transferbuffer() *)

(* A buffer was dequeued.                                                  *)
Dequeued(b) ==
    /\ pc' = "queue"
    /\ hand' = b
    /\ UNCHANGED <<leg, drained, rfds, run, endVars>>

(* The output answers EAGAIN: the buffer goes back to the input.           *)
(* Mutant of PushBack: the refused buffer is forgotten.                    *)
Forget ==
    /\ pc' = "dequeue"
    /\ UNCHANGED <<iterVars, run, endVars>>
PushBack ==
    /\ pc' = "giveback"
    /\ UNCHANGED <<iterVars, run, endVars>>

-----------------------------------------------------------------------------
(* What happens around the thread *)

Tick ==
    /\ ~ ticked
    /\ ticked' = TRUE
    /\ UNCHANGED <<run, pc, iterVars, broke, stopped>>

(* SIGTERM.  It interrupts select() if the thread already sleeps in it; if *)
(* it comes between isrunning() and select(), it does not.                 *)
Interrupt ==
    /\ run /\ pc # "exit"
    /\ run' = FALSE
    /\ pc' \in IF pc = "select" THEN {"select", "check"} ELSE {pc}
    /\ UNCHANGED <<iterVars, endVars>>

(* Every variable of the loop has its type.                                *)
LoopTypeOK(legs, pipes) ==
    /\ run \in BOOLEAN
    /\ pc \in {"check", "select", "dequeue", "queue", "giveback", "stop", "exit"}
    /\ leg \in legs \cup {"end"}
    /\ drained \in 0 .. MaxDrain - 1
    /\ rfds \in SUBSET legs
    /\ hand \in Buffers \cup {NoBuffer}
    /\ ticked \in BOOLEAN
    /\ broke \in pipes \cup {0}
    /\ stopped \in SUBSET pipes
=============================================================================
