---------------------------- MODULE Passthrough ----------------------------
(***************************************************************************)
(* The "passthrough" device (src/spassthrough.c): one device seen from two *)
(* sides.  The MAIN side is the sink of the pipe that feeds it: a FIFO of  *)
(* the buffers of the device upstream.  The DUP side is the source of the  *)
(* pipe that follows: a ring of buffers of which the head, `dcur', is the  *)
(* only one that can be handed out.  A frame crosses from one side to the  *)
(* other in two calls of the main loop: spassthrough_queue_output() makes  *)
(* the head of the ring point to the data, spassthrough_dequeue_output()   *)
(* marks it ready.                                                         *)
(*                                                                         *)
(* Both sides are driven by one thread; the settings are written by        *)
(* another process (fastsetting) in a shared memory word, one              *)
(* read-modify-write at a time, with no lock.                              *)
(***************************************************************************)
EXTENDS FrameBuffers, Sequences

CONSTANTS
    Copies,        \* a converter copies the frames (dev->copy)
    Requests,      \* the bits the settings process writes
    Periods,       \* the values it writes in controls->periodic, 0 = off
    CounterWrap,   \* 2^32 in the code: `periodic' is a uint32_t
    HasDup,        \* the device was duplicated: it is a transfer, not a sink
    HasBranch      \* the configuration describes a second sink (tee)

ASSUME RequestsAssumption == Requests \subseteq {"SHOOT", "TEE", "DRYRUN"}
ASSUME PeriodsAssumption  == Periods \subseteq Nat
ASSUME WrapAssumption     == CounterWrap \in Nat \ {0}
ASSUME SidesAssumption    == HasDup \in BOOLEAN /\ HasBranch \in BOOLEAN /\ Copies \in BOOLEAN

Modes == {"SHOOT", "SHOOTING", "TEE", "DRYRUN"}

VARIABLES
    \* main side
    mstate,   \* buffers[i].state: "queued" lasts only inside one call
    mlen,     \* buffers[i].bytesused
    fifo,     \* the list curbuffer -> next -> ...
    mfd,      \* counter of the main side's completion_fd (an eventfd)
    \* dup side
    dstate,   \* dup->buffers[i].state
    dmem,     \* the buffer of the main side whose memory dup->buffers[i].mem
              \* is, or was converted from
    dlen,     \* dup->buffers[i].bytesused
    dcur,     \* dup->curbuffer
    dfd,      \* counter of the dup side's completion_fd
    \* modes and controls
    mode,     \* dev->state
    period,   \* dev->periodic
    ctl,      \* controls->state, in shared memory
    ctlperiod,\* controls->periodic, in shared memory
    spc,      \* where the settings process is in its read-modify-write
    snap,     \* what it has read
    alive,    \* FALSE once the process has been killed by SIGSEGV
    \* history
    dry,      \* DRYRUN has been in force
    granted   \* a shot has been granted since the last frame handed over

mainVars == <<mstate, mlen, fifo, mfd>>
dupVars  == <<dstate, dmem, dlen, dcur, dfd>>
modeVars == <<mode, period, alive, dry, granted>>
ctlVars  == <<ctl, ctlperiod, spc, snap>>
vars     == <<mainVars, dupVars, modeVars, ctlVars>>

(***************************************************************************)
(* After spassthrough_start() on both sides.  The settings of the          *)
(* configuration file have been stored in the shared word AND in           *)
(* dev->state.                                                             *)
(***************************************************************************)
Init ==
    /\ mstate = [b \in Buffers |-> "dequeued"]
    /\ mlen = [b \in Buffers |-> 0]
    /\ fifo = << >>
    /\ mfd = 0
    /\ dstate = [b \in Buffers |-> "queued"]
    /\ dmem = [b \in Buffers |-> IF Copies THEN NoBuffer ELSE b]
    /\ dlen = [b \in Buffers |-> 0]
    /\ dcur = 0
    /\ dfd = 0
    /\ mode \in SUBSET Requests
    /\ ctl = mode
    /\ period = 0
    /\ ctlperiod \in Periods
    /\ spc = "idle"
    /\ snap = {}
    /\ alive = TRUE
    /\ dry = ("DRYRUN" \in mode)
    /\ granted = FALSE

-----------------------------------------------------------------------------
(* The head of spassthrough_queue_output(): what every call does with the  *)
(* controls, whether or not the buffer is accepted afterwards.             *)

NextPeriod == (period + 1) % CounterWrap
PeriodDue  == ctlperiod > 0 /\ NextPeriod = ctlperiod

Requested == mode \cup ctl \cup (IF PeriodDue THEN {"SHOOT"} ELSE {})
ShotBegins == HasDup /\ "SHOOT" \in Requested
Absorbed  == IF ShotBegins
             THEN (Requested \ {"SHOOT", "DRYRUN"}) \cup {"SHOOTING"}
             ELSE Requested

AbsorbControls ==
    /\ mode' = Absorbed
    /\ ctl' = {}
    /\ period' = IF ctlperiod = 0 THEN period
                 ELSE IF PeriodDue THEN 0 ELSE NextPeriod
    /\ dry' = (dry \/ "DRYRUN" \in Absorbed)
    /\ granted' = (granted \/ ShotBegins)
    /\ UNCHANGED <<ctlperiod, spc, snap>>

(* The branch never had its buffers requested: sfile_queue() with index 0  *)
(* dereferences a NULL table, with another index it fails and nobody looks.*)
BranchQueueCrashes(i) == HasBranch /\ "TEE" \in Absorbed /\ i = 0
(* sfile_dequeue() always dereferences it.                                 *)
BranchDequeueCrashes == HasBranch /\ "TEE" \in mode

(* _passthrough_copy(): the HEAD of the ring describes the data, in        *)
(* whatever state the head is, unless the frame is not for the dup side.   *)
(* Without a converter it answers the length that buffer i had before.     *)
Crosses == HasDup /\ "DRYRUN" \notin Absorbed
NewLength(i, l) == IF Crosses /\ ~ Copies THEN mlen[i] ELSE l

CopyToHead(i, l) ==
    /\ mlen' = [mlen EXCEPT ![i] = NewLength(i, l)]
    /\ IF Crosses
       THEN /\ dmem' = [dmem EXCEPT ![dcur] = i]
            /\ dlen' = [dlen EXCEPT ![dcur] = NewLength(i, l)]
       ELSE UNCHANGED <<dmem, dlen>>

-----------------------------------------------------------------------------
(* The eventfds: not semaphores, one read takes the whole count.           *)

(* Mutant of ReadEvent: the buffer is taken and the eventfd left readable. *)
UnreadEvent(count) == count
ReadEvent(count) == 0

(* Mutant of WriteEvent: the count is not raised.                          *)
UnwrittenEvent(count) == count
WriteEvent(count) == count + 1

-----------------------------------------------------------------------------
(* The main side *)

(* Mutant of Accepts: any buffer is.                                       *)
AcceptsAny(i) == TRUE
Accepts(i) == mstate[i] = "dequeued"

(* spassthrough_queue_output(), buffer accepted.                           *)
QueueOutput(i, l) ==
    /\ alive
    /\ Accepts(i)
    /\ AbsorbControls
    /\ alive' = ~ BranchQueueCrashes(i)
    /\ mstate' = [mstate EXCEPT ![i] = "ready"]
    /\ CopyToHead(i, l)
    /\ fifo' = Append(fifo, i)
    /\ mfd' = WriteEvent(mfd)
    /\ UNCHANGED <<dstate, dcur, dfd>>

(* spassthrough_queue_output(), EAGAIN: the controls are absorbed anyway.  *)
RefuseOutput(i) ==
    /\ alive
    /\ ~ Accepts(i)
    /\ AbsorbControls
    /\ alive' = ~ BranchQueueCrashes(i)
    /\ UNCHANGED <<mainVars, dupVars>>

(* A frame is handed to the dup side unless the mode found on entry says   *)
(* DRYRUN; a shot ends with the attempt.                                   *)
HandsOver == HasDup /\ "DRYRUN" \notin mode
(* Mutants of AfterShot: DRYRUN is not put back, a shot never ends.        *)
ShotWithoutDryrun == mode \ {"SHOOTING"}
ShotForEver == mode
AfterShot == IF "SHOOTING" \in mode
             THEN (mode \ {"SHOOTING"}) \cup {"DRYRUN"}
             ELSE mode

EndShot ==
    /\ mode' = AfterShot
    /\ dry' = (dry \/ "DRYRUN" \in AfterShot)
    /\ alive' = ~ BranchDequeueCrashes
    /\ UNCHANGED <<period, ctlVars>>

(* The oldest buffer of the main side, if any, is ready.                   *)
Available == fifo # << >> /\ mstate[Head(fifo)] = "ready"

(* spassthrough_dequeue_output(), success: the oldest buffer goes back     *)
(* upstream.                                                               *)
DequeueOutput ==
    /\ alive
    /\ Available
    /\ HandsOver => dstate[dcur] = "queued"
    /\ EndShot
    /\ IF HandsOver
       THEN /\ dstate' = [dstate EXCEPT ![dcur] = "ready"]
            /\ dfd' = WriteEvent(dfd)
            /\ granted' = FALSE
       ELSE UNCHANGED <<dstate, dfd, granted>>
    /\ mstate' = [mstate EXCEPT ![Head(fifo)] = "dequeued"]
    /\ fifo' = Tail(fifo)
    /\ mfd' = ReadEvent(mfd)
    /\ UNCHANGED <<mlen, dmem, dlen, dcur>>

(* spassthrough_dequeue_output(), EAGAIN because the head of the ring is   *)
(* not queued.  A shot is over all the same.                               *)
DequeueOutputBusy ==
    /\ alive
    /\ Available
    /\ HandsOver
    /\ dstate[dcur] # "queued"
    /\ EndShot
    /\ UNCHANGED <<mainVars, dupVars, granted>>

-----------------------------------------------------------------------------
(* The dup side *)

(* Mutant of NextSlot: the head of the ring does not move.                 *)
SameSlot == dcur
NextSlot == (dcur + 1) % NBuffers    \* buffer->next

(* spassthrough_dequeue_input(), success: buffer dcur is handed out.       *)
DequeueInput ==
    /\ alive
    /\ dstate[dcur] = "ready"
    /\ dstate' = [dstate EXCEPT ![dcur] = "dequeued"]
    /\ dcur' = NextSlot
    /\ dfd' = ReadEvent(dfd)
    /\ UNCHANGED <<dmem, dlen, mainVars, modeVars, ctlVars>>

(* spassthrough_queue_input(), buffer accepted.                            *)
QueueInput(i) ==
    /\ alive
    /\ dstate[i] = "dequeued"
    /\ dstate' = [dstate EXCEPT ![i] = "queued"]
    /\ UNCHANGED <<dmem, dlen, dcur, dfd, mainVars, modeVars, ctlVars>>

-----------------------------------------------------------------------------
(* The settings process: _passthrough_loadstate() on the shared word.      *)

(* `controls->state |= bit' and `controls->state &= ~bit' read the word... *)
SettingsRead ==
    /\ spc = "idle" /\ Requests # {}
    /\ spc' = "write"
    /\ snap' = ctl
    /\ UNCHANGED <<mainVars, dupVars, modeVars, ctl, ctlperiod>>

(* ... and write it back.                                                  *)
SettingsWrite(bit, on) ==
    /\ spc = "write"
    /\ spc' = "idle"
    /\ snap' = {}
    /\ ctl' = IF on THEN snap \cup {bit} ELSE snap \ {bit}
    /\ UNCHANGED <<mainVars, dupVars, modeVars, ctlperiod>>

SettingsPeriodic(p) ==
    /\ spc = "idle"
    /\ ctlperiod' = p
    /\ UNCHANGED <<mainVars, dupVars, modeVars, ctl, spc, snap>>

-----------------------------------------------------------------------------
MainSide == \/ \E i \in Buffers, l \in Lengths : QueueOutput(i, l)
            \/ \E i \in Buffers : RefuseOutput(i)
            \/ DequeueOutput
            \/ DequeueOutputBusy

DupSide == \/ DequeueInput
           \/ \E i \in Buffers : QueueInput(i)

Settings == \/ SettingsRead
            \/ \E bit \in Requests, on \in BOOLEAN : SettingsWrite(bit, on)
            \/ \E p \in Periods : SettingsPeriodic(p)

Next == MainSide \/ DupSide \/ Settings

Spec == Init /\ [][Next]_vars

-----------------------------------------------------------------------------
(* Properties *)


(* Every variable has its type.                                            *)
TypeOK ==
    /\ mstate \in [Buffers -> {"dequeued", "ready"}]
    /\ mlen \in [Buffers -> MaybeLength]
    /\ fifo \in Seq(Buffers)
    /\ mfd \in Nat
    /\ dstate \in [Buffers -> {"queued", "ready", "dequeued"}]
    /\ dmem \in [Buffers -> Buffers \cup {NoBuffer}]
    /\ dlen \in [Buffers -> MaybeLength]
    /\ dcur \in Buffers
    /\ dfd \in Nat
    /\ mode \in SUBSET Modes
    /\ period \in 0 .. CounterWrap - 1
    /\ ctl \in SUBSET Requests
    /\ ctlperiod \in Periods
    /\ spc \in {"idle", "write"}
    /\ snap \in SUBSET Requests
    /\ alive \in BOOLEAN
    /\ dry \in BOOLEAN
    /\ granted \in BOOLEAN

(* The linked list walked by queue_output (spassthrough.c:668-674) holds    *)
(* exactly the buffers in state ready, each once: a buffer linked twice     *)
(* would close the list on itself and the walk to its tail would never end, *)
(* a ready buffer out of the list would never return to the camera.         *)
FifoExact ==
    /\ \A b \in Buffers : mstate[b] = "ready" <=> \E n \in 1 .. Len(fifo) : fifo[n] = b
    /\ \A m, n \in 1 .. Len(fifo) : fifo[m] = fifo[n] => m = n

(* On the dup side only the head of the ring can be ready, and the eventfd  *)
(* that wakes the main loop is readable exactly when it is: no wakeup is    *)
(* lost and none is spurious, although dequeue_input reads the whole count. *)
DupWakes ==
    /\ \A b \in Buffers : dstate[b] = "ready" => b = dcur
    /\ dfd > 0 <=> dstate[dcur] = "ready"

(* The main side does lose wakeups: dequeue_output clears the count with    *)
(* buffers still in the FIFO.  But the count is never positive with nothing *)
(* to take, and when the device holds every buffer, so that no call from    *)
(* upstream can come, the eventfd is readable: the pipeline does not freeze.*)
MainWakes ==
    /\ mfd > 0 => fifo # << >>
    /\ (\A b \in Buffers : mstate[b] = "ready") => mfd > 0

(* Once DRYRUN has been in force, the device is out of it only while a shot *)
(* granted by the controls is under way.                                    *)
DryUnlessShot ==
    dry /\ "DRYRUN" \notin mode => "SHOOTING" \in mode /\ granted

(* A step that hands a frame to the dup side.                               *)
FrameHandedOver == dstate[dcur] = "queued" /\ dstate'[dcur] = "ready"

(* After the first DRYRUN, each frame handed over has its own shot: two     *)
(* frames never pass on one grant, whatever the interleaving of the queue   *)
(* and dequeue calls, of busy answers and of the settings process.          *)
OneFramePerShot ==
    [][FrameHandedOver /\ dry => granted /\ ~ granted']_vars
=============================================================================
