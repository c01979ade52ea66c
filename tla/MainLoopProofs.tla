--------------------------- MODULE MainLoopProofs ---------------------------
(***************************************************************************)
(* Proofs about Passthrough and MainLoop, for any number of buffers, any    *)
(* lengths, any bound on the relays of a leg and any settings.  The         *)
(* invariants of Passthrough are proved together: their conjunction IInv is *)
(* inductive.  Then the loop calls the passthrough as Passthrough allows,   *)
(* so that its theorems hold in the pipes; no buffer lent to the sink is    *)
(* lost or queued twice, and none of the camera; when no frame is discarded *)
(* the sink is given the index of the right one.                            *)
(***************************************************************************)
EXTENDS MainLoop, QueueLemmas, SequenceTheorems

-----------------------------------------------------------------------------
(* The passthrough alone *)

(* The inductive invariant.  DupWakes needs its own first part (only the    *)
(* head is ready) to know that the next head is not; OneFramePerShot needs  *)
(* DryUnlessShot: a frame that passes while dry has a shot under way.       *)
IInv == TypeOK /\ FifoExact /\ DupWakes /\ MainWakes /\ DryUnlessShot

(* The next head of the ring is a buffer.                                   *)
LEMMA RingNext == dcur \in Buffers => NextSlot \in Buffers
  BY NBuffersAssumption DEF Buffers, NextSlot

(* Buffer 0 exists.                                                         *)
LEMMA FirstBuffer == 0 \in Buffers
  BY NBuffersAssumption DEF Buffers

(* The counter of frames stays in its width.                                *)
LEMMA PeriodWraps ==
    /\ 0 \in 0 .. CounterWrap - 1
    /\ period \in 0 .. CounterWrap - 1 => NextPeriod \in 0 .. CounterWrap - 1
  BY WrapAssumption DEF NextPeriod

(* What the controls leave in dev->state is a set of modes.                 *)
LEMMA AbsorbedIsModes ==
    mode \in SUBSET Modes /\ ctl \in SUBSET Requests => Absorbed \in SUBSET Modes
  BY RequestsAssumption DEF Absorbed, Requested, ShotBegins, Modes

(* spassthrough_start() establishes the invariant.                          *)
LEMMA InitInv == Init => IInv
<1> SUFFICES ASSUME Init PROVE IInv
  OBVIOUS
<1>1. TypeOK
  <2>1. mode \in SUBSET Modes /\ ctl \in SUBSET Requests
    BY RequestsAssumption DEF Init, Modes
  <2>2. fifo \in Seq(Buffers)
    BY DEF Init
  <2>3. /\ mlen \in [Buffers -> MaybeLength] /\ dlen \in [Buffers -> MaybeLength]
        /\ dmem \in [Buffers -> Buffers \cup {NoBuffer}]
    BY DEF Init, MaybeLength
  <2> QED
    BY <2>1, <2>2, <2>3, FirstBuffer, PeriodWraps DEF Init, TypeOK
<1>2. FifoExact
  BY DEF Init, FifoExact
<1>3. DupWakes
  BY FirstBuffer DEF Init, DupWakes
<1>4. MainWakes
  BY FirstBuffer DEF Init, MainWakes
<1>5. DryUnlessShot
  BY DEF Init, DryUnlessShot
<1> QED
  BY <1>1, <1>2, <1>3, <1>4, <1>5 DEF IInv

(* A call of queue_output() with an accepted buffer.                        *)
LEMMA QueueOutputInv ==
  ASSUME IInv, NEW i \in Buffers, NEW l \in Lengths, QueueOutput(i, l)
  PROVE  IInv'
<1> USE DEF IInv
<1>1. TypeOK'
  <2>1. mode' \in SUBSET Modes
    BY AbsorbedIsModes DEF QueueOutput, AbsorbControls, TypeOK
  <2>2. period' \in 0 .. CounterWrap - 1
    BY PeriodWraps DEF QueueOutput, AbsorbControls, TypeOK
  <2>3. fifo' \in Seq(Buffers) /\ mfd' \in Nat
    BY DEF QueueOutput, WriteEvent, TypeOK
  <2>4. /\ mlen' \in [Buffers -> MaybeLength]
        /\ dlen' \in [Buffers -> MaybeLength]
        /\ dmem' \in [Buffers -> Buffers \cup {NoBuffer}]
    <3>1. NewLength(i, l) \in MaybeLength
      BY DEF NewLength, MaybeLength, TypeOK
    <3> QED
      BY <3>1 DEF QueueOutput, CopyToHead, TypeOK
  <2>5. alive' \in BOOLEAN /\ dry' \in BOOLEAN /\ granted' \in BOOLEAN
    BY SidesAssumption
       DEF QueueOutput, AbsorbControls, TypeOK, BranchQueueCrashes, ShotBegins
  <2>6. mstate' \in [Buffers -> {"dequeued", "ready"}]
    BY DEF QueueOutput, TypeOK
  <2>7. ctl' \in SUBSET Requests
    BY DEF QueueOutput, AbsorbControls
  <2> QED
    BY <2>1, <2>2, <2>3, <2>4, <2>5, <2>6, <2>7
       DEF QueueOutput, AbsorbControls, TypeOK
<1>2. FifoExact'
  <2> DEFINE k == Len(fifo)
  <2>1. /\ fifo \in Seq(Buffers) /\ k \in Nat
        /\ fifo' = Append(fifo, i)
        /\ mstate' = [mstate EXCEPT ![i] = "ready"]
        /\ mstate[i] # "ready"
        /\ mstate \in [Buffers -> {"dequeued", "ready"}]
    BY DEF QueueOutput, Accepts, TypeOK
  <2>2. Len(fifo') = k + 1 /\ fifo'[k + 1] = i
        /\ \A n \in 1 .. k : fifo'[n] = fifo[n]
    BY <2>1
  <2>3. \A n \in 1 .. k : fifo[n] # i
    BY <2>1 DEF FifoExact
  <2>4. \A m, n \in 1 .. k + 1 : fifo'[m] = fifo'[n] => m = n
    BY <2>1, <2>2, <2>3 DEF FifoExact
  <2>5. ASSUME NEW b \in Buffers
        PROVE  mstate'[b] = "ready" <=> \E n \in 1 .. k + 1 : fifo'[n] = b
    <3>1. CASE b = i
      BY <2>1, <2>2, <3>1
    <3>2. CASE b # i
      BY <2>1, <2>2, <3>2 DEF FifoExact
    <3> QED
      BY <3>1, <3>2
  <2> QED
    BY <2>2, <2>4, <2>5 DEF FifoExact
<1>3. DupWakes'
  BY DEF QueueOutput, DupWakes
<1>4. MainWakes'
  BY DEF QueueOutput, WriteEvent, MainWakes, TypeOK
<1>5. DryUnlessShot'
  BY DEF QueueOutput, AbsorbControls, Absorbed, Requested, ShotBegins,
         DryUnlessShot
<1> QED
  BY <1>1, <1>2, <1>3, <1>4, <1>5

(* A refused call of queue_output(): only the modes change.                 *)
LEMMA RefuseOutputInv ==
  ASSUME IInv, NEW i \in Buffers, RefuseOutput(i)
  PROVE  IInv'
<1> USE DEF IInv
<1>1. TypeOK'
  <2>1. mode' \in SUBSET Modes
    BY AbsorbedIsModes DEF RefuseOutput, AbsorbControls, TypeOK
  <2>2. period' \in 0 .. CounterWrap - 1
    BY PeriodWraps DEF RefuseOutput, AbsorbControls, TypeOK
  <2>3. alive' \in BOOLEAN /\ dry' \in BOOLEAN /\ granted' \in BOOLEAN
    BY SidesAssumption
       DEF RefuseOutput, AbsorbControls, TypeOK, BranchQueueCrashes, ShotBegins
  <2>4. ctl' \in SUBSET Requests
    BY DEF RefuseOutput, AbsorbControls
  <2> QED
    BY <2>1, <2>2, <2>3, <2>4
       DEF RefuseOutput, AbsorbControls, mainVars, dupVars, TypeOK
<1>2. FifoExact' /\ DupWakes' /\ MainWakes'
  BY DEF RefuseOutput, mainVars, dupVars, FifoExact, DupWakes, MainWakes
<1>3. DryUnlessShot'
  BY DEF RefuseOutput, AbsorbControls, Absorbed, Requested, ShotBegins,
         DryUnlessShot
<1> QED
  BY <1>1, <1>2, <1>3

(* The modes after a dequeue_output(), whether it succeeds or not.          *)
LEMMA EndShotInv ==
  ASSUME IInv, EndShot,
         UNCHANGED granted \/ "DRYRUN" \in mode' \/ ~ dry'
  PROVE  mode' \in SUBSET Modes /\ DryUnlessShot'
<1>1. mode' \in SUBSET Modes
  BY DEF EndShot, AfterShot, IInv, TypeOK, Modes
<1>2. DryUnlessShot'
  BY DEF EndShot, AfterShot, IInv, DryUnlessShot
<1> QED
  BY <1>1, <1>2

(* A successful dequeue_output().                                           *)
LEMMA DequeueOutputInv ==
  ASSUME IInv, DequeueOutput
  PROVE  IInv'
<1> USE DEF IInv
<1> DEFINE k == Len(fifo)
           h == Head(fifo)
<1>1. /\ fifo \in Seq(Buffers) /\ k \in Nat \ {0}
      /\ h = fifo[1] /\ h \in Buffers
      /\ fifo' = Tail(fifo) /\ fifo' \in Seq(Buffers)
      /\ Len(fifo') = k - 1
      /\ \A n \in 1 .. k - 1 : fifo'[n] = fifo[n + 1]
  BY DEF DequeueOutput, Available, TypeOK
<1>2. dry' /\ HandsOver => "DRYRUN" \in mode'
  BY DEF DequeueOutput, EndShot, AfterShot, HandsOver, DryUnlessShot
<1>3. mode' \in SUBSET Modes /\ DryUnlessShot'
  <2>1. UNCHANGED granted \/ "DRYRUN" \in mode' \/ ~ dry'
    BY <1>2 DEF DequeueOutput
  <2> QED
    BY <2>1, EndShotInv DEF DequeueOutput
<1>4. TypeOK'
  <2>1. /\ mstate' \in [Buffers -> {"dequeued", "ready"}]
        /\ mfd' \in Nat
    BY <1>1 DEF DequeueOutput, ReadEvent, TypeOK
  <2>2. /\ dstate' \in [Buffers -> {"queued", "ready", "dequeued"}]
        /\ dfd' \in Nat
        /\ granted' \in BOOLEAN
    <3>1. CASE HandsOver
      <4>1. /\ dstate' \in [Buffers -> {"queued", "ready", "dequeued"}]
            /\ dfd' \in Nat
        BY <3>1 DEF DequeueOutput, WriteEvent, TypeOK
      <4>2. granted' = FALSE
        BY <3>1, Zenon DEF DequeueOutput
      <4> QED
        BY <4>1, <4>2, Zenon
    <3>2. CASE ~ HandsOver
      BY <3>2 DEF DequeueOutput, TypeOK
    <3> QED
      BY <3>1, <3>2
  <2>3. alive' \in BOOLEAN /\ dry' \in BOOLEAN
    BY SidesAssumption
       DEF DequeueOutput, EndShot, TypeOK, BranchDequeueCrashes
  <2> QED
    BY <1>1, <1>3, <2>1, <2>2, <2>3
       DEF DequeueOutput, EndShot, ctlVars, TypeOK
<1>5. FifoExact'
  <2>1. mstate' = [mstate EXCEPT ![h] = "dequeued"]
        /\ mstate \in [Buffers -> {"dequeued", "ready"}]
    BY DEF DequeueOutput, TypeOK
  <2>2. \A m, n \in 1 .. k - 1 : fifo'[m] = fifo'[n] => m = n
    BY <1>1 DEF FifoExact
  <2>3. ASSUME NEW b \in Buffers
        PROVE  mstate'[b] = "ready" <=> \E n \in 1 .. k - 1 : fifo'[n] = b
    <3>1. CASE b = h
      <4>1. \A n \in 1 .. k - 1 : fifo'[n] # h
        BY <1>1 DEF FifoExact
      <4> QED
        BY <1>1, <2>1, <3>1, <4>1
    <3>2. CASE b # h
      <4>1. mstate'[b] = mstate[b]
        BY <2>1, <3>2
      <4>2. ASSUME NEW n \in 1 .. k, fifo[n] = b
            PROVE  n - 1 \in 1 .. k - 1 /\ fifo'[n - 1] = b
        BY <1>1, <3>2, <4>2
      <4>3. ASSUME NEW n \in 1 .. k - 1, fifo'[n] = b
            PROVE  n + 1 \in 1 .. k /\ fifo[n + 1] = b
        BY <1>1, <4>3
      <4> QED
        BY <4>1, <4>2, <4>3 DEF FifoExact
    <3> QED
      BY <3>1, <3>2
  <2> QED
    BY <1>1, <2>2, <2>3 DEF FifoExact
<1>6. DupWakes'
  BY DEF DequeueOutput, WriteEvent, DupWakes, TypeOK
<1>7. MainWakes'
  BY <1>1 DEF DequeueOutput, ReadEvent, MainWakes, TypeOK
<1> QED
  BY <1>3, <1>4, <1>5, <1>6, <1>7

(* A dequeue_output() that finds the head of the ring busy.                 *)
LEMMA DequeueOutputBusyInv ==
  ASSUME IInv, DequeueOutputBusy
  PROVE  IInv'
<1> USE DEF IInv
<1>1. mode' \in SUBSET Modes /\ DryUnlessShot'
  BY EndShotInv DEF DequeueOutputBusy
<1>2. alive' \in BOOLEAN /\ dry' \in BOOLEAN
  BY SidesAssumption
     DEF DequeueOutputBusy, EndShot, TypeOK, BranchDequeueCrashes
<1>3. TypeOK'
  BY <1>1, <1>2
     DEF DequeueOutputBusy, EndShot, mainVars, dupVars, ctlVars, TypeOK
<1>4. FifoExact' /\ DupWakes' /\ MainWakes'
  BY DEF DequeueOutputBusy, mainVars, dupVars, FifoExact, DupWakes, MainWakes
<1> QED
  BY <1>1, <1>3, <1>4

(* A successful dequeue_input(): the head of the ring moves.                *)
LEMMA DequeueInputInv ==
  ASSUME IInv, DequeueInput
  PROVE  IInv'
<1> USE DEF IInv
<1>1. dcur' \in Buffers
  BY RingNext DEF DequeueInput, TypeOK
<1>2. TypeOK'
  BY <1>1 DEF DequeueInput, ReadEvent, mainVars, modeVars, ctlVars, TypeOK
<1>3. DupWakes'
  <2>1. \A b \in Buffers : dstate'[b] # "ready"
    BY DEF DequeueInput, DupWakes, TypeOK
  <2> QED
    BY <1>1, <2>1 DEF DequeueInput, ReadEvent, DupWakes
<1>4. FifoExact' /\ MainWakes' /\ DryUnlessShot'
  BY DEF DequeueInput, mainVars, modeVars, FifoExact, MainWakes, DryUnlessShot
<1> QED
  BY <1>2, <1>3, <1>4

(* A successful queue_input(): any buffer the dup side has lent.            *)
LEMMA QueueInputInv ==
  ASSUME IInv, NEW i \in Buffers, QueueInput(i)
  PROVE  IInv'
<1> USE DEF IInv
<1>1. TypeOK'
  BY DEF QueueInput, mainVars, modeVars, ctlVars, TypeOK
<1>2. DupWakes'
  BY DEF QueueInput, DupWakes, TypeOK
<1>3. FifoExact' /\ MainWakes' /\ DryUnlessShot'
  BY DEF QueueInput, mainVars, modeVars, FifoExact, MainWakes, DryUnlessShot
<1> QED
  BY <1>1, <1>2, <1>3

(* The settings process touches nothing but the shared words.               *)
LEMMA SettingsInv ==
  ASSUME IInv, Settings
  PROVE  IInv'
<1> USE DEF IInv
<1>1. UNCHANGED <<mainVars, dupVars, modeVars>>
  BY DEF Settings, SettingsRead, SettingsWrite, SettingsPeriodic
<1>2. TypeOK'
  <2>1. CASE SettingsRead
    BY <1>1, <2>1 DEF SettingsRead, mainVars, dupVars, modeVars, TypeOK
  <2>2. ASSUME NEW bit \in Requests, NEW on \in BOOLEAN,
               SettingsWrite(bit, on)
        PROVE  TypeOK'
    BY <1>1, <2>2 DEF SettingsWrite, mainVars, dupVars, modeVars, TypeOK
  <2>3. ASSUME NEW p \in Periods, SettingsPeriodic(p)
        PROVE  TypeOK'
    BY <1>1, <2>3 DEF SettingsPeriodic, mainVars, dupVars, modeVars, TypeOK
  <2> QED
    BY <2>1, <2>2, <2>3 DEF Settings
<1>3. FifoExact' /\ DupWakes' /\ MainWakes' /\ DryUnlessShot'
  BY <1>1 DEF mainVars, dupVars, modeVars, FifoExact, DupWakes, MainWakes,
              DryUnlessShot
<1> QED
  BY <1>2, <1>3

(* A step that changes no variable.                                         *)
LEMMA StutterInv == IInv /\ UNCHANGED vars => IInv'
  BY DEF vars, mainVars, dupVars, modeVars, ctlVars, IInv, TypeOK, FifoExact,
         DupWakes, MainWakes, DryUnlessShot

(* The invariant is inductive.                                              *)
LEMMA NextInv == IInv /\ [Next]_vars => IInv'
<1> SUFFICES ASSUME IInv, [Next]_vars PROVE IInv'
  OBVIOUS
<1>1. ASSUME NEW i \in Buffers, NEW l \in Lengths, QueueOutput(i, l)
      PROVE  IInv'
  BY <1>1, QueueOutputInv
<1>2. ASSUME NEW i \in Buffers, RefuseOutput(i) PROVE IInv'
  BY <1>2, RefuseOutputInv
<1>3. CASE DequeueOutput
  BY <1>3, DequeueOutputInv
<1>4. CASE DequeueOutputBusy
  BY <1>4, DequeueOutputBusyInv
<1>5. CASE DequeueInput
  BY <1>5, DequeueInputInv
<1>6. ASSUME NEW i \in Buffers, QueueInput(i) PROVE IInv'
  BY <1>6, QueueInputInv
<1>7. CASE Settings
  BY <1>7, SettingsInv
<1>8. CASE UNCHANGED vars
  BY <1>8, StutterInv
<1> QED
  BY <1>1, <1>2, <1>3, <1>4, <1>5, <1>6, <1>7, <1>8 DEF Next, MainSide, DupSide

-----------------------------------------------------------------------------
(* The inductive invariant holds in every reachable state of the device,    *)
(* with any number of buffers.                                              *)
THEOREM Invariance == Spec => []IInv
<1>1. Init => IInv
  BY InitInv
<1>2. IInv /\ [Next]_vars => IInv'
  BY NextInv
<1> QED
  BY <1>1, <1>2, PTL DEF Spec

(* Every variable keeps its type.                                           *)
THEOREM TypeCorrect == Spec => []TypeOK
<1>1. IInv => TypeOK
  BY DEF IInv
<1> QED
  BY <1>1, Invariance, PTL

(* The FIFO walked by queue_output() holds the ready buffers, each once: it *)
(* never closes on itself and loses none.                                   *)
THEOREM FifoCorrect == Spec => []FifoExact
<1>1. IInv => FifoExact
  BY DEF IInv
<1> QED
  BY <1>1, Invariance, PTL

(* Out of DRYRUN, once it was in force, only for a shot the controls granted.*)
THEOREM DryCorrect == Spec => []DryUnlessShot
<1>1. IInv => DryUnlessShot
  BY DEF IInv
<1> QED
  BY <1>1, Invariance, PTL

(* The wakeups of the dup side are exact: its eventfd counts its ready       *)
(* buffers and nothing else.                                                *)
THEOREM DupWakesCorrect == Spec => []DupWakes
<1>1. IInv => DupWakes
  BY DEF IInv
<1> QED
  BY <1>1, Invariance, PTL

(* The wakeups of the main side are never spurious, and never lost when it   *)
(* holds every buffer.                                                      *)
THEOREM WakesCorrect == Spec => []MainWakes
<1>1. IInv => MainWakes
  BY DEF IInv
<1> QED
  BY <1>1, Invariance, PTL

(* A step hands over a frame only by dequeue_output().                      *)
LEMMA HandedOverByDequeue ==
  ASSUME IInv, [Next]_vars, FrameHandedOver
  PROVE  DequeueOutput /\ HandsOver
<1> USE DEF IInv
<1>1. ASSUME NEW i \in Buffers, NEW l \in Lengths, QueueOutput(i, l)
      PROVE  FALSE
  BY <1>1 DEF QueueOutput, FrameHandedOver
<1>2. ASSUME NEW i \in Buffers, RefuseOutput(i) PROVE FALSE
  BY <1>2 DEF RefuseOutput, dupVars, FrameHandedOver
<1>3. CASE DequeueOutputBusy
  BY <1>3 DEF DequeueOutputBusy, dupVars, FrameHandedOver
<1>4. CASE DequeueInput
  BY <1>4 DEF DequeueInput, FrameHandedOver, TypeOK
<1>5. ASSUME NEW i \in Buffers, QueueInput(i) PROVE FALSE
  BY <1>5 DEF QueueInput, FrameHandedOver, TypeOK
<1>6. CASE Settings
  BY <1>6 DEF Settings, SettingsRead, SettingsWrite, SettingsPeriodic,
              dupVars, FrameHandedOver
<1>7. CASE UNCHANGED vars
  BY <1>7 DEF vars, dupVars, FrameHandedOver
<1>8. CASE DequeueOutput
  BY <1>8 DEF DequeueOutput, FrameHandedOver
<1> QED
  BY <1>1, <1>2, <1>3, <1>4, <1>5, <1>6, <1>7, <1>8 DEF Next, MainSide, DupSide

(* After the first DRYRUN, each frame handed over consumes a shot of its    *)
(* own.                                                                     *)
THEOREM OneFrameEachShot == Spec => OneFramePerShot
<1>1. ASSUME IInv, [Next]_vars
      PROVE  [FrameHandedOver /\ dry => granted /\ ~ granted']_vars
  <2> SUFFICES ASSUME FrameHandedOver, dry PROVE granted /\ ~ granted'
    OBVIOUS
  <2>1. DequeueOutput /\ HandsOver
    BY <1>1, HandedOverByDequeue
  <2> QED
    BY <1>1, <2>1 DEF DequeueOutput, HandsOver, IInv, DryUnlessShot
<1> QED
  BY <1>1, Invariance, PTL DEF Spec, OneFramePerShot

-----------------------------------------------------------------------------
(* The passthrough in the loop *)

(* A buffer is in the hand of the loop between a dequeue and a queue.       *)
HandOK == pc \in {"queue", "giveback"} => hand \in Buffers

(* What the camera gives has the length of a frame.                         *)
FilledOK ==
    /\ \A n \in 1 .. Len(cdone) : clen[cdone[n]] \in Lengths
    /\ pc = "queue" /\ leg = "camera" => clen[hand] \in Lengths

(* The inductive invariant.  HandOK and FilledOK are what makes a queue of  *)
(* the loop a step of Passthrough; IInv tells that a ready buffer of the dup*)
(* side is not lent.                                                        *)
PInv == IInv /\ PipeTypeOK /\ HandOK /\ FilledOK /\ LentToSink

(* The loop has no buffer in hand.                                          *)
Empty == pc \notin {"queue", "giveback"}

-----------------------------------------------------------------------------
(* The control of the loop *)

(* The thread goes to another leg.                                          *)
LEMMA GoToCtl ==
  ASSUME ControlTypeOK, NEW next \in Legs \cup {"end"}, GoTo(next)
  PROVE  /\ leg' \in Legs \cup {"end"} /\ drained' \in 0 .. MaxDrain - 1
         /\ hand' = NoBuffer /\ pc' \in {"dequeue", "check"}
         /\ rfds' \in SUBSET Legs
<1>1. drained' \in 0 .. MaxDrain - 1
  BY DrainAssumption DEF GoTo
<1> QED
  BY <1>1 DEF GoTo, ControlTypeOK, LoopTypeOK

(* The next leg.                                                            *)
LEMMA AdvanceCtl ==
  ControlTypeOK /\ Advance(NextLeg) => ControlTypeOK' /\ Empty'
<1> SUFFICES ASSUME ControlTypeOK, Advance(NextLeg)
             PROVE  ControlTypeOK' /\ Empty'
  OBVIOUS
<1>1. NextLeg \in Legs \cup {"end"}
  BY DEF NextLeg, Legs
<1>2. /\ leg' \in Legs \cup {"end"} /\ drained' \in 0 .. MaxDrain - 1
      /\ hand' = NoBuffer /\ pc' \in {"dequeue", "check"}
      /\ rfds' \in SUBSET Legs
  BY <1>1, GoToCtl DEF Advance
<1>3. run' = run /\ ticked' = ticked /\ broke' = broke /\ stopped' = stopped
  BY DEF Advance, endVars
<1> QED
  BY <1>2, <1>3, Zenon DEF ControlTypeOK, LoopTypeOK, Empty

(* One relay more, on this leg or not.                                      *)
LEMMA RelayedCtl ==
  ControlTypeOK /\ Relayed(NextLeg) => ControlTypeOK' /\ Empty'
<1> SUFFICES ASSUME ControlTypeOK, Relayed(NextLeg)
             PROVE  ControlTypeOK' /\ Empty'
  OBVIOUS
<1>1. CASE drained + 1 < MaxDrain
  <2>1. drained' \in 0 .. MaxDrain - 1
    BY <1>1, DrainAssumption DEF ControlTypeOK, LoopTypeOK, Relayed
  <2>2. /\ hand' = NoBuffer /\ pc' = "dequeue"
        /\ leg' = leg /\ rfds' = rfds /\ run' = run /\ endVars' = endVars
    BY <1>1 DEF Relayed
  <2> QED
    BY <2>1, <2>2, Zenon DEF ControlTypeOK, LoopTypeOK, endVars, Empty
<1>2. CASE ~ (drained + 1 < MaxDrain)
  BY <1>2, AdvanceCtl DEF Relayed
<1> QED
  BY <1>1, <1>2

(* The end of the loop.                                                     *)
LEMMA FailedCtl ==
  ControlTypeOK /\ Failed(BreakLeg, Pipe) => ControlTypeOK' /\ Empty'
<1> SUFFICES ASSUME ControlTypeOK, Failed(BreakLeg, Pipe)
             PROVE  ControlTypeOK' /\ Empty'
  OBVIOUS
<1>1. BreakLeg \in Legs \cup {"end"}
  BY DEF BreakLeg, Legs
<1>2. /\ leg' \in Legs \cup {"end"} /\ drained' \in 0 .. MaxDrain - 1
      /\ hand' = NoBuffer /\ pc' \in {"dequeue", "check"}
      /\ rfds' \in SUBSET Legs
  BY <1>1, GoToCtl DEF Failed
<1>3. /\ run' \in BOOLEAN /\ ticked' = ticked /\ stopped' = stopped
      /\ broke' \in Pipes \cup {0}
  BY DEF Failed, ControlTypeOK, LoopTypeOK, Pipe, Pipes
<1> QED
  BY <1>2, <1>3, Zenon DEF ControlTypeOK, LoopTypeOK, Empty

(* Steps that change nothing of what is lent.                               *)
LEMMA LentQuiet ==
  ASSUME LentToSink,
         \A b \in Buffers : dstate'[b] = "dequeued" <=> dstate[b] = "dequeued",
         \A b \in Buffers : sink'[b] = "app" <=> sink[b] = "app",
         Empty \/ leg \notin {"dup", "sink"},
         Empty' \/ leg' \notin {"dup", "sink"}
  PROVE  LentToSink'
  BY DEF LentToSink, InHand, Empty

(* What a step of the devices or of the settings leaves alone.              *)
LEMMA LoopStutter ==
  ASSUME PInv, UNCHANGED loopVars
  PROVE  ControlTypeOK' /\ HandOK'
  BY DEF PInv, PipeTypeOK, loopVars, iterVars, endVars, ControlTypeOK, LoopTypeOK, HandOK

(* Steps that leave the passthrough alone.                                  *)
LEMMA PassthroughStutter ==
  ASSUME PInv, UNCHANGED vars
  PROVE  [Next]_vars /\ dstate' = dstate
  BY DEF vars, dupVars

(* Where a step of Passthrough leads.                                       *)
LEMMA PassthroughStep ==
  ASSUME PInv, [Next]_vars
  PROVE  IInv' /\ TypeOK'
<1>1. IInv
  BY DEF PInv
<1>2. IInv'
  BY <1>1, NextInv
<1> QED
  BY <1>2 DEF IInv

-----------------------------------------------------------------------------
(* After the start of the devices.                                          *)
LEMMA PipeInitInv == PipeInit => PInv
<1> SUFFICES ASSUME PipeInit PROVE PInv
  OBVIOUS
<1>1. IInv /\ TypeOK
  BY InitInv DEF PipeInit, IInv
<1>2. CameraTypeOK
  <2>1. cqueue \in Seq(Buffers)
    BY NBuffersAssumption DEF PipeInit, CameraInit, Buffers
  <2> QED
    BY <2>1 DEF PipeInit, CameraInit, CameraTypeOK, MaybeLength
<1>3. SinkTypeOK
  BY DEF PipeInit, SinkTypeOK
<1>4. ControlTypeOK
  <2>1. drained \in 0 .. MaxDrain - 1
    BY DrainAssumption DEF PipeInit, LoopInit
  <2> QED
    BY <2>1, Zenon DEF PipeInit, LoopInit, ControlTypeOK, LoopTypeOK, Legs
<1>5. HandOK /\ FilledOK
  BY DEF PipeInit, CameraInit, LoopInit, HandOK, FilledOK
<1>6. LentToSink
  BY DEF PipeInit, LoopInit, Init, LentToSink, InHand
<1> QED
  BY <1>1, <1>2, <1>3, <1>4, <1>5, <1>6 DEF PInv, PipeTypeOK

-----------------------------------------------------------------------------
(* The parts of the invariant that most steps leave alone *)

(* A buffer is taken in hand.                                               *)
LEMMA DequeuedCtl ==
  ASSUME ControlTypeOK, NEW b \in Buffers, Dequeued(b)
  PROVE  ControlTypeOK' /\ HandOK' /\ pc' = "queue" /\ leg' = leg /\ hand' = b
<1>1. pc' = "queue" /\ leg' = leg /\ hand' = b
  BY DEF Dequeued
<1>2. ControlTypeOK'
  <2>1. drained' = drained /\ rfds' = rfds /\ run' = run /\ endVars' = endVars
    BY DEF Dequeued
  <2> QED
    BY <1>1, <2>1, Zenon DEF ControlTypeOK, LoopTypeOK, endVars
<1> QED
  BY <1>1, <1>2 DEF HandOK

(* The buffer in hand is going to be given back.                            *)
LEMMA PushBackCtl ==
  ASSUME ControlTypeOK, HandOK, pc = "queue", PushBack
  PROVE  ControlTypeOK' /\ HandOK' /\ pc' = "giveback" /\ leg' = leg /\ hand' = hand
<1>1. pc' = "giveback" /\ leg' = leg /\ hand' = hand
  BY DEF PushBack, iterVars
<1>2. ControlTypeOK'
  <2>1. drained' = drained /\ rfds' = rfds /\ run' = run /\ endVars' = endVars
    BY DEF PushBack, iterVars
  <2> QED
    BY <1>1, <2>1, Zenon DEF ControlTypeOK, LoopTypeOK, endVars
<1> QED
  BY <1>1, <1>2 DEF HandOK

(* The camera is left alone and nothing is taken from it.                   *)
LEMMA CameraQuiet ==
  ASSUME CameraTypeOK, FilledOK, UNCHANGED cameraVars,
         pc' # "queue" \/ leg' # "camera"
  PROVE  CameraTypeOK' /\ FilledOK'
  BY DEF CameraTypeOK, FilledOK, cameraVars

(* The parts make the whole.                                                *)
LEMMA PInvParts ==
  ASSUME PInv, [Next]_vars, CameraTypeOK', SinkTypeOK', ControlTypeOK', HandOK',
         FilledOK', LentToSink'
  PROVE  PInv' /\ [Next]_vars
  BY PassthroughStep DEF PInv, PipeTypeOK

(* A step of the loop's control that moves no buffer.                       *)
LEMMA ControlStep ==
  ASSUME PInv, UNCHANGED <<vars, cameraVars, sink>>, Empty, Empty', ControlTypeOK'
  PROVE  PInv' /\ [Next]_vars
<1>1. [Next]_vars /\ dstate' = dstate
  BY PassthroughStutter
<1>2. CameraTypeOK' /\ FilledOK'
  BY CameraQuiet DEF PInv, PipeTypeOK, Empty
<1>3. SinkTypeOK' /\ HandOK'
  BY DEF PInv, PipeTypeOK, SinkTypeOK, Empty, HandOK
<1>4. LentToSink'
  BY <1>1, LentQuiet DEF PInv
<1> QED
  BY <1>1, <1>2, <1>3, <1>4, PInvParts

(* A step of what is around the loop that leaves the camera alone.          *)
LEMMA AroundStep ==
  ASSUME PInv, [Next]_vars, UNCHANGED <<cameraVars, loopVars>>,
         SinkTypeOK', LentToSink'
  PROVE  PInv' /\ [Next]_vars
<1>1. ControlTypeOK' /\ HandOK'
  BY LoopStutter
<1>2. CameraTypeOK' /\ FilledOK'
  BY DEF PInv, PipeTypeOK, CameraTypeOK, FilledOK, cameraVars, loopVars, iterVars
<1> QED
  BY <1>1, <1>2, PInvParts

-----------------------------------------------------------------------------
(* The steps of the loop *)

(* The head of the loop, select(), the legs that are not tried and the end. *)
LEMMA LoopControl ==
  ASSUME PInv, Iterate \/ SkipLeg \/ DequeueCameraGone \/ DequeueNothing
  PROVE  PInv' /\ [Next]_vars
<1> USE DEF PInv, PipeTypeOK
<1>1. CASE Check /\ UNCHANGED deviceVars
  <2>1. /\ UNCHANGED <<vars, cameraVars, sink, run, iterVars, endVars>>
        /\ pc = "check" /\ pc' \in {"select", "stop"}
    BY <1>1 DEF Check, deviceVars
  <2>2. ControlTypeOK' /\ Empty /\ Empty'
    BY <2>1 DEF ControlTypeOK, LoopTypeOK, Empty, iterVars, endVars
  <2> QED
    BY <2>1, <2>2, ControlStep
<1>2. CASE Select(Readable, "camera") /\ UNCHANGED deviceVars
  <2>1. /\ UNCHANGED <<vars, cameraVars, sink, run, drained, hand, broke, stopped>>
        /\ pc = "select" /\ pc' \in {"check", "dequeue"}
        /\ ticked' = FALSE /\ leg' \in {leg, "camera"} /\ rfds' = Readable
    BY <1>2 DEF Select, deviceVars
  <2>2. Readable \in SUBSET Legs /\ leg' \in Legs \cup {"end"}
    BY <2>1 DEF Readable, Legs, ControlTypeOK, LoopTypeOK
  <2>3. ControlTypeOK' /\ Empty /\ Empty'
    BY <2>1, <2>2, Zenon DEF ControlTypeOK, LoopTypeOK, Empty
  <2> QED
    BY <2>1, <2>3, ControlStep
<1>3. CASE SkipLeg \/ DequeueNothing
  <2>1. UNCHANGED <<vars, cameraVars, sink>> /\ Empty /\ Advance(NextLeg)
    BY <1>3 DEF SkipLeg, DequeueNothing, Trying, Empty, deviceVars
  <2> QED
    BY <2>1, AdvanceCtl, ControlStep
<1>4. CASE Stop(Pipes) /\ UNCHANGED deviceVars
  <2>1. /\ UNCHANGED <<vars, cameraVars, sink, run, iterVars, ticked, broke>>
        /\ pc = "stop" /\ pc' = "exit" /\ stopped' \in SUBSET Pipes
    BY <1>4 DEF Stop, deviceVars
  <2>2. ControlTypeOK' /\ Empty /\ Empty'
    BY <2>1 DEF ControlTypeOK, LoopTypeOK, Empty, iterVars
  <2> QED
    BY <2>1, <2>2, ControlStep
<1>5. CASE DequeueCameraGone
  <2>1. UNCHANGED <<vars, cameraVars, sink>> /\ Empty /\ Failed(BreakLeg, Pipe)
    BY <1>5 DEF DequeueCameraGone, Trying, Empty, deviceVars
  <2> QED
    BY <2>1, FailedCtl, ControlStep
<1> QED
  BY <1>1, <1>2, <1>3, <1>4, <1>5 DEF Iterate

(* A frame is taken from the camera.                                        *)
LEMMA DequeueCameraInv ==
  ASSUME PInv, DequeueCamera PROVE PInv' /\ [Next]_vars
<1> USE DEF PInv, PipeTypeOK
<1> DEFINE h == Head(cdone)
           k == Len(cdone)
<1>1. /\ cdone \in Seq(Buffers) /\ k \in Nat \ {0} /\ h = cdone[1] /\ h \in Buffers
      /\ cdone' \in Seq(Buffers) /\ Len(cdone') = k - 1
      /\ \A n \in 1 .. k - 1 : cdone'[n] = cdone[n + 1]
  BY DEF DequeueCamera, DequeueFrame, CameraHasFrame, CameraTypeOK
<1>2. /\ UNCHANGED <<vars, camera, cqueue, clen, sink>>
      /\ leg = "camera" /\ pc = "dequeue" /\ Dequeued(h)
  BY DEF DequeueCamera, DequeueFrame, Trying
<1>3. ControlTypeOK' /\ HandOK' /\ pc' = "queue" /\ leg' = leg /\ hand' = h
  BY <1>1, <1>2, DequeuedCtl
<1>4. CameraTypeOK' /\ SinkTypeOK'
  BY <1>1, <1>2 DEF CameraTypeOK, SinkTypeOK
<1>5. FilledOK'
  <2>1. \A n \in 1 .. k : clen[cdone[n]] \in Lengths
    BY DEF FilledOK
  <2>2. clen[h] \in Lengths
    BY <1>1, <2>1
  <2>3. \A n \in 1 .. k - 1 : clen[cdone'[n]] \in Lengths
    BY <1>1, <2>1
  <2> QED
    BY <1>1, <1>2, <1>3, <2>2, <2>3 DEF FilledOK
<1>6. [Next]_vars /\ dstate' = dstate
  BY <1>2, PassthroughStutter
<1>7. LentToSink'
  BY <1>2, <1>3, <1>6, LentQuiet
<1> QED
  BY <1>3, <1>4, <1>5, <1>6, <1>7, PInvParts

(* A frame is taken from the dup side.                                      *)
LEMMA DequeueDupInv ==
  ASSUME PInv, DequeueDup PROVE PInv' /\ [Next]_vars
<1> USE DEF PInv, PipeTypeOK
<1>1. /\ dcur \in Buffers /\ dstate \in [Buffers -> {"queued", "ready", "dequeued"}]
      /\ dstate[dcur] = "ready" /\ dstate' = [dstate EXCEPT ![dcur] = "dequeued"]
      /\ UNCHANGED <<cameraVars, sink>>
      /\ leg = "dup" /\ pc = "dequeue" /\ Dequeued(dcur)
  BY DEF DequeueDup, DequeueInput, Trying, TypeOK
<1>2. ControlTypeOK' /\ HandOK' /\ pc' = "queue" /\ leg' = leg /\ hand' = dcur
  BY <1>1, DequeuedCtl
<1>3. CameraTypeOK' /\ FilledOK' /\ SinkTypeOK'
  BY <1>1, <1>2, CameraQuiet DEF SinkTypeOK
<1>4. LentToSink'
  BY <1>1, <1>2 DEF LentToSink, InHand
<1>5. [Next]_vars
  BY DEF DequeueDup, Next, DupSide
<1> QED
  BY <1>2, <1>3, <1>4, <1>5, PInvParts

(* A buffer is taken back from the sink.                                    *)
LEMMA DequeueSinkInv ==
  ASSUME PInv, NEW b \in Buffers, DequeueSink(b) PROVE PInv' /\ [Next]_vars
<1> USE DEF PInv, PipeTypeOK
<1>1. /\ sink[b] = "done" /\ sink' = [sink EXCEPT ![b] = "app"]
      /\ UNCHANGED <<vars, cameraVars>>
      /\ leg = "sink" /\ pc = "dequeue" /\ Dequeued(b)
  BY DEF DequeueSink, Trying
<1>2. ControlTypeOK' /\ HandOK' /\ pc' = "queue" /\ leg' = leg /\ hand' = b
  BY <1>1, DequeuedCtl
<1>3. CameraTypeOK' /\ FilledOK' /\ SinkTypeOK'
  BY <1>1, <1>2, CameraQuiet DEF SinkTypeOK
<1>4. [Next]_vars /\ dstate' = dstate
  BY <1>1, PassthroughStutter
<1>5. LentToSink'
  BY <1>1, <1>2, <1>4 DEF LentToSink, InHand, SinkTypeOK
<1> QED
  BY <1>2, <1>3, <1>4, <1>5, PInvParts

(* A buffer is taken back from the main side, or it is not: the dup side    *)
(* lends nothing more.                                                      *)
LEMMA DequeueMainInv ==
  ASSUME PInv, DequeueMain \/ DequeueMainBusy PROVE PInv' /\ [Next]_vars
<1> USE DEF PInv, PipeTypeOK
<1>1. /\ DequeueOutput \/ DequeueOutputBusy
      /\ UNCHANGED <<cameraVars, sink>> /\ leg = "main" /\ pc = "dequeue"
  BY DEF DequeueMain, DequeueMainBusy, Trying
<1>2. [Next]_vars
  BY <1>1 DEF Next, MainSide
<1>3. \A b \in Buffers : dstate'[b] = "dequeued" <=> dstate[b] = "dequeued"
  BY <1>1 DEF DequeueOutput, DequeueOutputBusy, dupVars, TypeOK
<1>4. ControlTypeOK' /\ HandOK' /\ (Empty' \/ leg' = "main")
  <2>1. CASE DequeueMain
    <3>1. Head(fifo) \in Buffers
      BY <2>1 DEF DequeueMain, DequeueOutput, Available, TypeOK
    <3> QED
      BY <1>1, <2>1, <3>1, DequeuedCtl DEF DequeueMain
  <2>2. CASE DequeueMainBusy
    BY <2>2, AdvanceCtl DEF DequeueMainBusy, Empty, HandOK
  <2> QED
    BY <2>1, <2>2
<1>5. CameraTypeOK' /\ FilledOK' /\ SinkTypeOK'
  BY <1>1, <1>4, CameraQuiet DEF Empty, SinkTypeOK
<1>6. LentToSink'
  BY <1>1, <1>3, <1>4, LentQuiet
<1> QED
  BY <1>2, <1>4, <1>5, <1>6, PInvParts

(* A frame is handed to the main side, or its buffer is refused.            *)
LEMMA QueueMainInv ==
  ASSUME PInv, QueueMain PROVE PInv' /\ [Next]_vars
<1> USE DEF PInv, PipeTypeOK
<1>1. pc = "queue" /\ leg = "camera" /\ hand \in Buffers /\ clen[hand] \in Lengths
  BY DEF QueueMain, HandOK, FilledOK
<1>2. UNCHANGED <<cameraVars, sink>>
  BY DEF QueueMain
<1>3. [Next]_vars /\ dstate' = dstate
  <2>1. CASE mstate[hand] = "dequeued"
    BY <1>1, <2>1 DEF QueueMain, QueueOutput, Next, MainSide
  <2>2. CASE mstate[hand] # "dequeued"
    BY <1>1, <2>2 DEF QueueMain, RefuseOutput, dupVars, Next, MainSide
  <2> QED
    BY <2>1, <2>2
<1>4. ControlTypeOK' /\ HandOK' /\ pc' # "queue" /\ (Empty' \/ leg' = "camera")
  <2>1. CASE Relayed(NextLeg)
    BY <2>1, RelayedCtl DEF HandOK, Empty
  <2>2. CASE PushBack
    BY <1>1, <2>2, PushBackCtl
  <2> QED
    BY <2>1, <2>2 DEF QueueMain
<1>5. CameraTypeOK' /\ FilledOK' /\ SinkTypeOK'
  BY <1>2, <1>4, CameraQuiet DEF SinkTypeOK
<1>6. LentToSink'
  BY <1>1, <1>2, <1>3, <1>4, LentQuiet
<1> QED
  BY <1>3, <1>4, <1>5, <1>6, PInvParts

(* A frame is handed to the sink, which never has the buffer already.       *)
LEMMA QueueSinkInv ==
  ASSUME PInv, QueueSink PROVE PInv' /\ [Next]_vars
<1> USE DEF PInv, PipeTypeOK
<1>1. /\ pc = "queue" /\ leg = "dup" /\ hand \in Buffers
      /\ UNCHANGED <<vars, cameraVars>>
  BY DEF QueueSink, HandOK
<1>2. dstate[hand] = "dequeued" /\ sink[hand] = "app"
  BY <1>1 DEF LentToSink, InHand, SinkTypeOK
<1>3. sink' = [sink EXCEPT ![hand] = "held"] /\ Relayed(NextLeg)
  BY <1>2 DEF QueueSink
<1>4. ControlTypeOK' /\ Empty' /\ HandOK'
  BY <1>3, RelayedCtl DEF Empty, HandOK
<1>5. CameraTypeOK' /\ FilledOK' /\ SinkTypeOK'
  BY <1>1, <1>3, <1>4, CameraQuiet DEF Empty, SinkTypeOK
<1>6. [Next]_vars /\ dstate' = dstate
  BY <1>1, PassthroughStutter
<1>7. LentToSink'
  BY <1>1, <1>2, <1>3, <1>4, <1>6 DEF LentToSink, InHand, SinkTypeOK, Empty
<1> QED
  BY <1>4, <1>5, <1>6, <1>7, PInvParts

(* The sink is busy: the buffer stays in hand.                              *)
LEMMA QueueSinkBusyInv ==
  ASSUME PInv, QueueSinkBusy PROVE PInv' /\ [Next]_vars
<1> USE DEF PInv, PipeTypeOK
<1>1. /\ pc = "queue" /\ leg = "dup" /\ PushBack
      /\ UNCHANGED <<vars, cameraVars, sink>>
  BY DEF QueueSinkBusy, deviceVars
<1>2. ControlTypeOK' /\ HandOK' /\ pc' = "giveback" /\ leg' = leg /\ hand' = hand
  BY <1>1, PushBackCtl
<1>3. CameraTypeOK' /\ FilledOK' /\ SinkTypeOK'
  BY <1>1, <1>2, CameraQuiet DEF SinkTypeOK
<1>4. [Next]_vars /\ dstate' = dstate
  BY <1>1, PassthroughStutter
<1>5. LentToSink'
  BY <1>1, <1>2, <1>4 DEF LentToSink, InHand
<1> QED
  BY <1>2, <1>3, <1>4, <1>5, PInvParts

(* A buffer goes back to the dup side, which has lent it.                   *)
LEMMA QueueDupInv ==
  ASSUME PInv, QueueDup PROVE PInv' /\ [Next]_vars
<1> USE DEF PInv, PipeTypeOK
<1>1. /\ pc = "queue" /\ leg = "sink" /\ hand \in Buffers
      /\ UNCHANGED <<cameraVars, sink>>
  BY DEF QueueDup, HandOK
<1>2. dstate[hand] = "dequeued" /\ sink[hand] = "app"
  BY <1>1 DEF LentToSink, InHand, SinkTypeOK
<1>3. QueueInput(hand) /\ Relayed(NextLeg)
  BY <1>2 DEF QueueDup
<1>4. ControlTypeOK' /\ Empty' /\ HandOK'
  BY <1>3, RelayedCtl DEF Empty, HandOK
<1>5. CameraTypeOK' /\ FilledOK' /\ SinkTypeOK'
  BY <1>1, <1>4, CameraQuiet DEF Empty, SinkTypeOK
<1>6. [Next]_vars
  BY <1>1, <1>3 DEF Next, DupSide
<1>7. LentToSink'
  BY <1>1, <1>2, <1>3, <1>4 DEF QueueInput, LentToSink, InHand, Empty, TypeOK
<1> QED
  BY <1>4, <1>5, <1>6, <1>7, PInvParts

(* A buffer goes back to the camera.                                        *)
LEMMA QueueCameraInv ==
  ASSUME PInv, QueueCamera PROVE PInv' /\ [Next]_vars
<1> USE DEF PInv, PipeTypeOK
<1>1. /\ pc = "queue" /\ leg = "main" /\ hand \in Buffers
      /\ UNCHANGED <<vars, camera, cdone, clen, sink>>
      /\ cqueue' \in {cqueue, Append(cqueue, hand)}
      /\ Relayed(NextLeg) \/ Failed(BreakLeg, Pipe)
  BY DEF QueueCamera, QueueEmpty, cameraVars, HandOK
<1>2. ControlTypeOK' /\ Empty' /\ HandOK'
  BY <1>1, RelayedCtl, FailedCtl DEF Empty, HandOK
<1>3. CameraTypeOK' /\ FilledOK' /\ SinkTypeOK'
  <2>1. cqueue' \in Seq(Buffers)
    BY <1>1 DEF CameraTypeOK
  <2>2. CameraTypeOK' /\ SinkTypeOK'
    BY <1>1, <2>1, Zenon DEF CameraTypeOK, SinkTypeOK
  <2>3. FilledOK'
    BY <1>1, <1>2 DEF FilledOK, Empty
  <2> QED
    BY <2>2, <2>3
<1>4. [Next]_vars /\ dstate' = dstate
  BY <1>1, PassthroughStutter
<1>5. LentToSink'
  BY <1>1, <1>2, <1>4, LentQuiet
<1> QED
  BY <1>2, <1>3, <1>4, <1>5, PInvParts

(* The refused buffer goes back where it comes from.                        *)
LEMMA GiveBackInv ==
  ASSUME PInv, GiveBack PROVE PInv' /\ [Next]_vars
<1> USE DEF PInv, PipeTypeOK
<1>1. /\ pc = "giveback" /\ hand \in Buffers
      /\ UNCHANGED <<camera, cdone, clen>>
      /\ cqueue' \in {cqueue, Append(cqueue, hand)}
      /\ Advance(NextLeg)
  BY DEF GiveBack, QueueEmpty, cameraVars, HandOK
<1>2. ControlTypeOK' /\ Empty' /\ HandOK'
  BY <1>1, AdvanceCtl DEF Empty, HandOK
<1>3. CameraTypeOK' /\ FilledOK'
  BY <1>1, <1>2 DEF CameraTypeOK, FilledOK, Empty
<1>4. CASE leg = "dup"
  <2>1. dstate[hand] = "dequeued" /\ sink[hand] = "app" /\ sink' = sink
    BY <1>1, <1>4 DEF GiveBack, LentToSink, InHand, SinkTypeOK
  <2>2. QueueInput(hand)
    BY <1>4, <2>1 DEF GiveBack
  <2>3. [Next]_vars
    BY <1>1, <2>2 DEF Next, DupSide
  <2>4. LentToSink' /\ SinkTypeOK'
    BY <1>1, <1>2, <1>4, <2>1, <2>2
       DEF QueueInput, LentToSink, InHand, Empty, TypeOK, SinkTypeOK
  <2> QED
    BY <1>2, <1>3, <2>3, <2>4, PInvParts
<1>5. CASE leg = "sink"
  <2>1. /\ UNCHANGED vars
        /\ dstate[hand] = "dequeued" /\ sink' = [sink EXCEPT ![hand] = "held"]
    BY <1>1, <1>5 DEF GiveBack, LentToSink, InHand
  <2>2. [Next]_vars /\ dstate' = dstate
    BY <2>1, PassthroughStutter
  <2>3. LentToSink' /\ SinkTypeOK'
    BY <1>1, <1>2, <1>5, <2>1, <2>2 DEF LentToSink, InHand, Empty, SinkTypeOK
  <2> QED
    BY <1>2, <1>3, <2>2, <2>3, PInvParts
<1>6. CASE leg \notin {"dup", "sink"}
  <2>1. UNCHANGED <<vars, sink>>
    BY <1>6 DEF GiveBack
  <2>2. [Next]_vars /\ dstate' = dstate
    BY <2>1, PassthroughStutter
  <2>3. LentToSink' /\ SinkTypeOK'
    BY <1>2, <1>6, <2>1, <2>2, LentQuiet DEF SinkTypeOK
  <2> QED
    BY <1>2, <1>3, <2>2, <2>3, PInvParts
<1> QED
  BY <1>4, <1>5, <1>6

-----------------------------------------------------------------------------
(* The steps around the loop *)

(* The camera fills a buffer with a frame.                                  *)
LEMMA CameraFillInv ==
  ASSUME PInv, NEW l \in Lengths, CameraFill(l) PROVE PInv' /\ [Next]_vars
<1> USE DEF PInv, PipeTypeOK
<1> DEFINE h == Head(cqueue)
           k == Len(cdone)
<1>1. /\ UNCHANGED <<vars, camera, sink, loopVars>>
      /\ clen' = [clen EXCEPT ![h] = l] /\ clen \in [Buffers -> MaybeLength]
      /\ h \in Buffers /\ cqueue' \in Seq(Buffers)
      /\ cdone \in Seq(Buffers) /\ k \in Nat /\ cdone' = Append(cdone, h)
  BY DEF CameraFill, FillFrame, CameraTypeOK
<1>2. /\ cdone' \in Seq(Buffers) /\ Len(cdone') = k + 1 /\ cdone'[k + 1] = h
      /\ \A n \in 1 .. k : cdone'[n] = cdone[n] /\ cdone[n] \in Buffers
  BY <1>1
<1>3. ControlTypeOK' /\ HandOK'
  BY <1>1, LoopStutter
<1>4. CameraTypeOK' /\ SinkTypeOK'
  <2>1. clen' \in [Buffers -> MaybeLength]
    BY <1>1 DEF MaybeLength
  <2> QED
    BY <1>1, <1>2, <2>1, Zenon DEF CameraTypeOK, SinkTypeOK
<1>5. FilledOK'
  <2>1. \A n \in 1 .. k : clen'[cdone'[n]] \in Lengths
    BY <1>1, <1>2 DEF FilledOK
  <2>2. clen'[cdone'[k + 1]] \in Lengths
    BY <1>1, <1>2
  <2>3. \A n \in 1 .. Len(cdone') : clen'[cdone'[n]] \in Lengths
    BY <1>1, <1>2, <2>1, <2>2
  <2>4. pc' = "queue" /\ leg' = "camera" => clen'[hand'] \in Lengths
    BY <1>1 DEF FilledOK, HandOK, loopVars, iterVars
  <2> QED
    BY <2>3, <2>4 DEF FilledOK
<1>6. [Next]_vars /\ dstate' = dstate
  BY <1>1, PassthroughStutter
<1>7. LentToSink'
  BY <1>1, <1>6 DEF LentToSink, InHand, loopVars, iterVars
<1> QED
  BY <1>3, <1>4, <1>5, <1>6, <1>7, PInvParts

(* The camera stops or is unplugged.                                        *)
LEMMA CameraBreaksInv ==
  ASSUME PInv, CameraBreaks PROVE PInv' /\ [Next]_vars
<1> USE DEF PInv, PipeTypeOK
<1>1. /\ UNCHANGED <<vars, cqueue, cdone, clen, sink, loopVars>>
      /\ camera' \in {"hung", "gone"}
  BY DEF CameraBreaks, Fault
<1>2. ControlTypeOK' /\ HandOK'
  BY <1>1, LoopStutter
<1>3. CameraTypeOK' /\ SinkTypeOK'
  BY <1>1 DEF CameraTypeOK, SinkTypeOK
<1>4. [Next]_vars /\ dstate' = dstate
  BY <1>1, PassthroughStutter
<1>5. FilledOK' /\ LentToSink'
  BY <1>1, <1>4 DEF FilledOK, LentToSink, InHand, loopVars, iterVars
<1> QED
  BY <1>2, <1>3, <1>4, <1>5, PInvParts

(* The sink has finished with a buffer that it held.                        *)
LEMMA SinkDoneInv ==
  ASSUME PInv, NEW b \in Buffers, SinkDone(b) PROVE PInv' /\ [Next]_vars
<1> USE DEF PInv, PipeTypeOK
<1>1. /\ sink[b] = "held" /\ sink' = [sink EXCEPT ![b] = "done"]
      /\ UNCHANGED <<vars, cameraVars, loopVars>>
  BY DEF SinkDone
<1>2. [Next]_vars /\ dstate' = dstate
  BY <1>1, PassthroughStutter
<1>3. SinkTypeOK' /\ LentToSink'
  BY <1>1, <1>2 DEF LentToSink, InHand, SinkTypeOK, loopVars, iterVars
<1> QED
  BY <1>1, <1>2, <1>3, AroundStep

(* The settings process writes a control.                                   *)
LEMMA SettingsStepInv ==
  ASSUME PInv, SettingsStep PROVE PInv' /\ [Next]_vars
<1> USE DEF PInv, PipeTypeOK
<1>1. Settings /\ UNCHANGED <<cameraVars, sink, loopVars>>
  BY DEF SettingsStep
<1>2. [Next]_vars
  BY <1>1 DEF Next
<1>3. dstate' = dstate
  BY <1>1 DEF Settings, SettingsRead, SettingsWrite, SettingsPeriodic, dupVars
<1>4. SinkTypeOK' /\ LentToSink'
  BY <1>1, <1>3 DEF LentToSink, InHand, SinkTypeOK, loopVars, iterVars
<1> QED
  BY <1>1, <1>2, <1>4, AroundStep

(* The timer expires, or a signal ends the loop.                            *)
LEMMA EventsInv ==
  ASSUME PInv, TimerTick \/ Terminate PROVE PInv' /\ [Next]_vars
<1> USE DEF PInv, PipeTypeOK
<1>1. /\ UNCHANGED <<vars, cameraVars, sink, iterVars, broke, stopped>>
      /\ run' \in {run, FALSE} /\ ticked' \in {ticked, TRUE}
      /\ pc' = pc \/ (pc = "select" /\ pc' = "check")
  <2>1. CASE TimerTick
    BY <2>1, Zenon DEF TimerTick, Tick, deviceVars
  <2>2. CASE Terminate
    BY <2>2 DEF Terminate, Interrupt, endVars, deviceVars
  <2> QED
    BY <2>1, <2>2
<1>2. ControlTypeOK'
  <2>1. /\ leg' = leg /\ drained' = drained /\ rfds' = rfds /\ hand' = hand
    BY <1>1 DEF iterVars
  <2> QED
    BY <1>1, <2>1, Zenon DEF ControlTypeOK, LoopTypeOK
<1>3. CameraTypeOK' /\ SinkTypeOK'
  BY <1>1 DEF CameraTypeOK, SinkTypeOK, cameraVars
<1>4. [Next]_vars /\ dstate' = dstate
  BY <1>1, PassthroughStutter
<1>5. HandOK' /\ FilledOK' /\ LentToSink'
  BY <1>1, <1>4 DEF HandOK, FilledOK, LentToSink, InHand, iterVars, cameraVars
<1> QED
  BY <1>2, <1>3, <1>4, <1>5, PInvParts

-----------------------------------------------------------------------------
(* The invariant is inductive, and every step is one of the passthrough or  *)
(* leaves it alone.                                                         *)
LEMMA PipeNextInv == PInv /\ [PipeNext]_pipeVars => PInv' /\ [Next]_vars
<1> SUFFICES ASSUME PInv, [PipeNext]_pipeVars PROVE PInv' /\ [Next]_vars
  OBVIOUS
<1>1. CASE MainThread
  <2>1. CASE Iterate \/ SkipLeg \/ DequeueCameraGone \/ DequeueNothing
    BY <2>1, LoopControl
  <2>2. CASE DequeueCamera
    BY <2>2, DequeueCameraInv
  <2>3. CASE DequeueDup
    BY <2>3, DequeueDupInv
  <2>4. ASSUME NEW b \in Buffers, DequeueSink(b) PROVE PInv' /\ [Next]_vars
    BY <2>4, DequeueSinkInv
  <2>5. CASE DequeueMain \/ DequeueMainBusy
    BY <2>5, DequeueMainInv
  <2>6. CASE QueueMain
    BY <2>6, QueueMainInv
  <2>7. CASE QueueSink
    BY <2>7, QueueSinkInv
  <2>8. CASE QueueSinkBusy
    BY <2>8, QueueSinkBusyInv
  <2>9. CASE QueueDup
    BY <2>9, QueueDupInv
  <2>10. CASE QueueCamera
    BY <2>10, QueueCameraInv
  <2>11. CASE GiveBack
    BY <2>11, GiveBackInv
  <2> QED
    BY <1>1, <2>1, <2>2, <2>3, <2>4, <2>5, <2>6, <2>7, <2>8, <2>9, <2>10, <2>11
       DEF MainThread
<1>2. ASSUME NEW l \in Lengths, CameraFill(l) PROVE PInv' /\ [Next]_vars
  BY <1>2, CameraFillInv
<1>3. CASE CameraBreaks
  BY <1>3, CameraBreaksInv
<1>4. ASSUME NEW b \in Buffers, SinkDone(b) PROVE PInv' /\ [Next]_vars
  BY <1>4, SinkDoneInv
<1>5. CASE TimerTick \/ Terminate
  BY <1>5, EventsInv
<1>6. CASE SettingsStep
  BY <1>6, SettingsStepInv
<1>7. CASE UNCHANGED pipeVars
  <2>1. UNCHANGED <<vars, cameraVars, sink, loopVars>>
    BY <1>7 DEF pipeVars, deviceVars
  <2>2. [Next]_vars /\ dstate' = dstate
    BY <2>1, PassthroughStutter
  <2>3. SinkTypeOK' /\ LentToSink'
    BY <2>1, <2>2 DEF PInv, PipeTypeOK, SinkTypeOK, LentToSink, InHand, loopVars, iterVars
  <2> QED
    BY <2>1, <2>2, <2>3, AroundStep
<1> QED
  BY <1>1, <1>2, <1>3, <1>4, <1>5, <1>6, <1>7 DEF PipeNext

(* The inductive invariant holds in every reachable state of the pipes.     *)
THEOREM PipeInvariance == PipeSpec => []PInv
<1>1. PipeInit => PInv
  BY PipeInitInv
<1>2. PInv /\ [PipeNext]_pipeVars => PInv'
  BY PipeNextInv
<1> QED
  BY <1>1, <1>2, PTL DEF PipeSpec

(* Every variable of the pipes keeps its type: no relay is counted above    *)
(* the bound of a leg, the loop is never without a buffer to hand over.     *)
THEOREM PipeTypeCorrect == PipeSpec => []PipeTypeOK
<1>1. PInv => PipeTypeOK
  BY DEF PInv
<1> QED
  BY <1>1, PipeInvariance, PTL

(* The loop calls the passthrough as its specification allows: a behaviour  *)
(* of the pipes is a behaviour of the passthrough, whose theorems hold.     *)
THEOREM PipeImplementsPassthrough == PipeSpec => Spec
<1>1. PipeInit => Init
  BY DEF PipeInit
<1>2. PInv /\ [PipeNext]_pipeVars => [Next]_vars
  BY PipeNextInv
<1> QED
  BY <1>1, <1>2, PipeInvariance, PTL DEF PipeSpec, Spec

(* A buffer lent by the dup side is with the sink or in the hand of the     *)
(* loop, and only in one of these places, whatever the sink refuses.        *)
THEOREM LentCorrect == PipeSpec => []LentToSink
<1>1. PInv => LentToSink
  BY DEF PInv
<1> QED
  BY <1>1, PipeInvariance, PTL

-----------------------------------------------------------------------------
(* The buffers of the camera *)

(* The two queues of the camera's driver (QueueLemmas), and what the calls   *)
(* of the loop and the driver do to them.                                   *)
WithCamera(b) == With(cqueue, cdone, b)
QueuesOK == TwoQueues(cqueue, cdone)

LEMMA CameraHasAll ==
  ASSUME CameraInit
  PROVE  QueuesOK /\ \A b \in Buffers : WithCamera(b)
BY AllWith DEF CameraInit, QueuesOK, WithCamera

LEMMA FillKeeps ==
  ASSUME QueuesOK, NEW l, FillFrame(l)
  PROVE  QueuesOK' /\ \A b \in Buffers : WithCamera(b)' <=> WithCamera(b)
BY FillKeepsBoth DEF FillFrame, QueuesOK, WithCamera

LEMMA DequeueKeeps ==
  ASSUME QueuesOK, DequeueFrame
  PROVE  /\ QueuesOK' /\ Head(cdone) \in Buffers /\ WithCamera(Head(cdone))
         /\ \A b \in Buffers : WithCamera(b)' <=> WithCamera(b) /\ b # Head(cdone)
BY TakeKeepsBoth DEF DequeueFrame, CameraHasFrame, QueuesOK, WithCamera

LEMMA QueueKeeps ==
  ASSUME QueuesOK, NEW b \in Buffers, QueueEmpty(b), ~ WithCamera(b)
  PROVE  QueuesOK' /\ \A c \in Buffers : WithCamera(c)' <=> WithCamera(c) \/ c = b
BY GiveKeepsBoth DEF QueueEmpty, QueuesOK, WithCamera

LEMMA DriverAccepts ==
  ASSUME QueuesOK, NEW b \in Buffers, camera # "gone"
  PROVE  CameraAccepts(b) <=> ~ WithCamera(b)
<1>1. DOMAIN cqueue = 1 .. Len(cqueue) /\ DOMAIN cdone = 1 .. Len(cdone)
  BY DEF QueuesOK, TwoQueues
<1> QED
  BY <1>1 DEF CameraAccepts, OwnedByCamera, WithCamera, With, Has

LEMMA CameraRests ==
  ASSUME QueuesOK, UNCHANGED <<cqueue, cdone>>
  PROVE  QueuesOK' /\ \A b \in Buffers : WithCamera(b)' <=> WithCamera(b)
BY DEF QueuesOK, WithCamera, TwoQueues, With, Has, Distinct

(* What is in hand is on a leg, and only what is refused is given back: an  *)
(* empty buffer is not, the camera never asks to be called again.           *)
LegOK == ~ Empty => leg \in Legs /\ (pc = "giveback" => leg # "main")

InLoop(b) == InHand(b, {"camera", "main"})
Passing(b) == mstate[b] = "ready"

(* Buffer b is in one place.                                                *)
OnePart(b) ==
    \/ WithCamera(b) /\ ~ InLoop(b) /\ ~ Passing(b)
    \/ ~ WithCamera(b) /\ InLoop(b) /\ ~ Passing(b)
    \/ ~ WithCamera(b) /\ ~ InLoop(b) /\ Passing(b)

(* The strengthening of OnePlace: the queues of the driver hold no buffer   *)
(* twice.                                                                   *)
CInv == LegOK /\ (camera # "gone" => QueuesOK /\ \A b \in Buffers : OnePart(b))

(* The buffers of the camera are left where they are.                       *)
LEMMA BuffersRest ==
  ASSUME CInv, LegOK', UNCHANGED <<cqueue, cdone, mstate>>,
         camera' # "gone" => camera # "gone",
         \A b \in Buffers : InLoop(b)' <=> InLoop(b)
  PROVE  CInv'
<1>1. SUFFICES ASSUME camera' # "gone" PROVE QueuesOK' /\ \A b \in Buffers : OnePart(b)'
  BY DEF CInv
<1>2. QueuesOK /\ \A b \in Buffers : OnePart(b)
  BY <1>1 DEF CInv
<1>3. QueuesOK' /\ \A b \in Buffers : WithCamera(b)' <=> WithCamera(b)
  BY <1>2, CameraRests
<1> QED
  BY <1>2, <1>3 DEF OnePart, Passing

(* The loop without a buffer, and the legs of the sink.                     *)
LEMMA OtherLegs ==
  ASSUME PInv, CInv,
         \/ Iterate \/ SkipLeg \/ DequeueCameraGone \/ DequeueNothing \/ DequeueMainBusy
         \/ DequeueDup \/ \E b \in Buffers : DequeueSink(b)
         \/ QueueSink \/ QueueSinkBusy \/ QueueDup
         \/ (GiveBack /\ leg \in {"dup", "sink"})
  PROVE  CInv'
<1>1. UNCHANGED <<camera, cqueue, cdone>>
  BY DEF Iterate, SkipLeg, DequeueCameraGone, DequeueNothing, DequeueMainBusy, DequeueDup,
         DequeueSink, QueueSink, QueueSinkBusy, QueueDup, GiveBack, deviceVars, cameraVars
<1>2. UNCHANGED mstate
  BY DEF Iterate, SkipLeg, DequeueCameraGone, DequeueNothing, DequeueMainBusy, DequeueDup,
         DequeueSink, QueueSink, QueueSinkBusy, QueueDup, GiveBack, deviceVars,
         DequeueOutputBusy, DequeueInput, QueueInput, vars, mainVars
<1>3. CASE Iterate
  <2>1. Empty /\ Empty'
    BY <1>3, Zenon DEF Iterate, Check, Select, Stop, iterVars, Empty
  <2> QED
    BY <1>1, <1>2, <2>1, BuffersRest DEF Empty, InLoop, InHand, LegOK
<1>4. CASE SkipLeg \/ DequeueCameraGone \/ DequeueNothing \/ DequeueMainBusy
  <2>1. Empty /\ Empty'
    BY <1>4 DEF SkipLeg, DequeueCameraGone, DequeueNothing, DequeueMainBusy, Trying,
                Empty, Advance, Failed, GoTo
  <2> QED
    BY <1>1, <1>2, <2>1, BuffersRest DEF Empty, InLoop, InHand, LegOK
<1>5. CASE DequeueDup \/ \E b \in Buffers : DequeueSink(b)
  <2>1. Empty /\ leg \in {"dup", "sink"} /\ leg' = leg /\ pc' = "queue"
    BY <1>5 DEF DequeueDup, DequeueSink, Trying, Empty, Dequeued
  <2>2. LegOK' /\ \A b \in Buffers : InLoop(b)' <=> InLoop(b)
    BY <2>1 DEF Empty, InLoop, InHand, LegOK, Legs
  <2> QED
    BY <1>1, <1>2, <2>2, BuffersRest
<1>6. CASE QueueSink \/ QueueSinkBusy \/ QueueDup \/ (GiveBack /\ leg \in {"dup", "sink"})
  <2>1. leg \in {"dup", "sink"} /\ ~ Empty
    BY <1>6 DEF QueueSink, QueueSinkBusy, QueueDup, GiveBack, Empty
  <2>2. Empty' \/ leg' = leg
    BY <1>6 DEF QueueSink, QueueSinkBusy, QueueDup, GiveBack, Relayed, Failed, Advance,
                GoTo, Empty, PushBack, iterVars
  <2>3. LegOK' /\ \A b \in Buffers : InLoop(b)' <=> InLoop(b)
    BY <2>1, <2>2 DEF Empty, InLoop, InHand, LegOK, Legs
  <2> QED
    BY <1>1, <1>2, <2>3, BuffersRest
<1> QED
  BY <1>3, <1>4, <1>5, <1>6

(* A frame of the camera comes in hand.                                     *)
LEMMA FrameTaken ==
  ASSUME PInv, CInv, DequeueCamera PROVE CInv'
<1> DEFINE h == Head(cdone)
<1>1. /\ DequeueFrame /\ UNCHANGED mstate /\ pc = "dequeue" /\ leg = "camera"
      /\ pc' = "queue" /\ leg' = leg /\ hand' = h /\ camera # "gone"
  BY DEF DequeueCamera, Trying, Dequeued, vars, mainVars, DequeueFrame, CameraHasFrame
<1>2. QueuesOK /\ \A b \in Buffers : OnePart(b) /\ ~ InLoop(b)
  BY <1>1 DEF CInv, InLoop, InHand
<1>3. /\ QueuesOK' /\ h \in Buffers /\ WithCamera(h)
      /\ \A b \in Buffers : WithCamera(b)' <=> WithCamera(b) /\ b # h
  BY <1>1, <1>2, DequeueKeeps
<1> HIDE DEF h
<1>4. LegOK' /\ \A b \in Buffers : InLoop(b)' <=> b = h
  BY <1>1 DEF InLoop, InHand, LegOK, Legs
<1> QED
  BY <1>1, <1>2, <1>3, <1>4 DEF CInv, OnePart, Passing

(* The passthrough takes it, or it stays in hand.                           *)
LEMMA FramePassed ==
  ASSUME PInv, CInv, QueueMain PROVE CInv'
<1>1. /\ pc = "queue" /\ leg = "camera" /\ hand \in Buffers
      /\ UNCHANGED <<camera, cqueue, cdone>>
      /\ mstate \in [Buffers -> {"dequeued", "ready"}]
  BY DEF QueueMain, PInv, HandOK, PipeTypeOK, TypeOK, cameraVars
<1>2. CASE RefuseOutput(hand) /\ PushBack
  <2>1. mstate' = mstate /\ pc' = "giveback" /\ leg' = leg /\ hand' = hand
    BY <1>2 DEF RefuseOutput, mainVars, PushBack, iterVars
  <2>2. LegOK' /\ \A b \in Buffers : InLoop(b)' <=> InLoop(b)
    BY <1>1, <2>1 DEF InLoop, InHand, LegOK, Legs
  <2> QED
    BY <1>1, <2>1, <2>2, BuffersRest
<1>3. CASE QueueOutput(hand, clen[hand]) /\ Relayed(NextLeg)
  <2>1. mstate' = [mstate EXCEPT ![hand] = "ready"] /\ Empty'
    BY <1>3 DEF QueueOutput, Relayed, Advance, GoTo, Empty
  <2>2. LegOK' /\ \A b \in Buffers : ~ InLoop(b)'
    BY <2>1 DEF LegOK, InLoop, InHand, Empty
  <2>3. \A b \in Buffers : /\ InLoop(b) <=> b = hand
                           /\ Passing(b)' <=> Passing(b) \/ b = hand
    BY <1>1, <2>1 DEF InLoop, InHand, Passing
  <2>4. ASSUME camera' # "gone" PROVE QueuesOK' /\ \A b \in Buffers : OnePart(b)'
    <3>1. QueuesOK /\ \A b \in Buffers : OnePart(b)
      BY <1>1, <2>4 DEF CInv
    <3>2. QueuesOK' /\ \A b \in Buffers : WithCamera(b)' <=> WithCamera(b)
      BY <1>1, <3>1, CameraRests
    <3> QED
      BY <2>2, <2>3, <3>1, <3>2 DEF OnePart
  <2> QED
    BY <2>2, <2>4 DEF CInv
<1> QED
  BY <1>2, <1>3 DEF QueueMain

(* The passthrough gives its oldest one back.                               *)
LEMMA FrameBack ==
  ASSUME PInv, CInv, DequeueMain PROVE CInv'
<1> DEFINE h == Head(fifo)
<1>1. /\ fifo # << >> /\ mstate[h] = "ready" /\ mstate' = [mstate EXCEPT ![h] = "dequeued"]
      /\ UNCHANGED <<camera, cqueue, cdone>> /\ fifo \in Seq(Buffers)
      /\ leg = "main" /\ pc = "dequeue" /\ leg' = leg /\ pc' = "queue" /\ hand' = h
      /\ mstate \in [Buffers -> {"dequeued", "ready"}]
  BY DEF DequeueMain, DequeueOutput, Available, Trying, Dequeued, cameraVars,
         PInv, PipeTypeOK, TypeOK
<1>2. h \in Buffers
  BY <1>1
<1> HIDE DEF h
<1>3. /\ LegOK'
      /\ \A b \in Buffers : /\ ~ InLoop(b) /\ (InLoop(b)' <=> b = h)
                            /\ Passing(b)' <=> Passing(b) /\ b # h
  BY <1>1, <1>2 DEF InLoop, InHand, LegOK, Legs, Passing
<1>4. Passing(h)
  BY <1>1 DEF Passing
<1>5. ASSUME camera' # "gone" PROVE QueuesOK' /\ \A b \in Buffers : OnePart(b)'
  <2>1. QueuesOK /\ \A b \in Buffers : OnePart(b)
    BY <1>1, <1>5 DEF CInv
  <2>2. QueuesOK' /\ \A b \in Buffers : WithCamera(b)' <=> WithCamera(b)
    BY <1>1, <2>1, CameraRests
  <2> QED
    BY <1>2, <1>3, <1>4, <2>1, <2>2 DEF OnePart
<1> QED
  BY <1>3, <1>5 DEF CInv

(* The camera's leg of pass 2, and a frame that the passthrough refuses: the*)
(* driver takes the buffer, unless it is unplugged.                         *)
LEMMA CameraTakes ==
  ASSUME PInv, CInv, QueueCamera \/ (GiveBack /\ leg = "camera")
  PROVE  CInv'
<1>1. /\ pc \in {"queue", "giveback"} /\ leg \in {"camera", "main"} /\ hand \in Buffers
      /\ UNCHANGED mstate
  BY DEF QueueCamera, GiveBack, PInv, HandOK, vars, mainVars
<1>2. Empty'
  BY <1>1 DEF QueueCamera, GiveBack, Relayed, Failed, Advance, GoTo, Empty
<1>3. QueueEmpty(hand) \/ (~ CameraAccepts(hand) /\ UNCHANGED cameraVars)
  BY DEF QueueCamera, GiveBack
<1>4. LegOK' /\ \A b \in Buffers : ~ InLoop(b)' /\ (InLoop(b) <=> b = hand)
  BY <1>1, <1>2 DEF LegOK, InLoop, InHand, Empty
<1>5. ASSUME camera' # "gone" PROVE QueuesOK' /\ \A b \in Buffers : OnePart(b)'
  <2>1. camera # "gone"
    BY <1>3, <1>5 DEF QueueEmpty, CameraAccepts, cameraVars
  <2>2. QueuesOK /\ \A b \in Buffers : OnePart(b)
    BY <2>1 DEF CInv
  <2>3. ~ WithCamera(hand) /\ ~ Passing(hand)
    BY <1>1, <1>4, <2>2 DEF OnePart
  <2>4. QueueEmpty(hand)
    BY <1>1, <1>3, <2>1, <2>2, <2>3, DriverAccepts
  <2>5. QueuesOK' /\ \A c \in Buffers : WithCamera(c)' <=> WithCamera(c) \/ c = hand
    BY <1>1, <2>2, <2>3, <2>4, QueueKeeps
  <2> QED
    BY <1>1, <1>4, <2>2, <2>3, <2>5 DEF OnePart, Passing
<1> QED
  BY <1>4, <1>5 DEF CInv

(* The camera fills a buffer, stops or is unplugged; the sink, the timer,   *)
(* the signals and the settings leave the buffers where they are.           *)
LEMMA AroundBuffers ==
  ASSUME CInv,
         \/ \E l \in Lengths : CameraFill(l)
         \/ \E b \in Buffers : SinkDone(b)
         \/ CameraBreaks \/ TimerTick \/ Terminate \/ SettingsStep
         \/ UNCHANGED pipeVars
  PROVE  CInv'
<1>1. /\ mstate' = mstate /\ leg' = leg /\ hand' = hand
      /\ pc' = pc \/ (pc = "select" /\ pc' = "check")
  BY DEF CameraFill, SinkDone, CameraBreaks, TimerTick, Tick, Terminate, Interrupt,
         SettingsStep, Settings, SettingsRead, SettingsWrite, SettingsPeriodic,
         pipeVars, deviceVars, vars, mainVars, loopVars, iterVars
<1>2. LegOK' /\ \A b \in Buffers : InLoop(b)' <=> InLoop(b)
  BY <1>1 DEF CInv, LegOK, Empty, InLoop, InHand
<1>3. ASSUME NEW l \in Lengths, CameraFill(l) PROVE CInv'
  <2>1. FillFrame(l) /\ camera # "gone"
    BY <1>3 DEF CameraFill, FillFrame
  <2>2. QueuesOK /\ \A b \in Buffers : OnePart(b)
    BY <2>1 DEF CInv
  <2>3. QueuesOK' /\ \A b \in Buffers : WithCamera(b)' <=> WithCamera(b)
    BY <2>1, <2>2, FillKeeps
  <2> QED
    BY <1>1, <1>2, <2>2, <2>3 DEF CInv, OnePart, Passing
<1>4. CASE \/ \E b \in Buffers : SinkDone(b)
           \/ CameraBreaks \/ TimerTick \/ Terminate \/ SettingsStep
           \/ UNCHANGED pipeVars
  <2>1. UNCHANGED <<cqueue, cdone>> /\ (camera' # "gone" => camera # "gone")
    BY <1>4 DEF SinkDone, CameraBreaks, Fault, TimerTick, Terminate, SettingsStep,
                pipeVars, deviceVars, cameraVars
  <2> QED
    BY <1>1, <1>2, <2>1, BuffersRest
<1> QED
  BY <1>3, <1>4

(* After the start the driver has all the buffers.                          *)
LEMMA CInitInv == PipeInit => CInv
<1> SUFFICES ASSUME PipeInit PROVE CInv
  OBVIOUS
<1>1. QueuesOK /\ \A b \in Buffers : WithCamera(b)
  BY CameraHasAll DEF PipeInit
<1>2. Empty /\ \A b \in Buffers : ~ Passing(b)
  BY DEF PipeInit, Init, LoopInit, Empty, Passing
<1> QED
  BY <1>1, <1>2 DEF CInv, LegOK, OnePart, InLoop, InHand, Empty

LEMMA CNextInv == PInv /\ CInv /\ [PipeNext]_pipeVars => CInv'
<1> SUFFICES ASSUME PInv, CInv, [PipeNext]_pipeVars PROVE CInv'
  OBVIOUS
<1>1. CASE MainThread
  <2>1. CASE \/ Iterate \/ SkipLeg \/ DequeueCameraGone \/ DequeueNothing
             \/ DequeueMainBusy \/ DequeueDup \/ \E b \in Buffers : DequeueSink(b)
             \/ QueueSink \/ QueueSinkBusy \/ QueueDup
    BY <2>1, OtherLegs
  <2>2. CASE DequeueCamera
    BY <2>2, FrameTaken
  <2>3. CASE QueueMain
    BY <2>3, FramePassed
  <2>4. CASE DequeueMain
    BY <2>4, FrameBack
  <2>5. CASE QueueCamera
    BY <2>5, CameraTakes
  <2>6. CASE GiveBack
    <3>1. leg \in {"camera", "dup", "sink"}
      BY <2>6 DEF GiveBack, CInv, LegOK, Empty, Legs
    <3> QED
      BY <2>6, <3>1, OtherLegs, CameraTakes
  <2> QED
    BY <1>1, <2>1, <2>2, <2>3, <2>4, <2>5, <2>6 DEF MainThread
<1>2. CASE \/ \E l \in Lengths : CameraFill(l)
           \/ \E b \in Buffers : SinkDone(b)
           \/ CameraBreaks \/ TimerTick \/ Terminate \/ SettingsStep
           \/ UNCHANGED pipeVars
  BY <1>2, AroundBuffers
<1> QED
  BY <1>1, <1>2 DEF PipeNext

(* One place is counted once.                                               *)
LEMMA PlacesCounted ==
  ASSUME QueuesOK, NEW b \in Buffers, OnePart(b)
  PROVE  Cardinality(Places(b)) = 1
<1> DEFINE Q == { <<"cqueue", n>> : n \in { m \in DOMAIN cqueue : cqueue[m] = b } }
           D == { <<"cdone", n>> : n \in { m \in DOMAIN cdone : cdone[m] = b } }
           H == IF InLoop(b) THEN {<<"hand", 0>>} ELSE {}
           M == IF Passing(b) THEN {<<"main", 0>>} ELSE {}
<1>1. IF Has(cqueue, b) THEN \E x : Q = {x} ELSE Q = {}
  BY OneMark DEF QueuesOK, TwoQueues
<1>2. IF Has(cdone, b) THEN \E x : D = {x} ELSE D = {}
  BY OneMark DEF QueuesOK, TwoQueues
<1>3. ~ (Has(cqueue, b) /\ Has(cdone, b))
  BY DEF QueuesOK, TwoQueues
<1>4. Places(b) = Q \cup D \cup H \cup M
  BY DEF Places, InLoop, Passing
<1> HIDE DEF Q, D
<1>5. PICK x : Q \cup D \cup H \cup M = {x}
  BY <1>1, <1>2, <1>3 DEF OnePart, WithCamera, With
<1> QED
  BY <1>4, <1>5, FS_Singleton

(* For any number of buffers, each buffer of a camera that is still there is*)
(* in one place: with the driver, in the hand of the loop or in the         *)
(* passthrough, whatever the sink and the passthrough refuse.               *)
THEOREM OnePlaceCorrect == PipeSpec => []OnePlace
<1>1. PipeInit => PInv /\ CInv
  BY PipeInitInv, CInitInv
<1>2. PInv /\ CInv /\ [PipeNext]_pipeVars => PInv' /\ CInv'
  BY PipeNextInv, CNextInv
<1>3. PInv /\ CInv => OnePlace
  BY PlacesCounted DEF CInv, OnePlace
<1> QED
  BY <1>1, <1>2, <1>3, PTL DEF PipeSpec

(* When the loop sleeps with buffers that it was not told of waiting in the *)
(* passthrough, the camera still has one, whose frame will wake it.         *)
THEOREM SleepsSafelyCorrect == PipeSpec => []SleepsSafely
<1>1. PipeInit => PInv /\ CInv
  BY PipeInitInv, CInitInv
<1>2. PInv /\ CInv /\ [PipeNext]_pipeVars => PInv' /\ CInv'
  BY PipeNextInv, CNextInv
<1>3. ASSUME PInv, CInv PROVE SleepsSafely
  <2>1. SUFFICES ASSUME pc = "select", camera # "gone", mfd = 0
                 PROVE  cqueue # << >> \/ cdone # << >>
    BY DEF SleepsSafely
  <2>2. PICK b \in Buffers : ~ Passing(b)
    BY <1>3, <2>1 DEF PInv, IInv, MainWakes, Passing
  <2>3. OnePart(b) /\ ~ InLoop(b)
    BY <1>3, <2>1 DEF CInv, InLoop, InHand
  <2>4. WithCamera(b)
    BY <2>2, <2>3 DEF OnePart
  <2> QED
    BY <2>4 DEF WithCamera, With, Has
<1> QED
  BY <1>1, <1>2, <1>3, PTL DEF PipeSpec

-----------------------------------------------------------------------------
(* The index handed to the sink *)

(* No frame is discarded: nobody asks for a shot or for DRYRUN.             *)
NoneDiscarded == Requests \cap {"SHOOT", "DRYRUN"} = {} /\ Periods \subseteq {0}
Settled == (mode \cup ctl \cup snap) \cap {"SHOOT", "SHOOTING", "DRYRUN"} = {}

(* The buffer of the ring that takes the next frame to be handed over.      *)
NextHandover == IF dstate[dcur] = "ready" THEN NextSlot ELSE dcur

Held(l) == leg = l /\ pc \in {"queue", "giveback"}
InPass1 == IF Held("camera") THEN 1 ELSE 0

(* The buffers of the camera stand in one line, in the order of the ring:   *)
(* f, the t one in the hand of pass 1, d and q; x is the number of the first.*)
InLine(x, f, t, d, q) ==
    /\ f \in Seq(Buffers) /\ d \in Seq(Buffers) /\ q \in Seq(Buffers)
    /\ InTurn(f, x, 0)
    /\ InTurn(d, x, Len(f) + t)
    /\ InTurn(q, x, (Len(f) + t) + Len(d))
HowMany(f, t, d, q) == ((Len(f) + t) + Len(d)) + Len(q)

(* The strengthening of SameBuffer: the line is that of the passthrough, the*)
(* hand of pass 1, the frames of the camera and its empty buffers.  A buffer*)
(* in the hand of pass 2 is the only one out of it, and comes last.         *)
Line ==
    /\ InLine(NextHandover, fifo, InPass1, cdone, cqueue)
    /\ Held("camera") => TurnFrom(NextHandover, hand) = Len(fifo)
    /\ camera # "gone" =>
         HowMany(fifo, InPass1, cdone, cqueue) = IF Held("main") THEN NBuffers - 1 ELSE NBuffers
    /\ camera # "gone" /\ Held("main") => TurnFrom(NextHandover, hand) = NBuffers - 1
    /\ pc = "giveback" => leg \notin {"camera", "main"}
LInv == Settled /\ (HasDup => Line)

(* A frame of the camera comes in hand.                                     *)
LEMMA LineTakes ==
  ASSUME NEW x, NEW f, NEW d, NEW q, InLine(x, f, 0, d, q), d # << >>
  PROVE  /\ InLine(x, f, 1, Tail(d), q) /\ TurnFrom(x, Head(d)) = Len(f)
         /\ HowMany(f, 1, Tail(d), q) = HowMany(f, 0, d, q)
<1> DEFINE e == Tail(d)
           h == Head(d)
<1>1. /\ Len(f) \in Nat /\ d \in Seq(Buffers) /\ InTurn(d, x, Len(f))
      /\ q \in Seq(Buffers) /\ Len(q) \in Nat
  BY DEF InLine
<1>2. /\ TurnFrom(x, h) = Len(f) /\ e \in Seq(Buffers) /\ Len(e) = Len(d) - 1
      /\ Len(d) \in Nat \ {0} /\ InTurn(e, x, Len(f) + 1)
  BY <1>1, HeadInTurn
<1> HIDE DEF e, h
<1>3. (Len(f) + 1) + Len(e) = (Len(f) + 0) + Len(d)
  BY <1>1, <1>2
<1>4. InTurn(q, x, (Len(f) + 1) + Len(e))
  BY <1>3 DEF InLine
<1>5. InLine(x, f, 1, e, q)
  BY <1>2, <1>4 DEF InLine
<1> QED
  BY <1>2, <1>3, <1>5 DEF HowMany, e, h

(* The passthrough takes it.                                                *)
LEMMA LineEnters ==
  ASSUME NEW x, NEW f, NEW d, NEW q, InLine(x, f, 1, d, q),
         NEW b \in Buffers, TurnFrom(x, b) = Len(f)
  PROVE  /\ InLine(x, Append(f, b), 0, d, q)
         /\ HowMany(Append(f, b), 0, d, q) = HowMany(f, 1, d, q)
<1> DEFINE g == Append(f, b)
<1>1. f \in Seq(Buffers) /\ Len(f) \in Nat /\ InTurn(f, x, 0) /\ TurnFrom(x, b) = 0 + Len(f)
  BY DEF InLine
<1>2. g \in Seq(Buffers) /\ Len(g) = Len(f) + 1 /\ InTurn(g, x, 0)
  BY <1>1, AppendInTurn
<1> HIDE DEF g
<1>3. Len(g) + 0 = Len(f) + 1
  BY <1>1, <1>2
<1>4. InLine(x, g, 0, d, q)
  BY <1>2, <1>3 DEF InLine
<1> QED
  BY <1>3, <1>4 DEF HowMany, g

(* It gives the first one back, and the ring has a new first one.           *)
LEMMA LineLeaves ==
  ASSUME NEW x \in Buffers, NEW f, NEW d, NEW q, InLine(x, f, 0, d, q), f # << >>,
         NEW m, m = (x + 1) % NBuffers
  PROVE  /\ Head(f) = x /\ InLine(m, Tail(f), 0, d, q) /\ TurnFrom(m, Head(f)) = NBuffers - 1
         /\ HowMany(Tail(f), 0, d, q) = HowMany(f, 0, d, q) - 1
<1> DEFINE g == Tail(f)
           h == Head(f)
<1>1. /\ f \in Seq(Buffers) /\ d \in Seq(Buffers) /\ q \in Seq(Buffers) /\ InTurn(f, x, 0)
      /\ Len(d) \in Nat /\ Len(q) \in Nat
  BY DEF InLine
<1>2. /\ h \in Buffers /\ TurnFrom(x, h) = 0 /\ g \in Seq(Buffers) /\ Len(g) = Len(f) - 1
      /\ Len(f) \in Nat \ {0} /\ InTurn(g, x, 0 + 1)
  BY <1>1, HeadInTurn
<1> HIDE DEF g, h
<1>3. h = x /\ TurnFrom(m, h) = NBuffers - 1
  BY <1>2, TurnFromIs, TurnFromNext
<1>4. /\ Len(g) + 0 \in Nat /\ InTurn(d, x, (Len(g) + 0) + 1)
      /\ (Len(g) + 0) + Len(d) \in Nat /\ InTurn(q, x, ((Len(g) + 0) + Len(d)) + 1)
  <2>1. Len(f) + 0 = (Len(g) + 0) + 1 /\ (Len(f) + 0) + Len(d) = ((Len(g) + 0) + Len(d)) + 1
    BY <1>1, <1>2
  <2> QED
    BY <1>1, <1>2, <2>1 DEF InLine
<1>5. InTurn(g, m, 0)
  BY <1>2, NextInTurn
<1>6. InTurn(d, m, Len(g) + 0)
  BY <1>1, <1>4, NextInTurn
<1>7. InTurn(q, m, (Len(g) + 0) + Len(d))
  BY <1>1, <1>4, NextInTurn
<1>8. InLine(m, g, 0, d, q)
  BY <1>1, <1>2, <1>5, <1>6, <1>7 DEF InLine
<1>9. HowMany(g, 0, d, q) = HowMany(f, 0, d, q) - 1
  BY <1>1, <1>2 DEF HowMany
<1> QED
  BY <1>3, <1>8, <1>9 DEF g, h

(* It is back with the camera, behind the others.                           *)
LEMMA LineReturns ==
  ASSUME NEW x, NEW f, NEW d, NEW q, InLine(x, f, 0, d, q),
         NEW b \in Buffers, TurnFrom(x, b) = HowMany(f, 0, d, q)
  PROVE  /\ InLine(x, f, 0, d, Append(q, b))
         /\ HowMany(f, 0, d, Append(q, b)) = HowMany(f, 0, d, q) + 1
<1> DEFINE r == Append(q, b)
           k == (Len(f) + 0) + Len(d)
<1>1. /\ q \in Seq(Buffers) /\ Len(q) \in Nat /\ k \in Nat /\ InTurn(q, x, k)
      /\ TurnFrom(x, b) = k + Len(q)
  BY DEF InLine, HowMany
<1> HIDE DEF k
<1>2. r \in Seq(Buffers) /\ Len(r) = Len(q) + 1 /\ InTurn(r, x, k)
  BY <1>1, AppendInTurn
<1> HIDE DEF r
<1>3. InLine(x, f, 0, d, r)
  BY <1>2 DEF InLine, k
<1>4. HowMany(f, 0, d, r) = HowMany(f, 0, d, q) + 1
  BY <1>1, <1>2 DEF HowMany, k
<1> QED
  BY <1>3, <1>4 DEF r

(* The camera fills the oldest one it has.                                  *)
LEMMA LineFills ==
  ASSUME NEW x, NEW f, NEW t \in {0, 1}, NEW d, NEW q, InLine(x, f, t, d, q), q # << >>
  PROVE  /\ InLine(x, f, t, Append(d, Head(q)), Tail(q))
         /\ HowMany(f, t, Append(d, Head(q)), Tail(q)) = HowMany(f, t, d, q)
<1> DEFINE h == Head(q)
           r == Tail(q)
           e == Append(d, h)
           k == Len(f) + t
<1>1. /\ q \in Seq(Buffers) /\ d \in Seq(Buffers) /\ Len(d) \in Nat /\ k \in Nat
      /\ InTurn(d, x, k) /\ k + Len(d) \in Nat /\ InTurn(q, x, k + Len(d))
  BY DEF InLine
<1> HIDE DEF k
<1>2. /\ h \in Buffers /\ TurnFrom(x, h) = k + Len(d)
      /\ r \in Seq(Buffers) /\ Len(r) = Len(q) - 1 /\ Len(q) \in Nat \ {0}
      /\ InTurn(r, x, (k + Len(d)) + 1)
  BY <1>1, HeadInTurn
<1> HIDE DEF h, r
<1>3. e \in Seq(Buffers) /\ Len(e) = Len(d) + 1 /\ InTurn(e, x, k)
  BY <1>1, <1>2, AppendInTurn
<1> HIDE DEF e
<1>4. k + Len(e) = (k + Len(d)) + 1
  BY <1>1, <1>3
<1>5. InLine(x, f, t, e, r)
  BY <1>2, <1>3, <1>4 DEF InLine, k
<1>6. HowMany(f, t, e, r) = HowMany(f, t, d, q)
  BY <1>1, <1>2, <1>4 DEF HowMany, k
<1> QED
  BY <1>5, <1>6 DEF h, r, e

(* Nothing but a request discards a frame.                                  *)
LEMMA NoneBecomesDiscarded ==
  ASSUME NoneDiscarded, TypeOK, Settled, [Next]_vars
  PROVE  Settled' /\ (HasDup => HandsOver)
<1> SUFFICES Settled'
  BY DEF HandsOver, Settled
<1>1. ctlperiod = 0 \/ ~ ctlperiod > 0
  BY DEF NoneDiscarded, TypeOK
<1>2. ~ PeriodDue
  BY <1>1 DEF PeriodDue
<1>3. ASSUME AbsorbControls PROVE Settled'
  BY <1>2, <1>3 DEF AbsorbControls, Absorbed, ShotBegins, Requested, Settled
<1>4. ASSUME EndShot PROVE Settled'
  BY <1>4 DEF EndShot, AfterShot, ctlVars, Settled
<1>5. CASE MainSide
  <2>1. ASSUME NEW i \in Buffers, NEW l \in Lengths, QueueOutput(i, l) PROVE Settled'
    BY <1>3, <2>1 DEF QueueOutput
  <2>2. ASSUME NEW i \in Buffers, RefuseOutput(i) PROVE Settled'
    BY <1>3, <2>2 DEF RefuseOutput
  <2>3. CASE DequeueOutput \/ DequeueOutputBusy
    BY <1>4, <2>3 DEF DequeueOutput, DequeueOutputBusy
  <2> QED
    BY <1>5, <2>1, <2>2, <2>3 DEF MainSide
<1>6. CASE DupSide \/ UNCHANGED vars
  <2>1. UNCHANGED <<mode, ctl, snap>>
    BY <1>6 DEF DupSide, DequeueInput, QueueInput, vars, modeVars, ctlVars
  <2> QED
    BY <2>1 DEF Settled
<1>7. CASE Settings
  <2>1. mode' = mode
    BY <1>7 DEF Settings, SettingsRead, SettingsWrite, SettingsPeriodic, modeVars
  <2>2. CASE SettingsRead
    BY <2>1, <2>2 DEF SettingsRead, Settled
  <2>3. ASSUME NEW bit \in Requests, NEW on \in BOOLEAN, SettingsWrite(bit, on) PROVE Settled'
    <3>1. bit \notin {"SHOOT", "SHOOTING", "DRYRUN"}
      BY RequestsAssumption DEF NoneDiscarded
    <3>2. ctl' \subseteq snap \cup {bit} /\ snap' = {}
      BY <2>3 DEF SettingsWrite
    <3> QED
      BY <2>1, <3>1, <3>2 DEF Settled
  <2>4. ASSUME NEW p \in Periods, SettingsPeriodic(p) PROVE Settled'
    BY <2>1, <2>4 DEF SettingsPeriodic, Settled
  <2> QED
    BY <1>7, <2>2, <2>3, <2>4 DEF Settings
<1> QED
  BY <1>5, <1>6, <1>7 DEF Next

(* What a step needs of the state, and the numbers of the ring.             *)
LEMMA LineParts ==
  ASSUME PInv
  PROVE  /\ dcur \in Buffers /\ NextSlot \in Buffers /\ NextHandover \in Buffers
         /\ (pc \in {"queue", "giveback"} => hand \in Buffers)
         /\ dstate \in [Buffers -> {"queued", "ready", "dequeued"}]
         /\ mstate \in [Buffers -> {"dequeued", "ready"}]
         /\ fifo \in Seq(Buffers) /\ cdone \in Seq(Buffers) /\ cqueue \in Seq(Buffers)
         /\ NBuffers \in Nat \ {0}
  BY RingNext, NBuffersAssumption
     DEF PInv, IInv, TypeOK, PipeTypeOK, CameraTypeOK, HandOK, NextHandover

(* The line stays as it is.                                                 *)
LEMMA LineRests ==
  ASSUME Line, UNCHANGED <<fifo, cdone, cqueue>>, NextHandover' = NextHandover,
         camera' # "gone" => camera # "gone",
         InPass1' = InPass1, Held("main")' <=> Held("main"),
         Held("camera")' \/ Held("main")' => hand' = hand,
         pc' = "giveback" => leg' \notin {"camera", "main"}
  PROVE  Line'
<1>1. Held("camera")' <=> Held("camera")
  BY DEF InPass1
<1>2. InLine(NextHandover, fifo, InPass1, cdone, cqueue)'
  BY DEF Line, InLine, InTurn, TurnFrom
<1> QED
  BY <1>1, <1>2 DEF Line, HowMany, TurnFrom

(* The loop without a buffer, and the legs of the sink.                     *)
LEMMA LineOtherLegs ==
  ASSUME PInv, Line,
         \/ Iterate \/ SkipLeg \/ DequeueCameraGone \/ DequeueNothing \/ DequeueMainBusy
         \/ DequeueDup \/ \E b \in Buffers : DequeueSink(b)
         \/ QueueSink \/ QueueSinkBusy \/ QueueDup
         \/ (GiveBack /\ leg \in {"dup", "sink"})
  PROVE  Line'
<1>1. UNCHANGED <<camera, cqueue, cdone>>
  BY DEF Iterate, SkipLeg, DequeueCameraGone, DequeueNothing, DequeueMainBusy, DequeueDup,
         DequeueSink, QueueSink, QueueSinkBusy, QueueDup, GiveBack, deviceVars, cameraVars
<1>2. UNCHANGED fifo
  BY DEF Iterate, SkipLeg, DequeueCameraGone, DequeueNothing, DequeueMainBusy, DequeueDup,
         DequeueSink, QueueSink, QueueSinkBusy, QueueDup, GiveBack, deviceVars,
         DequeueOutputBusy, DequeueInput, QueueInput, vars, mainVars
<1>3. CASE Iterate
  <2>1. Empty /\ Empty'
    BY <1>3, Zenon DEF Iterate, Check, Select, Stop, iterVars, Empty
  <2>2. UNCHANGED <<dstate, dcur>>
    BY <1>3 DEF Iterate, deviceVars, vars, dupVars
  <2>3. NextHandover' = NextHandover
    BY <2>2 DEF NextHandover, NextSlot
  <2> QED
    BY <1>1, <1>2, <2>1, <2>3, LineRests DEF Empty, Held, InPass1
<1>4. CASE SkipLeg \/ DequeueCameraGone \/ DequeueNothing \/ DequeueMainBusy
  <2>1. Empty /\ Empty'
    BY <1>4 DEF SkipLeg, DequeueCameraGone, DequeueNothing, DequeueMainBusy, Trying,
                Empty, Advance, Failed, GoTo
  <2>2. UNCHANGED <<dstate, dcur>>
    BY <1>4 DEF SkipLeg, DequeueCameraGone, DequeueNothing, DequeueMainBusy,
                DequeueOutputBusy, deviceVars, vars, dupVars
  <2>3. NextHandover' = NextHandover
    BY <2>2 DEF NextHandover, NextSlot
  <2> QED
    BY <1>1, <1>2, <2>1, <2>3, LineRests DEF Empty, Held, InPass1
<1>5. CASE DequeueDup \/ \E b \in Buffers : DequeueSink(b)
  <2>1. Empty /\ leg \in {"dup", "sink"} /\ leg' = leg /\ pc' = "queue"
    BY <1>5 DEF DequeueDup, DequeueSink, Trying, Empty, Dequeued
  <2>2. NextHandover' = NextHandover
    <3>1. CASE \E b \in Buffers : DequeueSink(b)
      <4>1. UNCHANGED <<dstate, dcur>>
        BY <3>1 DEF DequeueSink, vars, dupVars
      <4> QED
        BY <4>1 DEF NextHandover, NextSlot
    <3>2. CASE DequeueDup
      <4>1. /\ dstate[dcur] = "ready" /\ dcur' = NextSlot
            /\ dstate' = [dstate EXCEPT ![dcur] = "dequeued"]
        BY <3>2 DEF DequeueDup, DequeueInput
      <4>2. dstate'[dcur'] # "ready"
        BY <4>1, LineParts DEF PInv, IInv, DupWakes
      <4>3. NextHandover' = dcur' /\ NextHandover = NextSlot
        BY <4>1, <4>2 DEF NextHandover
      <4> QED
        BY <4>1, <4>3
    <3> QED
      BY <1>5, <3>1, <3>2
  <2> QED
    BY <1>1, <1>2, <2>1, <2>2, LineRests DEF Empty, Held, InPass1
<1>6. CASE QueueSink \/ QueueSinkBusy \/ QueueDup \/ (GiveBack /\ leg \in {"dup", "sink"})
  <2>1. leg \in {"dup", "sink"} /\ ~ Empty
    BY <1>6 DEF QueueSink, QueueSinkBusy, QueueDup, GiveBack, Empty
  <2>2. Empty' \/ leg' = leg
    BY <1>6 DEF QueueSink, QueueSinkBusy, QueueDup, GiveBack, Relayed, Failed, Advance,
                GoTo, Empty, PushBack, iterVars
  <2>3. \/ UNCHANGED <<dstate, dcur>>
        \/ /\ dstate[hand] = "dequeued" /\ dcur' = dcur /\ hand \in Buffers
           /\ dstate' = [dstate EXCEPT ![hand] = "queued"]
    BY <1>6, <2>1, LineParts
       DEF QueueSink, QueueSinkBusy, QueueDup, GiveBack, QueueInput, Empty,
           deviceVars, vars, dupVars
  <2>4. NextHandover' = NextHandover
    BY <2>3, LineParts DEF NextHandover, NextSlot
  <2> QED
    BY <1>1, <1>2, <2>1, <2>2, <2>4, LineRests DEF Empty, Held, InPass1
<1> QED
  BY <1>3, <1>4, <1>5, <1>6

(* A frame of the camera comes in hand.                                     *)
LEMMA LineTaken ==
  ASSUME PInv, Line, DequeueCamera PROVE Line'
<1>1. /\ camera # "gone" /\ cdone # << >> /\ cdone' = Tail(cdone) /\ hand' = Head(cdone)
      /\ UNCHANGED <<fifo, dstate, dcur, camera, cqueue>>
      /\ pc = "dequeue" /\ leg = "camera" /\ pc' = "queue" /\ leg' = leg
  BY DEF DequeueCamera, DequeueFrame, CameraHasFrame, Trying, Dequeued, vars, mainVars, dupVars
<1>2. NextHandover' = NextHandover
  BY <1>1 DEF NextHandover, NextSlot
<1>3. /\ InPass1 = 0 /\ ~ Held("main")
      /\ InPass1' = 1 /\ ~ Held("main")' /\ Held("camera")'
  BY <1>1 DEF InPass1, Held
<1>4. /\ InLine(NextHandover, fifo, 0, cdone, cqueue)
      /\ HowMany(fifo, 0, cdone, cqueue) = NBuffers
  BY <1>1, <1>3 DEF Line
<1>5. /\ InLine(NextHandover, fifo, 1, cdone', cqueue)
      /\ TurnFrom(NextHandover, hand') = Len(fifo)
      /\ HowMany(fifo, 1, cdone', cqueue) = NBuffers
  BY <1>1, <1>4, LineTakes
<1>6. /\ InLine(NextHandover', fifo', InPass1', cdone', cqueue')
      /\ TurnFrom(NextHandover', hand') = Len(fifo')
      /\ HowMany(fifo', InPass1', cdone', cqueue') = NBuffers
  BY <1>1, <1>2, <1>3, <1>5
<1> QED
  BY <1>1, <1>3, <1>6 DEF Line, InLine, InTurn, HowMany, TurnFrom

(* The passthrough takes it: its turn is after those that are there.        *)
LEMMA LinePassed ==
  ASSUME PInv, Line, QueueMain PROVE Line'
<1> DEFINE x == NextHandover
<1>1. /\ pc = "queue" /\ leg = "camera" /\ hand \in Buffers
      /\ UNCHANGED <<camera, cqueue, cdone>>
  BY LineParts DEF QueueMain, cameraVars
<1>2. InPass1 = 1 /\ Held("camera") /\ ~ Held("main")
  BY <1>1 DEF InPass1, Held
<1>3. /\ InLine(x, fifo, 1, cdone, cqueue) /\ TurnFrom(x, hand) = Len(fifo)
      /\ camera # "gone" => HowMany(fifo, 1, cdone, cqueue) = NBuffers
  BY <1>2 DEF Line
<1>4. mstate[hand] = "dequeued"
  <2>1. \A n \in 1 .. Len(fifo) : TurnFrom(x, fifo[n]) = (0 + n) - 1
    BY <1>3 DEF InLine, InTurn
  <2>2. ~ \E n \in 1 .. Len(fifo) : fifo[n] = hand
    BY <1>3, <2>1, LineParts
  <2>3. mstate[hand] # "ready"
    BY <1>1, <2>2 DEF PInv, IInv, FifoExact
  <2> QED
    BY <1>1, <2>3, LineParts
<1>5. QueueOutput(hand, clen[hand]) /\ Relayed(NextLeg)
  BY <1>4 DEF QueueMain
<1>6. fifo' = Append(fifo, hand) /\ UNCHANGED <<dstate, dcur>> /\ Empty'
  BY <1>5 DEF QueueOutput, Relayed, Advance, GoTo, Empty
<1>7. NextHandover' = x
  BY <1>6 DEF NextHandover, NextSlot
<1> HIDE DEF x
<1>8. InPass1' = 0 /\ ~ Held("camera")' /\ ~ Held("main")' /\ pc' # "giveback"
  BY <1>6 DEF InPass1, Held, Empty
<1>9. /\ InLine(x, fifo', 0, cdone, cqueue)
      /\ camera # "gone" => HowMany(fifo', 0, cdone, cqueue) = NBuffers
  BY <1>1, <1>3, <1>6, LineEnters
<1>10. /\ InLine(NextHandover', fifo', InPass1', cdone', cqueue')
       /\ camera' # "gone" => HowMany(fifo', InPass1', cdone', cqueue') = NBuffers
  BY <1>1, <1>7, <1>8, <1>9
<1> QED
  BY <1>8, <1>10 DEF Line, InLine, InTurn, HowMany, TurnFrom

(* It hands the first one over and gives it back: the ring has a new first  *)
(* one, of which the buffer in hand is the last.                            *)
LEMMA LineBack ==
  ASSUME PInv, Line, HandsOver, DequeueMain PROVE Line'
<1>1. /\ fifo # << >> /\ fifo' = Tail(fifo) /\ hand' = Head(fifo)
      /\ dstate[dcur] = "queued" /\ dstate' = [dstate EXCEPT ![dcur] = "ready"] /\ dcur' = dcur
      /\ UNCHANGED <<camera, cqueue, cdone>>
      /\ leg = "main" /\ pc = "dequeue" /\ leg' = leg /\ pc' = "queue"
  BY DEF DequeueMain, DequeueOutput, Available, Trying, Dequeued, cameraVars
<1>2. NextHandover = dcur /\ NextHandover' = NextSlot /\ dcur \in Buffers
  BY <1>1, LineParts DEF NextHandover, NextSlot
<1>3. /\ InPass1 = 0 /\ ~ Held("camera") /\ ~ Held("main")
      /\ InPass1' = 0 /\ ~ Held("camera")' /\ Held("main")'
  BY <1>1 DEF InPass1, Held
<1>4. /\ InLine(dcur, fifo, 0, cdone, cqueue)
      /\ camera # "gone" => HowMany(fifo, 0, cdone, cqueue) = NBuffers
  BY <1>2, <1>3 DEF Line
<1>5. NextSlot = (dcur + 1) % NBuffers
  BY DEF NextSlot
<1>6. /\ InLine(NextSlot, Tail(fifo), 0, cdone, cqueue)
      /\ TurnFrom(NextSlot, Head(fifo)) = NBuffers - 1
      /\ HowMany(Tail(fifo), 0, cdone, cqueue) = HowMany(fifo, 0, cdone, cqueue) - 1
  BY <1>1, <1>2, <1>4, <1>5, LineLeaves
<1>7. /\ InLine(NextHandover', fifo', InPass1', cdone', cqueue')
      /\ TurnFrom(NextHandover', hand') = NBuffers - 1
      /\ camera' # "gone" => HowMany(fifo', InPass1', cdone', cqueue') = NBuffers - 1
  BY <1>1, <1>2, <1>3, <1>4, <1>6
<1> QED
  BY <1>1, <1>3, <1>7 DEF Line, InLine, InTurn, HowMany, TurnFrom

(* The camera takes it back, unless it is unplugged.                        *)
LEMMA LineReturned ==
  ASSUME PInv, CInv, Line, QueueCamera PROVE Line'
<1> DEFINE x == NextHandover
<1>1. /\ pc = "queue" /\ leg = "main" /\ hand \in Buffers
      /\ UNCHANGED <<fifo, dstate, dcur, mstate>>
  BY LineParts DEF QueueCamera, vars, mainVars, dupVars
<1>2. Empty'
  BY DEF QueueCamera, Relayed, Failed, Advance, GoTo, Empty
<1>3. NextHandover' = x
  BY <1>1 DEF NextHandover, NextSlot
<1> HIDE DEF x
<1>4. /\ InPass1 = 0 /\ Held("main")
      /\ InPass1' = 0 /\ ~ Held("camera")' /\ ~ Held("main")' /\ pc' # "giveback"
  BY <1>1, <1>2 DEF InPass1, Held, Empty
<1>5. InLine(x, fifo, 0, cdone, cqueue)
  BY <1>4 DEF Line, x
<1>6. CASE camera = "gone"
  <2>1. UNCHANGED <<camera, cdone, cqueue>>
    BY <1>6 DEF QueueCamera, QueueEmpty, CameraAccepts, cameraVars
  <2>2. InLine(NextHandover', fifo', InPass1', cdone', cqueue') /\ camera' = "gone"
    BY <1>1, <1>3, <1>4, <1>5, <1>6, <2>1
  <2> QED
    BY <1>4, <2>2 DEF Line, InLine, InTurn, HowMany, TurnFrom
<1>7. CASE camera # "gone"
  <2>1. ~ WithCamera(hand) /\ QueuesOK
    BY <1>1, <1>7 DEF CInv, OnePart, InLoop, InHand
  <2>2. QueueEmpty(hand)
    BY <1>1, <1>7, <2>1, DriverAccepts DEF QueueCamera
  <2>3. cqueue' = Append(cqueue, hand) /\ UNCHANGED <<camera, cdone>>
    BY <2>2 DEF QueueEmpty
  <2>4. HowMany(fifo, 0, cdone, cqueue) = NBuffers - 1 /\ TurnFrom(x, hand) = NBuffers - 1
    BY <1>4, <1>7 DEF Line, x
  <2>5. /\ InLine(x, fifo, 0, cdone, cqueue')
        /\ HowMany(fifo, 0, cdone, cqueue') = (NBuffers - 1) + 1
    BY <1>1, <1>5, <2>3, <2>4, LineReturns
  <2>6. /\ InLine(NextHandover', fifo', InPass1', cdone', cqueue')
        /\ HowMany(fifo', InPass1', cdone', cqueue') = NBuffers
    BY <1>1, <1>3, <1>4, <2>3, <2>5, LineParts
  <2> QED
    BY <1>4, <2>6 DEF Line, InLine, InTurn, HowMany, TurnFrom
<1> QED
  BY <1>6, <1>7

(* The camera fills a buffer, stops or is unplugged; the sink, the timer,   *)
(* the signals and the settings leave the line as it is.                    *)
LEMMA LineAround ==
  ASSUME PInv, Line,
         \/ \E l \in Lengths : CameraFill(l)
         \/ \E b \in Buffers : SinkDone(b)
         \/ CameraBreaks \/ TimerTick \/ Terminate \/ SettingsStep
         \/ UNCHANGED pipeVars
  PROVE  Line'
<1>1. /\ UNCHANGED <<fifo, dstate, dcur>> /\ leg' = leg /\ hand' = hand
      /\ pc' = pc \/ (pc = "select" /\ pc' = "check")
  BY DEF CameraFill, SinkDone, CameraBreaks, TimerTick, Tick, Terminate, Interrupt,
         SettingsStep, Settings, SettingsRead, SettingsWrite, SettingsPeriodic,
         pipeVars, deviceVars, vars, mainVars, dupVars, loopVars, iterVars
<1>2. NextHandover' = NextHandover
  BY <1>1 DEF NextHandover, NextSlot
<1>3. /\ InPass1' = InPass1 /\ InPass1 \in {0, 1}
      /\ Held("main")' <=> Held("main") /\ (Held("camera")' <=> Held("camera"))
      /\ (pc' = "giveback" => leg' \notin {"camera", "main"})
  BY <1>1 DEF Line, InPass1, Held
<1>4. ASSUME NEW l \in Lengths, CameraFill(l) PROVE Line'
  <2>1. /\ cqueue # << >> /\ camera # "gone" /\ camera' = camera
        /\ cdone' = Append(cdone, Head(cqueue)) /\ cqueue' = Tail(cqueue)
    BY <1>4 DEF CameraFill, FillFrame
  <2>2. /\ InLine(NextHandover, fifo, InPass1, cdone', cqueue')
        /\ HowMany(fifo, InPass1, cdone', cqueue') = HowMany(fifo, InPass1, cdone, cqueue)
    <3>1. InLine(NextHandover, fifo, InPass1, cdone, cqueue)
      BY DEF Line
    <3> QED
      BY <1>3, <2>1, <3>1, LineFills
  <2>3. /\ InLine(NextHandover', fifo', InPass1', cdone', cqueue')
        /\ HowMany(fifo', InPass1', cdone', cqueue') = HowMany(fifo, InPass1, cdone, cqueue)
    BY <1>1, <1>2, <1>3, <2>2
  <2>4. InLine(NextHandover, fifo, InPass1, cdone, cqueue)'
    BY <2>3 DEF InLine, InTurn, TurnFrom
  <2>5. /\ (Held("camera") => TurnFrom(NextHandover, hand) = Len(fifo))'
        /\ (Held("main") => (camera # "gone" => TurnFrom(NextHandover, hand) = NBuffers - 1))'
    BY <1>1, <1>2, <1>3, <2>1 DEF Line, TurnFrom, Held
  <2>6. (camera # "gone" =>
          HowMany(fifo, InPass1, cdone, cqueue)
            = IF Held("main") THEN NBuffers - 1 ELSE NBuffers)'
    <3>1. HowMany(fifo, InPass1, cdone, cqueue)' = HowMany(fifo, InPass1, cdone, cqueue)
      BY <2>3 DEF HowMany
    <3>2. camera # "gone" => HowMany(fifo, InPass1, cdone, cqueue)
                               = IF Held("main") THEN NBuffers - 1 ELSE NBuffers
      BY DEF Line
    <3> QED
      BY <1>1, <2>1, <3>1, <3>2 DEF Held
  <2> QED
    BY <1>3, <2>4, <2>5, <2>6 DEF Line
<1>5. CASE \/ \E b \in Buffers : SinkDone(b)
           \/ CameraBreaks \/ TimerTick \/ Terminate \/ SettingsStep
           \/ UNCHANGED pipeVars
  <2>1. UNCHANGED <<cqueue, cdone>> /\ (camera' # "gone" => camera # "gone")
    BY <1>5 DEF SinkDone, CameraBreaks, Fault, TimerTick, Terminate, SettingsStep,
                pipeVars, deviceVars, cameraVars
  <2> QED
    BY <1>1, <1>2, <1>3, <2>1, LineRests DEF Held
<1> QED
  BY <1>4, <1>5

(* After the start the camera has all the buffers, and the ring begins with *)
(* the first one.                                                           *)
LEMMA LineInit == PipeInit /\ NoneDiscarded => LInv
<1> SUFFICES ASSUME PipeInit, NoneDiscarded PROVE LInv
  OBVIOUS
<1>1. Settled
  BY RequestsAssumption DEF PipeInit, Init, NoneDiscarded, Settled
<1>2. /\ NextHandover = 0 /\ InPass1 = 0 /\ pc = "check" /\ ~ Held("main") /\ ~ Held("camera")
      /\ fifo = << >> /\ cdone = << >> /\ cqueue = [n \in 1 .. NBuffers |-> n - 1]
  BY FirstBuffer DEF PipeInit, Init, CameraInit, LoopInit, NextHandover, InPass1, Held
<1>3. cqueue \in Seq(Buffers) /\ Len(cqueue) = NBuffers
  BY <1>2, NBuffersAssumption DEF Buffers
<1>4. InTurn(cqueue, 0, 0)
  BY <1>2, <1>3, NBuffersAssumption DEF InTurn, TurnFrom
<1>5. InLine(NextHandover, fifo, InPass1, cdone, cqueue)
  <2>1. /\ << >> \in Seq(Buffers) /\ Len(<< >>) = 0
        /\ InTurn(<< >>, 0, 0) /\ (Len(<< >>) + 0) + Len(<< >>) = 0
    BY DEF InTurn
  <2>2. InLine(0, << >>, 0, << >>, cqueue)
    BY <1>3, <1>4, <2>1 DEF InLine
  <2> QED
    BY <1>2, <2>2
<1>6. HowMany(fifo, InPass1, cdone, cqueue) = NBuffers
  BY <1>2, <1>3, NBuffersAssumption DEF HowMany
<1> QED
  BY <1>1, <1>2, <1>5, <1>6 DEF LInv, Line

LEMMA LineNext ==
  NoneDiscarded /\ PInv /\ CInv /\ LInv /\ [PipeNext]_pipeVars => LInv'
<1> SUFFICES ASSUME NoneDiscarded, PInv, CInv, LInv, [PipeNext]_pipeVars PROVE LInv'
  OBVIOUS
<1>1. Settled' /\ (HasDup => HandsOver)
  BY PipeNextInv, NoneBecomesDiscarded DEF PInv, IInv, LInv
<1>2. SUFFICES ASSUME HasDup PROVE Line'
  BY <1>1 DEF LInv
<1>3. Line /\ HandsOver
  BY <1>1, <1>2 DEF LInv
<1>4. CASE MainThread
  <2>1. CASE \/ Iterate \/ SkipLeg \/ DequeueCameraGone \/ DequeueNothing
             \/ DequeueMainBusy \/ DequeueDup \/ \E b \in Buffers : DequeueSink(b)
             \/ QueueSink \/ QueueSinkBusy \/ QueueDup
    BY <1>3, <2>1, LineOtherLegs
  <2>2. CASE DequeueCamera
    BY <1>3, <2>2, LineTaken
  <2>3. CASE QueueMain
    BY <1>3, <2>3, LinePassed
  <2>4. CASE DequeueMain
    BY <1>3, <2>4, LineBack
  <2>5. CASE QueueCamera
    BY <1>3, <2>5, LineReturned
  <2>6. CASE GiveBack
    <3>1. leg \in {"dup", "sink"}
      BY <1>3, <2>6 DEF GiveBack, CInv, LegOK, Empty, Legs, Line
    <3> QED
      BY <1>3, <2>6, <3>1, LineOtherLegs
  <2> QED
    BY <1>4, <2>1, <2>2, <2>3, <2>4, <2>5, <2>6 DEF MainThread
<1>5. CASE \/ \E l \in Lengths : CameraFill(l)
           \/ \E b \in Buffers : SinkDone(b)
           \/ CameraBreaks \/ TimerTick \/ Terminate \/ SettingsStep
           \/ UNCHANGED pipeVars
  BY <1>3, <1>5, LineAround
<1> QED
  BY <1>4, <1>5 DEF PipeNext

(* When no frame is discarded, the buffer of the ring that is given to the   *)
(* sink has the number of the camera's buffer with the frame, for any number *)
(* of buffers: a sink that is given the index only (spassthrough.c:579) gets *)
(* the frame handed over, whatever is refused and in whatever order the sink *)
(* gives its buffers back.                                                   *)
THEOREM SameBufferCorrect ==
  ASSUME Requests \cap {"SHOOT", "DRYRUN"} = {}, Periods \subseteq {0}
  PROVE  PipeSpec => []SameBuffer
<1>1. NoneDiscarded
  BY DEF NoneDiscarded
<1>2. PipeInit => PInv /\ CInv /\ LInv
  BY <1>1, PipeInitInv, CInitInv, LineInit
<1>3. PInv /\ CInv /\ LInv /\ [PipeNext]_pipeVars => PInv' /\ CInv' /\ LInv'
  BY <1>1, PipeNextInv, CNextInv, LineNext
<1>4. ASSUME PInv, LInv PROVE SameBuffer
  <2>1. SUFFICES ASSUME HasDup, fifo # << >>, dstate[dcur] = "queued"
                 PROVE  dcur = Head(fifo)
    BY DEF SameBuffer, HandsOver
  <2>2. NextHandover = dcur /\ dcur \in Buffers /\ fifo \in Seq(Buffers) /\ InTurn(fifo, dcur, 0)
    BY <1>4, <2>1, LineParts DEF LInv, Line, InLine, NextHandover
  <2>3. Head(fifo) \in Buffers /\ TurnFrom(dcur, Head(fifo)) = 0
    BY <2>1, <2>2, HeadInTurn
  <2> QED
    BY <2>2, <2>3, TurnFromIs
<1> QED
  BY <1>2, <1>3, <1>4, PTL DEF PipeSpec
=============================================================================
