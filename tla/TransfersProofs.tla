-------------------------- MODULE TransfersProofs --------------------------
(***************************************************************************)
(* Proofs about Transfers, for any number of buffers, of tiles, of writes    *)
(* under way, of results and of failures: the tiling, the accelerator and    *)
(* the renderer keep the camera's buffers, and the loop is woken for them.   *)
(***************************************************************************)
EXTENDS Transfers, QueueLemmas

(* Where a buffer is: with the camera, in the transfer or lost.              *)
OnePart(b) ==
    /\ Has(up, b) \/ InTransfer(b) \/ b \in lost
    /\ ~ (Has(up, b) /\ InTransfer(b))
    /\ ~ (Has(up, b) /\ b \in lost)
    /\ ~ (InTransfer(b) /\ b \in lost)
Kept ==
    /\ up \in Seq(Buffers) /\ Distinct(up)
    /\ lost \in SUBSET Buffers /\ run \in BOOLEAN
    /\ \A b \in Buffers : OnePart(b)

(* The main side of the tiling.                                              *)
TileOK ==
    /\ tstate \in [Buffers -> {"invalid", "ready", "dequeued"}]
    /\ tcur \in Buffers /\ tevent \in Nat

(* A buffer of the accelerator is at one step of its way only, and a failed  *)
(* completion was counted.                                                   *)
HailoOK ==
    /\ hstate \in [Buffers -> {"invalid", "queued", "ready", "dequeued"}]
    /\ hcur \in Buffers /\ hevent \in Nat
    /\ hstatus \in {"ok", "failed"} /\ failures \in Nat
    /\ hstatus = "failed" => failures > 0
    /\ flying \in SUBSET Buffers
    /\ cb = CbIdle \/ /\ cb \in [step : {"state", "pending", "event"}, buffer : Buffers,
                                 status : {"ok", "failed"}]
    /\ \A b \in flying : hstate[b] # "ready"
    /\ cb.step = "state" => cb.buffer \notin flying /\ hstate[cb.buffer] # "ready"

(* The renderer has a frame while a flip or its event is awaited.            *)
GbmOK ==
    /\ bcur \in Buffers \cup {NoBuffer}
    /\ flip \in Bos \cup {NoBo} /\ bevent \in BOOLEAN
    /\ flip # NoBo => bcur # NoBuffer /\ ~ bevent
    /\ bevent => bcur # NoBuffer

(* A buffer is lost by an error that ended the loop or that was counted.     *)
Blamed == lost # {} => failures > 0 \/ ~ run

(* Without a buffer at the camera, the loop has been told, or will be.       *)
Told ==
    up = << >> /\ lost = {} =>
        CASE kind = "tile"  -> tevent > 0
          [] kind = "hailo" -> hevent > 0 \/ flying # {} \/ cb # CbIdle
          [] kind = "gbm"   -> flip # NoBo \/ bevent

(* The inductive invariant.                                                  *)
TransferInv ==
    /\ kind \in {"tile", "hailo", "gbm"}
    /\ Kept /\ TileOK /\ HailoOK /\ GbmOK /\ Blamed /\ Told

-----------------------------------------------------------------------------
(* Where the buffers go *)

LEMMA Stay ==
  ASSUME Kept, UNCHANGED <<up, lost, run>>,
         \A b \in Buffers : InTransfer(b)' <=> InTransfer(b)
  PROVE  Kept'
BY DEF Kept, OnePart, Has, Distinct

LEMMA GoIn ==
  ASSUME Kept, Taken, \A b \in Buffers : InTransfer(b)' <=> InTransfer(b) \/ b = Hand
  PROVE  Kept'
<1>1. /\ up \in Seq(Buffers) /\ up # << >> /\ Distinct(up)
      /\ up' = Tail(up) /\ UNCHANGED <<lost, run>>
  BY DEF Kept, Taken
<1>2. /\ Hand \in Buffers /\ Has(up, Hand)
      /\ Tail(up) \in Seq(Buffers) /\ Distinct(Tail(up))
      /\ \A b \in Buffers : Has(Tail(up), b) <=> Has(up, b) /\ b # Hand
  BY <1>1, TailKeeps DEF Hand
<1>3. /\ up' \in Seq(Buffers) /\ Distinct(up)'
      /\ \A b \in Buffers : Has(up, b)' <=> Has(up, b) /\ b # Hand
  BY <1>1, <1>2 DEF Has, Distinct
<1> QED
  BY <1>1, <1>2, <1>3 DEF Kept, OnePart

LEMMA ComeBack ==
  ASSUME Kept, NEW c \in Buffers, InTransfer(c), Return(c),
         \A b \in Buffers : InTransfer(b)' <=> InTransfer(b) /\ b # c
  PROVE  Kept' /\ up' # << >>
<1>1. /\ up \in Seq(Buffers) /\ Distinct(up) /\ ~ Has(up, c)
      /\ up' = Append(up, c) /\ UNCHANGED <<lost, run>>
  BY DEF Kept, Return, OnePart
<1>2. /\ Append(up, c) \in Seq(Buffers) /\ Distinct(Append(up, c))
      /\ \A b \in Buffers : Has(Append(up, c), b) <=> Has(up, b) \/ b = c
  BY <1>1, AppendKeeps
<1>3. /\ up' \in Seq(Buffers) /\ Distinct(up)' /\ up' # << >>
      /\ \A b \in Buffers : Has(up, b)' <=> Has(up, b) \/ b = c
  BY <1>1, <1>2 DEF Has, Distinct
<1> QED
  BY <1>1, <1>3 DEF Kept, OnePart

LEMMA GetLost ==
  ASSUME Kept, NEW c \in Buffers, InTransfer(c), Lose(c),
         \A b \in Buffers : InTransfer(b)' <=> InTransfer(b) /\ b # c
  PROVE  Kept' /\ lost' # {}
<1>1. UNCHANGED up /\ lost' = lost \cup {c} /\ run' \in BOOLEAN
  BY DEF Lose
<1> QED
  BY <1>1 DEF Kept, OnePart, Has, Distinct

LEMMA Rotate ==
  ASSUME Kept, Refused, \A b \in Buffers : InTransfer(b)' <=> InTransfer(b)
  PROVE  Kept' /\ up' # << >>
<1> DEFINE t == Tail(up)
<1>1. /\ up \in Seq(Buffers) /\ up # << >> /\ Distinct(up)
      /\ up' = Append(t, Hand) /\ UNCHANGED <<lost, run>>
  BY DEF Kept, Refused, PushedBack
<1>2. /\ Hand \in Buffers /\ Has(up, Hand) /\ t \in Seq(Buffers) /\ Distinct(t)
      /\ \A b \in Buffers : Has(t, b) <=> Has(up, b) /\ b # Hand
  BY <1>1, TailKeeps DEF Hand
<1> HIDE DEF t
<1>3. /\ up' \in Seq(Buffers) /\ Distinct(up)' /\ up' # << >>
      /\ \A b \in Buffers : Has(up, b)' <=> Has(t, b) \/ b = Hand
  BY <1>1, <1>2, AppendKeeps DEF Has, Distinct
<1> QED
  BY <1>1, <1>2, <1>3 DEF Kept, OnePart

LEMMA FallOut ==
  ASSUME Kept, Failed, \A b \in Buffers : InTransfer(b)' <=> InTransfer(b)
  PROVE  Kept' /\ lost' # {} /\ ~ run'
<1>1. /\ up \in Seq(Buffers) /\ up # << >> /\ Distinct(up)
      /\ up' = Tail(up) /\ lost' = lost \cup {Hand} /\ run' = FALSE
  BY DEF Kept, Failed
<1>2. /\ Hand \in Buffers /\ Has(up, Hand)
      /\ Tail(up) \in Seq(Buffers) /\ Distinct(Tail(up))
      /\ \A b \in Buffers : Has(Tail(up), b) <=> Has(up, b) /\ b # Hand
  BY <1>1, TailKeeps DEF Hand
<1>3. /\ up' \in Seq(Buffers) /\ Distinct(up)'
      /\ \A b \in Buffers : Has(up, b)' <=> Has(up, b) /\ b # Hand
  BY <1>1, <1>2 DEF Has, Distinct
<1> QED
  BY <1>1, <1>2, <1>3 DEF Kept, OnePart

LEMMA NextBuffer ==
  ASSUME NEW b \in Buffers  PROVE (b + 1) % NBuffers \in Buffers
BY NBuffersAssumption DEF Buffers

(* The first buffer of the camera is with the camera only.                   *)
LEMMA HandApart ==
  ASSUME Kept, up # << >>
  PROVE  Hand \in Buffers /\ ~ InTransfer(Hand)
<1>1. Hand \in Buffers /\ Has(up, Hand)
  BY TailKeeps DEF Kept, Hand
<1> QED
  BY <1>1 DEF Kept, OnePart

-----------------------------------------------------------------------------
LEMMA InitTransfer == Init => TransferInv
<1> SUFFICES ASSUME Init
             PROVE  TransferInv
  OBVIOUS
<1>1. up \in Seq(Buffers) /\ Distinct(up) /\ up # << >> /\ \A b \in Buffers : Has(up, b)
  BY AllInOrder DEF Init
<1>2. 0 \in Buffers /\ NoBuffer \notin Buffers
  BY NBuffersAssumption DEF Buffers, NoBuffer
<1>3. \A b \in Buffers : ~ InTransfer(b)
  BY <1>2 DEF Init, TileInit, HailoInit, GbmInit, InTransfer, CbIdle
<1>4. Kept
  BY <1>1, <1>3 DEF Init, Kept, OnePart
<1>5. TileOK
  BY <1>2 DEF Init, TileInit, TileOK
<1>6. HailoOK
  BY <1>2 DEF Init, HailoInit, HailoOK, CbIdle
<1>7. GbmOK
  BY DEF Init, GbmInit, GbmOK
<1> QED
  BY <1>1, <1>4, <1>5, <1>6, <1>7 DEF Init, TransferInv, Blamed, Told

(* The steps of the tiling.                                                  *)
LEMMA TileKeeps ==
  ASSUME TransferInv, run, TileSteps, kind' = kind
  PROVE  TransferInv'
<1> USE DEF TransferInv
<1>1. kind = "tile" /\ UNCHANGED <<hailoVars, gbmVars>>
  BY DEF TileSteps
<1>2. HailoOK' /\ GbmOK'
  BY <1>1 DEF HailoOK, GbmOK, hailoVars, gbmVars
<1>3. \A b \in Buffers : InTransfer(b) <=> tstate[b] = "ready"
  BY <1>1 DEF InTransfer
<1>4. \A b \in Buffers : InTransfer(b)' <=> tstate'[b] = "ready"
  BY <1>1 DEF InTransfer
<1>5. failures' = failures
  BY <1>1 DEF hailoVars
<1>6. CASE Taken /\ TileQueue(Hand)
  <2>1. Hand \in Buffers
    BY <1>6, HandApart DEF Taken
  <2>2. TileOK' /\ tevent' > 0
    BY <1>6, <2>1 DEF TileQueue, Completed, TileOK
  <2>3. \A b \in Buffers : tstate'[b] = "ready" <=> tstate[b] = "ready" \/ b = Hand
    BY <1>6, <2>1 DEF TileQueue, TileOK
  <2>4. Kept'
    BY <1>3, <1>4, <1>6, <2>3, GoIn
  <2>5. Blamed' /\ Told'
    BY <1>1, <1>5, <1>6, <2>2 DEF Blamed, Told, Taken
  <2> QED
    BY <1>1, <1>2, <2>2, <2>4, <2>5
<1>7. CASE Refused /\ TileRefuse
  <2>1. TileOK' /\ UNCHANGED tstate
    BY <1>7 DEF TileRefuse, TileOK
  <2>2. Kept' /\ up' # << >>
    BY <1>3, <1>4, <1>7, <2>1, Rotate
  <2>3. Blamed' /\ Told'
    BY <1>5, <1>7, <2>2 DEF Blamed, Told, Refused
  <2> QED
    BY <1>1, <1>2, <2>1, <2>2, <2>3
<1>8. CASE Woken(tevent) /\ TileDequeue /\ Return(tcur)
  <2>1. TileOK' /\ tcur \in Buffers /\ InTransfer(tcur)
    BY <1>3, <1>8, NextBuffer DEF TileDequeue, TileOK, NextInRing
  <2>2. \A b \in Buffers : tstate'[b] = "ready" <=> tstate[b] = "ready" /\ b # tcur
    BY <1>8 DEF TileDequeue, TileOK
  <2>3. Kept' /\ up' # << >>
    BY <1>3, <1>4, <1>8, <2>1, <2>2, ComeBack
  <2>4. Blamed' /\ Told'
    BY <1>5, <1>8, <2>3 DEF Blamed, Told, Return
  <2> QED
    BY <1>1, <1>2, <2>1, <2>3, <2>4
<1>9. CASE TakeTile /\ UNCHANGED <<up, lost, run>>
  <2>1. TileOK' /\ UNCHANGED <<tstate, tevent>>
    BY <1>9 DEF TakeTile, TileOK
  <2>2. Kept'
    BY <1>3, <1>4, <1>9, <2>1, Stay
  <2>3. Blamed' /\ Told'
    BY <1>1, <1>5, <1>9, <2>1 DEF Blamed, Told
  <2> QED
    BY <1>1, <1>2, <2>1, <2>2, <2>3
<1> QED
  BY <1>6, <1>7, <1>8, <1>9 DEF TileSteps

(* The steps of the accelerator: the loop's, then the library's.             *)
LEMMA HailoKeeps ==
  ASSUME TransferInv, run, kind = "hailo", kind' = kind,
         HailoLoop, UNCHANGED <<tileVars, gbmVars>>
  PROVE  TransferInv'
<1> USE DEF TransferInv
<1>1. TileOK' /\ GbmOK'
  BY DEF TileOK, GbmOK, tileVars, gbmVars
<1>2. \A b \in Buffers : InTransfer(b) <=> \/ b \in flying \/ hstate[b] = "ready"
                                           \/ cb.step = "state" /\ cb.buffer = b
  BY DEF InTransfer
<1>3. \A b \in Buffers : InTransfer(b)' <=> \/ b \in flying' \/ hstate'[b] = "ready"
                                            \/ cb'.step = "state" /\ cb'.buffer = b
  BY DEF InTransfer
<1>4. CASE Taken /\ HailoQueue(Hand)
  <2>1. Hand \in Buffers /\ ~ InTransfer(Hand)
    BY <1>4, HandApart DEF Taken
  <2>2. HailoOK' /\ flying' # {}
    BY <1>2, <1>4, <2>1 DEF HailoQueue, HailoOK
  <2>3. \A b \in Buffers : InTransfer(b)' <=> InTransfer(b) \/ b = Hand
    BY <1>2, <1>3, <1>4, <2>1 DEF HailoQueue, HailoOK
  <2>4. Kept'
    BY <1>4, <2>3, GoIn
  <2>5. Blamed' /\ Told'
    BY <1>4, <2>2 DEF Blamed, Told, Taken, HailoQueue
  <2> QED
    BY <1>1, <2>2, <2>4, <2>5
<1>5. CASE Refused /\ HailoRefuse(Hand)
  <2>1. Hand \in Buffers /\ ~ InTransfer(Hand)
    BY <1>5, HandApart DEF Refused
  <2>2. HailoOK'
    BY <1>5, <2>1 DEF HailoRefuse, HailoOK
  <2>3. \A b \in Buffers : InTransfer(b)' <=> InTransfer(b)
    BY <1>2, <1>3, <1>5, <2>1 DEF HailoRefuse, HailoOK
  <2>4. Kept' /\ up' # << >>
    BY <1>5, <2>3, Rotate
  <2>5. Blamed' /\ Told'
    BY <1>5, <2>4 DEF Blamed, Told, Refused, HailoRefuse
  <2> QED
    BY <1>1, <2>2, <2>4, <2>5
<1>6. CASE HailoDequeue /\ ((Answers /\ Return(hcur)) \/ (~ Answers /\ Lose(hcur)))
  <2>1. hcur \in Buffers /\ InTransfer(hcur)
    BY <1>2, <1>6 DEF HailoDequeue, HailoOK
  <2>2. HailoOK'
    BY <1>6, NextBuffer DEF HailoDequeue, HailoOK
  <2>3. \A b \in Buffers : InTransfer(b)' <=> InTransfer(b) /\ b # hcur
    BY <1>2, <1>3, <1>6, <2>1 DEF HailoDequeue, HailoOK
  <2>4. Kept' /\ (up' # << >> \/ lost' # {})
    BY <1>6, <2>1, <2>3, ComeBack, GetLost
  <2>5. Blamed'
    BY <1>6 DEF Blamed, Return, Lose, HailoDequeue, Answers, HailoOK
  <2> QED
    BY <1>1, <2>2, <2>4, <2>5 DEF Told
<1>7. CASE TakeResult /\ UNCHANGED <<up, lost, run>>
  <2>1. HailoOK' /\ UNCHANGED <<hstate, hevent, flying, cb, failures>>
    BY <1>7 DEF TakeResult, HailoOK, mainSide
  <2>2. Kept'
    BY <1>2, <1>3, <1>7, <2>1, Stay
  <2>3. Blamed' /\ Told'
    BY <1>7, <2>1 DEF Blamed, Told
  <2> QED
    BY <1>1, <2>1, <2>2, <2>3
<1> QED
  BY <1>4, <1>5, <1>6, <1>7, Zenon DEF HailoLoop

LEMMA LibraryKeeps ==
  ASSUME TransferInv, kind = "hailo", kind' = kind,
         Library, UNCHANGED <<tileVars, gbmVars, up, lost, run>>
  PROVE  TransferInv'
<1> USE DEF TransferInv
<1>1. TileOK' /\ GbmOK'
  BY DEF TileOK, GbmOK, tileVars, gbmVars
<1>2. \A b \in Buffers : InTransfer(b) <=> \/ b \in flying \/ hstate[b] = "ready"
                                           \/ cb.step = "state" /\ cb.buffer = b
  BY DEF InTransfer
<1>3. \A b \in Buffers : InTransfer(b)' <=> \/ b \in flying' \/ hstate'[b] = "ready"
                                            \/ cb'.step = "state" /\ cb'.buffer = b
  BY DEF InTransfer
<1>4. /\ HailoOK' /\ (\A b \in Buffers : InTransfer(b)' <=> InTransfer(b))
      /\ hevent' > 0 \/ cb' # CbIdle
      /\ failures > 0 => failures' > 0
  <2>1. CASE Completes
    <3>1. PICK b \in flying, s \in {"ok", "failed"} :
             /\ cb = CbIdle
             /\ cb' = [step |-> "state", buffer |-> b, status |-> s]
             /\ flying' = flying \ {b} /\ hstatus' = s
             /\ failures' = IF s = "ok" THEN failures ELSE failures + 1
             /\ UNCHANGED <<hstate, hcur, hevent, hpending, dcur>>
      BY <2>1 DEF Completes
    <3>2. HailoOK' /\ cb' # CbIdle /\ (failures > 0 => failures' > 0)
      BY <3>1 DEF HailoOK, CbIdle
    <3>3. \A c \in Buffers : InTransfer(c)' <=> InTransfer(c)
      BY <1>2, <1>3, <3>1 DEF HailoOK, CbIdle
    <3> QED
      BY <3>2, <3>3
  <2>2. CASE CallbackReady
    <3>1. cb.buffer \in Buffers /\ cb # CbIdle /\ cb.step = "state"
      BY <2>2 DEF CallbackReady, HailoOK, CbIdle
    <3>2. HailoOK' /\ cb' # CbIdle /\ failures' = failures
      BY <2>2, <3>1 DEF CallbackReady, HailoOK, CbIdle
    <3>3. \A c \in Buffers : InTransfer(c)' <=> InTransfer(c)
      BY <1>2, <1>3, <2>2, <3>1 DEF CallbackReady, HailoOK
    <3> QED
      BY <3>2, <3>3
  <2>3. CASE CallbackCounts
    <3>1. cb # CbIdle /\ cb.step = "pending"
      BY <2>3 DEF CallbackCounts, CbIdle
    <3>2. HailoOK' /\ cb' # CbIdle /\ cb'.step = "event" /\ failures' = failures
      BY <2>3, <3>1 DEF CallbackCounts, HailoOK, CbIdle, mainSide
    <3>3. \A c \in Buffers : InTransfer(c)' <=> InTransfer(c)
      BY <1>2, <1>3, <2>3, <3>1, <3>2 DEF CallbackCounts, mainSide
    <3> QED
      BY <3>2, <3>3
  <2>4. CASE CallbackTells
    <3>1. HailoOK' /\ hevent' > 0 /\ failures' = failures
      BY <2>4 DEF CallbackTells, HailoOK, CbIdle
    <3>2. \A c \in Buffers : InTransfer(c)' <=> InTransfer(c)
      BY <1>2, <1>3, <2>4 DEF CallbackTells, CbIdle
    <3> QED
      BY <3>1, <3>2
  <2> QED
    BY <2>1, <2>2, <2>3, <2>4 DEF Library
<1>5. Kept'
  BY <1>4, Stay
<1> QED
  BY <1>1, <1>4, <1>5 DEF Blamed, Told

(* The renderer on its screen.                                               *)
LEMMA GbmKeeps ==
  ASSUME TransferInv, kind = "gbm", kind' = kind,
         \/ run /\ GbmLoop
         \/ Refresh /\ UNCHANGED <<up, lost, run>>,
         UNCHANGED <<tileVars, hailoVars>>
  PROVE  TransferInv'
<1> USE DEF TransferInv
<1>1. TileOK' /\ HailoOK' /\ failures' = failures
  BY DEF TileOK, HailoOK, tileVars, hailoVars
<1>2. \A b \in Buffers : (InTransfer(b) <=> bcur = b) /\ (InTransfer(b)' <=> bcur' = b)
  BY DEF InTransfer
<1>3. NoBuffer \notin Buffers
  BY NBuffersAssumption DEF Buffers, NoBuffer
<1>4. CASE Taken /\ GbmQueue(Hand)
  <2>1. Hand \in Buffers
    BY <1>4, HandApart DEF Taken
  <2>2. GbmOK' /\ flip' # NoBo /\ bcur = NoBuffer /\ bcur' = Hand
    BY <1>3, <1>4, <2>1, BosAssumption DEF GbmQueue, Idle, Commits, GbmOK
  <2>3. Kept'
    BY <1>2, <1>3, <1>4, <2>1, <2>2, GoIn
  <2> QED
    BY <1>1, <1>4, <2>2, <2>3 DEF Blamed, Told, Taken
<1>5. CASE Refused /\ GbmRefuse
  <2>1. UNCHANGED gbmVars
    BY <1>5 DEF GbmRefuse
  <2>2. GbmOK' /\ bcur' = bcur
    BY <2>1 DEF GbmOK, gbmVars
  <2>3. Kept' /\ up' # << >>
    BY <1>2, <1>5, <2>2, Rotate
  <2> QED
    BY <1>1, <1>5, <2>2, <2>3 DEF Blamed, Told, Refused
<1>6. CASE Failed /\ GbmFails
  <2>1. GbmOK' /\ bcur' = bcur
    BY <1>6 DEF GbmFails, GbmOK, kernelVars
  <2>2. Kept' /\ lost' # {} /\ ~ run'
    BY <1>2, <1>6, <2>1, FallOut
  <2> QED
    BY <1>1, <2>1, <2>2 DEF Blamed, Told
<1>7. CASE GbmDequeue /\ Return(bcur)
  <2>1. bcur \in Buffers /\ bcur' = NoBuffer /\ GbmOK'
    BY <1>7 DEF GbmDequeue, GbmOK
  <2>2. Kept' /\ up' # << >>
    BY <1>2, <1>3, <1>7, <2>1, ComeBack
  <2> QED
    BY <1>1, <1>7, <2>1, <2>2 DEF Blamed, Told, Return
<1>8. CASE Refresh /\ UNCHANGED <<up, lost, run>>
  <2>1. GbmOK' /\ bcur' = bcur /\ bevent'
    BY <1>8 DEF Refresh, GbmOK
  <2>2. Kept'
    BY <1>2, <1>8, <2>1, Stay
  <2> QED
    BY <1>1, <1>8, <2>1, <2>2 DEF Blamed, Told
<1> QED
  BY <1>4, <1>5, <1>6, <1>7, <1>8 DEF GbmLoop

-----------------------------------------------------------------------------
LEMMA TransferInvariance == Spec => []TransferInv
<1>1. TransferInv /\ [Next]_vars => TransferInv'
  <2> SUFFICES ASSUME TransferInv, [Next]_vars
               PROVE  TransferInv'
    OBVIOUS
  <2>1. CASE Loop /\ kind' = kind
    BY <2>1, TileKeeps, HailoKeeps, GbmKeeps DEF Loop
  <2>2. CASE Outside /\ kind' = kind
    BY <2>2, LibraryKeeps, GbmKeeps DEF Outside
  <2>3. CASE UNCHANGED vars
    <3>1. UNCHANGED <<kind, tileVars, hailoVars, gbmVars, up, lost, run>>
      BY <2>3 DEF vars
    <3>2. \A b \in Buffers : InTransfer(b)' <=> InTransfer(b)
      BY <3>1 DEF InTransfer, tileVars, hailoVars, gbmVars
    <3>3. Kept'
      BY <3>1, <3>2, Stay DEF TransferInv
    <3> QED
      BY <3>1, <3>3 DEF TransferInv, TileOK, HailoOK, GbmOK, Blamed, Told,
                        tileVars, hailoVars, gbmVars
  <2> QED
    BY <2>1, <2>2, <2>3 DEF Next
<1> QED
  BY <1>1, InitTransfer, PTL DEF Spec

(* Whatever is refused in the middle of a frame, completed in another thread *)
(* or shown meanwhile, each buffer of the camera is in one place (stile.c,    *)
(* shailo.c, segl_drm.c, and fastvideo.c which pushes back).                  *)
THEOREM TransferKeepsBuffers == Spec => []TransferKept
<1>1. TransferInv => TransferKept
  <2> SUFFICES ASSUME TransferInv
               PROVE  TransferKept
    OBVIOUS
  <2>1. ASSUME NEW b \in Buffers
        PROVE  Places(b) = 1
    <3>1. Cardinality({ i \in DOMAIN up : up[i] = b }) = IF Has(up, b) THEN 1 ELSE 0
      BY OnePosition DEF TransferInv, Kept
    <3>2. OnePart(b)
      BY DEF TransferInv, Kept
    <3> QED
      BY <3>1, <3>2 DEF OnePart, Places
  <2> QED
    BY <2>1 DEF TransferInv, Blamed, TransferKept
<1> QED
  BY <1>1, TransferInvariance, PTL

(* When the camera has given all its buffers, the loop is woken for the next *)
(* that comes back.                                                          *)
THEOREM TransferWakes == Spec => []NeverStuck
<1>1. TransferInv => NeverStuck
  <2> SUFFICES ASSUME TransferInv, up = << >>, lost = {}, ~ Outstanding
               PROVE  CASE kind = "tile"  -> tevent > 0 /\ tstate[tcur] = "ready"
                        [] kind = "hailo" -> hevent > 0 /\ hstate[hcur] = "ready"
                        [] kind = "gbm"   -> bevent
    BY DEF NeverStuck
  <2>1. \A b \in Buffers : InTransfer(b)
    BY DEF TransferInv, Kept, OnePart, Has
  <2>2. flying = {} /\ cb = CbIdle /\ flip = NoBo
    BY DEF Outstanding
  <2>3. CASE kind = "tile"
    BY <2>1, <2>3 DEF TransferInv, TileOK, Told, InTransfer
  <2>4. CASE kind = "hailo"
    BY <2>1, <2>2, <2>4 DEF TransferInv, HailoOK, Told, InTransfer, CbIdle
  <2>5. CASE kind = "gbm"
    BY <2>2, <2>5 DEF TransferInv, Told
  <2> QED
    BY <2>3, <2>4, <2>5 DEF TransferInv
<1> QED
  BY <1>1, TransferInvariance, PTL

-----------------------------------------------------------------------------
(* What the transfers count: the ring of the tiles, the results, the objects *)

(* The ready slots are the tpending ones from readid on, writeid is the next *)
(* one, and each holds the tile after that of the slot before, or the first. *)
RingOK ==
    /\ readid \in Slots /\ tpending \in 0 .. NSlots
    /\ writeid = Place(readid, tpending)
    /\ slot \in [Slots -> {"invalid", "ready", "dequeued"}] /\ tile \in [Slots -> Nat]
    /\ \A s \in Slots : slot[s] = "ready" <=> \E i \in 0 .. tpending - 1 : s = Place(readid, i)
    /\ \A i \in 1 .. tpending - 1 : tile[Place(readid, i)] > 0
          => tile[Place(readid, i)] = tile[Place(readid, i - 1)] + 1

CountOK == hpending \in Nat /\ results \in Nat /\ ResultsExact

(* Only the last object that was committed is locked, and one more when the  *)
(* commit was refused for good; that one is shown, or will be.               *)
LockedOK ==
    /\ locked \subseteq Bos /\ oldbo \in locked \cup {NoBo}
    /\ flip \in {oldbo, NoBo} /\ (flip = NoBo => shown = oldbo)
    /\ run => locked \subseteq {oldbo}
    /\ \E x : locked \subseteq {oldbo, x}
    /\ Idle => flip = NoBo

ExactInv == RingOK /\ CountOK /\ LockedOK

(* The arithmetic of the ring.                                               *)
LEMMA SlotsNumber == NSlots \in Nat \ {0} /\ NTiles \in 1 .. NSlots
<1>1. NBuffers \in Nat /\ NBuffers >= 1 /\ NTiles \in Nat /\ NTiles >= 1
  BY NBuffersAssumption, NTilesAssumption
<1>2. NBuffers * NTiles \in Nat /\ NBuffers * NTiles >= NTiles
  BY <1>1, Z3
<1> QED
  BY <1>1, <1>2 DEF NSlots

LEMMA PlaceIs ==
  ASSUME NEW s \in Slots, NEW k \in 0 .. NSlots
  PROVE  /\ Place(s, k) = IF s + k < NSlots THEN s + k ELSE s + k - NSlots
         /\ Place(s, k) \in Slots
<1> DEFINE n == NSlots
<1>1. n \in Nat \ {0} /\ s \in 0 .. n - 1 /\ k \in 0 .. n
  BY SlotsNumber DEF Slots
<1> HIDE DEF n
<1>2. \A x \in 0 .. n - 1 : x % n = x
  BY <1>1
<1>3. \A x \in n .. 2 * n - 1 : x % n = x - n
  BY <1>1
<1>4. (s + k) % n = IF s + k < n THEN s + k ELSE s + k - n
  <2>1. CASE s + k < n
    BY <1>1, <1>2, <2>1
  <2>2. CASE ~ (s + k < n)
    BY <1>1, <1>3, <2>2
  <2> QED
    BY <2>1, <2>2
<1>5. (s + k) % n \in 0 .. n - 1
  BY <1>1, <1>4
<1> QED
  BY <1>4, <1>5 DEF n, Place, Slots

(* A place further from a place; two places are the same for one distance.   *)
LEMMA PlaceOfPlace ==
  ASSUME NEW s \in Slots, NEW k \in 0 .. NSlots, NEW i \in 0 .. NSlots, k + i <= NSlots
  PROVE  Place(Place(s, k), i) = Place(s, k + i)
<1>1. k + i \in 0 .. NSlots
  BY SlotsNumber
<1>2. /\ Place(s, k) = IF s + k < NSlots THEN s + k ELSE s + k - NSlots
      /\ Place(s, k) \in Slots
  BY PlaceIs
<1>3. Place(s, k + i) = IF s + (k + i) < NSlots THEN s + (k + i) ELSE s + (k + i) - NSlots
  BY <1>1, PlaceIs
<1> DEFINE p == Place(s, k)
<1>4. Place(p, i) = IF p + i < NSlots THEN p + i ELSE p + i - NSlots
  BY <1>2, PlaceIs
<1> QED
  BY <1>2, <1>3, <1>4, SlotsNumber DEF Slots

LEMMA PlaceOnce ==
  ASSUME NEW s \in Slots, NEW i \in 0 .. NSlots - 1, NEW k \in 0 .. NSlots - 1,
         Place(s, i) = Place(s, k)
  PROVE  i = k
<1>1. i \in 0 .. NSlots /\ k \in 0 .. NSlots
  BY SlotsNumber
<1>2. /\ Place(s, i) = IF s + i < NSlots THEN s + i ELSE s + i - NSlots
      /\ Place(s, k) = IF s + k < NSlots THEN s + k ELSE s + k - NSlots
  BY <1>1, PlaceIs
<1>3. /\ NSlots \in Nat /\ s \in 0 .. NSlots - 1
      /\ (IF s + i < NSlots THEN s + i ELSE s + i - NSlots)
           = (IF s + k < NSlots THEN s + k ELSE s + k - NSlots)
  BY <1>2, SlotsNumber DEF Slots
<1> QED
  BY <1>3

LEMMA TileOfPlace ==
  ASSUME NEW k \in 0 .. NSlots - 1, writeid \in Slots
  PROVE  TileOf(Place(writeid, k)) = k
<1> DEFINE n == NSlots
<1>1. n \in Nat \ {0} /\ k \in 0 .. n - 1 /\ writeid \in 0 .. n - 1 /\ k \in 0 .. n
  BY SlotsNumber DEF Slots
<1>2. Place(writeid, k) = IF writeid + k < n THEN writeid + k ELSE writeid + k - n
  BY <1>1, PlaceIs
<1> DEFINE x == Place(writeid, k) + n - writeid
<1>3. x = k \/ x = k + n
  BY <1>1, <1>2
<1> HIDE DEF n, x
<1>4. k % n = k /\ (k + n) % n = k
  BY <1>1
<1>5. x % n = k
  BY <1>3, <1>4
<1> QED
  BY <1>5 DEF x, n, TileOf

(* What is free begins at writeid, and ends where the next to read is.       *)
LEMMA FreeFrom ==
  ASSUME RingOK
  PROVE  /\ writeid \in Slots
         /\ \A i \in 0 .. NSlots - tpending :
              tpending + i \in 0 .. NSlots /\ Place(writeid, i) = Place(readid, tpending + i)
         /\ \A i \in 0 .. NSlots - tpending - 1 : IsFree(Place(writeid, i))
         /\ tpending > 0 => ~ IsFree(Place(writeid, NSlots - tpending))
<1>1. /\ NSlots \in Nat \ {0} /\ readid \in Slots /\ tpending \in 0 .. NSlots
      /\ writeid = Place(readid, tpending)
  BY SlotsNumber DEF RingOK
<1>2. writeid \in Slots
  BY <1>1, PlaceIs
<1>3. ASSUME NEW i \in 0 .. NSlots - tpending
      PROVE  /\ i \in 0 .. NSlots /\ tpending + i \in 0 .. NSlots
             /\ Place(writeid, i) = Place(readid, tpending + i)
  <2>1. i \in 0 .. NSlots /\ tpending + i <= NSlots /\ tpending + i \in 0 .. NSlots
    BY <1>1
  <2> QED
    BY <1>1, <2>1, PlaceOfPlace
<1>4. ASSUME NEW i \in 0 .. NSlots - tpending - 1
      PROVE  IsFree(Place(writeid, i))
  <2>1. /\ i \in 0 .. NSlots - tpending /\ i \in 0 .. NSlots
        /\ tpending + i \in 0 .. NSlots - 1
    BY <1>1
  <2>2. Place(writeid, i) = Place(readid, tpending + i) /\ Place(writeid, i) \in Slots
    BY <1>2, <1>3, <2>1, PlaceIs
  <2>3. ASSUME NEW j \in 0 .. tpending - 1, Place(writeid, i) = Place(readid, j)  PROVE FALSE
    <3>1. j \in 0 .. NSlots - 1
      BY <1>1
    <3>2. j = tpending + i
      BY <1>1, <2>1, <2>2, <2>3, <3>1, PlaceOnce
    <3> QED
      BY <1>1, <3>2
  <2> QED
    BY <2>2, <2>3 DEF RingOK, IsFree
<1>5. ASSUME tpending > 0  PROVE ~ IsFree(Place(writeid, NSlots - tpending))
  <2>1. NSlots - tpending \in 0 .. NSlots - tpending /\ tpending + (NSlots - tpending) = NSlots
    BY <1>1
  <2>2. Place(writeid, NSlots - tpending) = Place(readid, NSlots)
    BY <1>3, <2>1
  <2>3. 0 \in 0 .. NSlots /\ NSlots \in 0 .. NSlots /\ 0 \in 0 .. tpending - 1
    BY <1>1, <1>5
  <2>4. Place(readid, NSlots) = Place(readid, 0) /\ Place(readid, 0) \in Slots
    BY <1>1, <2>3, PlaceIs DEF Slots
  <2> QED
    BY <2>2, <2>3, <2>4 DEF RingOK, IsFree
<1> QED
  BY <1>2, <1>3, <1>4, <1>5

(* A frame is written whole, or as far as there is room.                     *)
LEMMA WrittenIs ==
  ASSUME RingOK
  PROVE  /\ Written \in 0 .. NTiles
         /\ Written = IF NTiles <= NSlots - tpending THEN NTiles ELSE NSlots - tpending
<1> DEFINE m == IF NTiles <= NSlots - tpending THEN NTiles ELSE NSlots - tpending
           Fits(k) == /\ \A i \in 0 .. k - 1 : IsFree(Place(writeid, i))
                      /\ k < NTiles => ~ IsFree(Place(writeid, k))
<1>1. /\ NSlots \in Nat \ {0} /\ NTiles \in 1 .. NSlots /\ tpending \in 0 .. NSlots
      /\ m \in 0 .. NTiles /\ m <= NSlots - tpending
      /\ m < NTiles => m = NSlots - tpending /\ tpending > 0
  BY SlotsNumber DEF RingOK
<1> HIDE DEF m
<1>2. Fits(m)
  <2>1. \A i \in 0 .. m - 1 : i \in 0 .. NSlots - tpending - 1
    BY <1>1
  <2> QED
    BY <1>1, <2>1, FreeFrom
<1>3. ASSUME NEW k \in 0 .. NTiles, Fits(k)  PROVE k = m
  <2>1. ASSUME k < m  PROVE FALSE
    <3>1. k \in 0 .. NSlots - tpending - 1 /\ k < NTiles
      BY <1>1, <2>1
    <3> QED
      BY <1>3, <3>1, FreeFrom
  <2>2. ASSUME m < k  PROVE FALSE
    <3>1. m \in 0 .. k - 1 /\ m < NTiles
      BY <1>1, <2>2
    <3> QED
      BY <1>1, <1>3, <3>1, FreeFrom
  <2> QED
    BY <1>1, <2>1, <2>2
<1>4. Written = CHOOSE k \in 0 .. NTiles : Fits(k)
  BY DEF Written
<1> HIDE DEF Fits
<1>5. Written \in 0 .. NTiles /\ Fits(Written)
  BY <1>1, <1>2, <1>4
<1> QED
  BY <1>3, <1>5 DEF m

(* The tiles of a frame are written after those that wait.                    *)
LEMMA WriteKeeps ==
  ASSUME RingOK, WriteTiles, readid' = readid
  PROVE  RingOK'
<1> DEFINE w == Written
<1>1. /\ NSlots \in Nat \ {0} /\ readid \in Slots /\ tpending \in 0 .. NSlots
      /\ w \in 0 .. NSlots - tpending
  BY SlotsNumber, WrittenIs DEF RingOK
<1>2. /\ slot' = [s \in Slots |-> IF s \in WrittenSlots THEN "ready" ELSE slot[s]]
      /\ tile' = [s \in Slots |-> IF s \in WrittenSlots THEN TileOf(s) ELSE tile[s]]
      /\ writeid' = Place(writeid, w) /\ tpending' = tpending + w
      /\ WrittenSlots = { Place(writeid, i) : i \in 0 .. w - 1 }
  BY <1>1 DEF WriteTiles, WrittenSlots
<1> HIDE DEF w
<1>3. /\ tpending' \in 0 .. NSlots
      /\ writeid' = Place(readid, tpending')
  BY <1>1, <1>2, FreeFrom
<1>4. \A s \in Slots : s \in WrittenSlots
         <=> \E i \in tpending .. tpending + w - 1 : s = Place(readid, i)
  <2> SUFFICES ASSUME NEW s \in Slots
               PROVE  s \in WrittenSlots
                        <=> \E i \in tpending .. tpending + w - 1 : s = Place(readid, i)
    OBVIOUS
  <2>1. ASSUME NEW i \in 0 .. w - 1, s = Place(writeid, i)
        PROVE  \E j \in tpending .. tpending + w - 1 : s = Place(readid, j)
    <3>1. /\ i \in 0 .. NSlots - tpending
          /\ tpending + i \in tpending .. tpending + w - 1
      BY <1>1
    <3> QED
      BY <2>1, <3>1, FreeFrom
  <2>2. ASSUME NEW j \in tpending .. tpending + w - 1, s = Place(readid, j)
        PROVE  s \in WrittenSlots
    <3>1. /\ j - tpending \in 0 .. w - 1 /\ j - tpending \in 0 .. NSlots - tpending
          /\ tpending + (j - tpending) = j
      BY <1>1
    <3>2. Place(writeid, j - tpending) = Place(readid, j)
      BY <3>1, FreeFrom
    <3> QED
      BY <1>2, <2>2, <3>1, <3>2
  <2> QED
    BY <1>2, <2>1, <2>2
<1>5. \A s \in Slots : slot'[s] = "ready" <=> \E i \in 0 .. tpending' - 1 : s = Place(readid', i)
  <2>1. \A s \in Slots : slot'[s] = "ready" <=> s \in WrittenSlots \/ slot[s] = "ready"
    BY <1>2
  <2> QED
    BY <1>1, <1>2, <1>4, <2>1 DEF RingOK
<1>6. \A i \in 0 .. w - 1 : /\ Place(writeid, i) \in Slots \cap WrittenSlots
                            /\ TileOf(Place(writeid, i)) = i
                            /\ Place(writeid, i) = Place(readid, tpending + i)
  <2> SUFFICES ASSUME NEW i \in 0 .. w - 1
               PROVE  /\ Place(writeid, i) \in Slots \cap WrittenSlots
                      /\ TileOf(Place(writeid, i)) = i
                      /\ Place(writeid, i) = Place(readid, tpending + i)
    OBVIOUS
  <2>1. i \in 0 .. NSlots /\ i \in 0 .. NSlots - 1 /\ i \in 0 .. NSlots - tpending
    BY <1>1
  <2> QED
    BY <1>2, <2>1, FreeFrom, PlaceIs, TileOfPlace
<1>7. slot' \in [Slots -> {"invalid", "ready", "dequeued"}] /\ tile' \in [Slots -> Nat]
  <2>1. slot' \in [Slots -> {"invalid", "ready", "dequeued"}]
    BY <1>2 DEF RingOK
  <2>2. \A s \in WrittenSlots : TileOf(s) \in Nat
    BY <1>1, <1>2, <1>6
  <2> QED
    BY <1>2, <2>1, <2>2 DEF RingOK
<1>8. ASSUME NEW i \in 1 .. tpending' - 1, tile'[Place(readid, i)] > 0
      PROVE  tile'[Place(readid, i)] = tile'[Place(readid, i - 1)] + 1
  <2>1. \A j \in 0 .. tpending - 1 : /\ Place(readid, j) \in Slots \ WrittenSlots
                                     /\ tile'[Place(readid, j)] = tile[Place(readid, j)]
    <3> SUFFICES ASSUME NEW j \in 0 .. tpending - 1
                 PROVE  Place(readid, j) \in Slots \ WrittenSlots
      BY <1>2
    <3>1. j \in 0 .. NSlots /\ j \in 0 .. NSlots - 1
      BY <1>1
    <3>2. Place(readid, j) \in Slots
      BY <1>1, <3>1, PlaceIs
    <3>3. ASSUME NEW k \in tpending .. tpending + w - 1, Place(readid, j) = Place(readid, k)
          PROVE  FALSE
      <4>1. k \in 0 .. NSlots - 1
        BY <1>1
      <4> QED
        BY <1>1, <3>1, <3>3, <4>1, PlaceOnce
    <3> QED
      BY <1>4, <3>2, <3>3
  <2>2. CASE i < tpending
    <3>1. i \in 1 .. tpending - 1 /\ i \in 0 .. tpending - 1 /\ i - 1 \in 0 .. tpending - 1
      BY <1>1, <2>2
    <3> QED
      BY <1>8, <2>1, <3>1 DEF RingOK
  <2>3. CASE i >= tpending
    <3> DEFINE j == i - tpending
    <3>1. j \in 0 .. w - 1 /\ tpending + j = i
      BY <1>1, <1>2, <2>3
    <3>2. tile'[Place(readid, i)] = j
      BY <1>2, <1>6, <3>1
    <3>3. j - 1 \in 0 .. w - 1 /\ tpending + (j - 1) = i - 1
      BY <1>1, <1>8, <3>1, <3>2
    <3>4. tile'[Place(readid, i - 1)] = j - 1
      BY <1>2, <1>6, <3>3
    <3> QED
      BY <3>1, <3>2, <3>4
  <2> QED
    BY <1>1, <2>2, <2>3
<1> QED
  BY <1>1, <1>3, <1>5, <1>7, <1>8 DEF RingOK

(* The first that waits is given; those that follow wait from there on.       *)
LEMMA TakeKeeps ==
  ASSUME RingOK, TakeTile
  PROVE  RingOK'
<1>1. /\ NSlots \in Nat \ {0} /\ readid \in Slots /\ tpending \in 1 .. NSlots
      /\ 1 \in 0 .. NSlots /\ 0 \in 0 .. NSlots /\ tpending - 1 \in 0 .. NSlots
  BY SlotsNumber DEF RingOK, TakeTile
<1>2. /\ slot' = [slot EXCEPT ![readid] = "dequeued"]
      /\ readid' = Place(readid, 1) /\ tpending' = tpending - 1
      /\ UNCHANGED <<tile, writeid>>
  BY DEF TakeTile, ReadNext
<1>3. readid' \in Slots /\ tpending' \in 0 .. NSlots
  BY <1>1, <1>2, PlaceIs
<1>4. \A i \in 0 .. tpending - 1 : Place(readid', i) = Place(readid, i + 1)
  <2> SUFFICES ASSUME NEW i \in 0 .. tpending - 1
               PROVE  Place(Place(readid, 1), i) = Place(readid, 1 + i)
    BY <1>1, <1>2
  <2>1. i \in 0 .. NSlots /\ 1 + i <= NSlots
    BY <1>1
  <2> QED
    BY <1>1, <2>1, PlaceOfPlace
<1>5. writeid' = Place(readid', tpending')
  BY <1>1, <1>2, <1>4 DEF RingOK
<1>6. \A i \in 0 .. tpending - 1 : Place(readid, i) = readid <=> i = 0
  <2> SUFFICES ASSUME NEW i \in 0 .. tpending - 1
               PROVE  Place(readid, i) = readid <=> i = 0
    OBVIOUS
  <2>1. Place(readid, i) = IF readid + i < NSlots THEN readid + i ELSE readid + i - NSlots
    <3>1. i \in 0 .. NSlots
      BY <1>1
    <3> QED
      BY <1>1, <3>1, PlaceIs
  <2> QED
    BY <1>1, <2>1 DEF Slots
<1>7. ASSUME NEW s \in Slots
      PROVE  slot'[s] = "ready" <=> \E i \in 0 .. tpending' - 1 : s = Place(readid', i)
  <2>1. slot'[s] = "ready" <=> s # readid /\ \E i \in 0 .. tpending - 1 : s = Place(readid, i)
    BY <1>2 DEF RingOK
  <2>2. ASSUME s # readid, NEW i \in 0 .. tpending - 1, s = Place(readid, i)
        PROVE  i - 1 \in 0 .. tpending' - 1 /\ s = Place(readid', i - 1)
    <3>1. i - 1 \in 0 .. tpending' - 1 /\ i - 1 \in 0 .. tpending - 1 /\ (i - 1) + 1 = i
      BY <1>1, <1>2, <1>6, <2>2
    <3> QED
      BY <1>4, <2>2, <3>1
  <2>3. ASSUME NEW i \in 0 .. tpending' - 1, s = Place(readid', i)
        PROVE  s # readid /\ i + 1 \in 0 .. tpending - 1 /\ s = Place(readid, i + 1)
    <3>1. i \in 0 .. tpending - 1 /\ i + 1 \in 0 .. tpending - 1 /\ i + 1 # 0
      BY <1>1, <1>2
    <3> QED
      BY <1>4, <1>6, <2>3, <3>1
  <2> QED
    BY <2>1, <2>2, <2>3
<1>8. ASSUME NEW i \in 1 .. tpending' - 1, tile[Place(readid', i)] > 0
      PROVE  tile[Place(readid', i)] = tile[Place(readid', i - 1)] + 1
  <2>1. /\ i \in 0 .. tpending - 1 /\ i - 1 \in 0 .. tpending - 1
        /\ i + 1 \in 1 .. tpending - 1 /\ (i - 1) + 1 = i /\ (i + 1) - 1 = i
    BY <1>1, <1>2
  <2>2. Place(readid', i) = Place(readid, i + 1) /\ Place(readid', i - 1) = Place(readid, i)
    BY <1>4, <2>1
  <2> QED
    BY <1>8, <2>1, <2>2 DEF RingOK
<1>9. slot' \in [Slots -> {"invalid", "ready", "dequeued"}] /\ tile' \in [Slots -> Nat]
  BY <1>2 DEF RingOK
<1> QED
  BY <1>2, <1>3, <1>5, <1>7, <1>8, <1>9 DEF RingOK

-----------------------------------------------------------------------------
LEMMA InitExact == Init => ExactInv
<1> SUFFICES ASSUME Init
             PROVE  ExactInv
  OBVIOUS
<1>1. NSlots \in Nat \ {0} /\ 0 \in Slots /\ 0 \in 0 .. NSlots
  BY SlotsNumber DEF Slots
<1>2. Place(0, 0) = 0
  BY <1>1, PlaceIs
<1>3. RingOK
  BY <1>1, <1>2 DEF Init, TileInit, RingOK
<1>4. CountOK
  BY DEF Init, HailoInit, CountOK, ResultsExact, CbIdle
<1>5. LockedOK
  BY DEF Init, GbmInit, LockedOK, Idle
<1> QED
  BY <1>3, <1>4, <1>5 DEF ExactInv

LEMMA CountKeeps ==
  ASSUME HailoOK, CountOK, HailoLoop \/ Library
  PROVE  CountOK'
<1>1. /\ hpending \in Nat /\ results \in Nat /\ failures \in Nat
      /\ hpending + (IF cb.step \in {"state", "pending"} THEN 1 ELSE 0) = results + failures
  BY DEF CountOK, HailoOK, ResultsExact
<1> SUFFICES /\ hpending' \in Nat /\ results' \in Nat
             /\ hpending' + (IF cb'.step \in {"state", "pending"} THEN 1 ELSE 0)
                  = results' + failures'
  BY DEF CountOK, ResultsExact
<1>2. CASE HailoLoop
  <2>1. CASE TakeResult
    BY <1>1, <2>1 DEF TakeResult, HasResult
  <2>2. CASE ~ TakeResult
    <3>1. UNCHANGED <<hpending, results, failures, cb>>
      BY <1>2, <2>2 DEF HailoLoop, HailoQueue, HailoRefuse, HailoDequeue
    <3> QED
      BY <1>1, <3>1
  <2> QED
    BY <2>1, <2>2
<1>3. CASE Completes
  <2>1. PICK b \in flying, s \in {"ok", "failed"} :
           /\ cb = CbIdle /\ cb' = [step |-> "state", buffer |-> b, status |-> s]
           /\ results' = IF s = "ok" THEN results + 1 ELSE results
           /\ failures' = IF s = "ok" THEN failures ELSE failures + 1
           /\ hpending' = hpending
    BY <1>3 DEF Completes
  <2> QED
    BY <1>1, <2>1 DEF CbIdle
<1>4. CASE CallbackReady
  <2>1. cb'.step = "pending" /\ UNCHANGED <<hpending, results, failures>>
    BY <1>4 DEF CallbackReady, HailoOK, CbIdle
  <2> QED
    BY <1>1, <1>4, <2>1 DEF CallbackReady
<1>5. CASE CallbackCounts
  <2>1. cb'.step = "event" /\ hpending' = hpending + 1 /\ UNCHANGED <<results, failures>>
    BY <1>5 DEF CallbackCounts, HailoOK, CbIdle
  <2> QED
    BY <1>1, <1>5, <2>1 DEF CallbackCounts
<1>6. CASE CallbackTells
  BY <1>1, <1>6 DEF CallbackTells, CbIdle
<1> QED
  BY <1>2, <1>3, <1>4, <1>5, <1>6 DEF Library

LEMMA LockedKeeps ==
  ASSUME Kept, GbmOK, LockedOK, \/ run /\ GbmLoop
                                \/ Refresh /\ UNCHANGED <<up, lost, run>>
  PROVE  LockedOK'
<1>1. CASE run /\ Taken /\ GbmQueue(Hand)
  <2>1. PICK x \in Bos \ locked :
           /\ locked' = (locked \ {oldbo}) \cup {x} /\ oldbo' = x /\ flip' = x
    BY <1>1 DEF GbmQueue
  <2>2. locked' = {x}
    BY <1>1, <2>1 DEF LockedOK
  <2>3. bcur' \in Buffers /\ bcur' # NoBuffer /\ run'
    BY <1>1, HandApart, NBuffersAssumption DEF GbmQueue, Taken, Buffers, NoBuffer
  <2> QED
    BY <2>1, <2>2, <2>3, BosAssumption DEF LockedOK, Idle
<1>2. CASE Refused /\ GbmRefuse
  BY <1>2 DEF Refused, GbmRefuse, gbmVars, LockedOK, Idle
<1>3. CASE run /\ Failed /\ GbmFails
  <2>1. PICK x \in Bos \ locked : locked' = locked \cup {x}
    BY <1>3 DEF GbmFails
  <2> QED
    BY <1>3, <2>1 DEF Failed, GbmFails, kernelVars, LockedOK, Idle
<1>4. CASE GbmDequeue /\ Return(bcur)
  BY <1>4 DEF GbmDequeue, Return, LockedOK, GbmOK, Idle
<1>5. CASE Refresh /\ UNCHANGED <<up, lost, run>>
  BY <1>5 DEF Refresh, LockedOK, Idle
<1> QED
  BY <1>1, <1>2, <1>3, <1>4, <1>5 DEF GbmLoop

LEMMA ExactInvariance == Spec => []ExactInv
<1>1. TransferInv /\ ExactInv /\ [Next]_vars => ExactInv'
  <2> SUFFICES ASSUME TransferInv, ExactInv, [Next]_vars
               PROVE  ExactInv'
    OBVIOUS
  <2>1. RingOK /\ CountOK /\ LockedOK /\ Kept /\ HailoOK /\ GbmOK
    BY DEF TransferInv, ExactInv
  <2>2. UNCHANGED tileVars => RingOK'
    BY <2>1 DEF RingOK, tileVars, Place
  <2>3. UNCHANGED hailoVars => CountOK'
    BY <2>1 DEF CountOK, ResultsExact, hailoVars
  <2>4. UNCHANGED <<gbmVars, run>> => LockedOK'
    BY <2>1 DEF LockedOK, Idle, gbmVars
  <2>5. UNCHANGED gbmVars /\ run => LockedOK'
    BY <2>1 DEF LockedOK, Idle, gbmVars
  <2>6. CASE run /\ TileSteps
    <3>1. \/ TileQueue(Hand) \/ TileRefuse \/ TileDequeue \/ TakeTile
      BY <2>6 DEF TileSteps
    <3>2. ASSUME TileQueue(Hand) \/ TileRefuse  PROVE RingOK'
      BY <2>1, <3>2, WriteKeeps DEF TileQueue, TileRefuse
    <3>3. ASSUME TileDequeue  PROVE RingOK'
      BY <2>1, <3>3 DEF TileDequeue, RingOK, Place
    <3>4. RingOK'
      BY <2>1, <3>1, <3>2, <3>3, TakeKeeps
    <3> QED
      BY <2>3, <2>5, <2>6, <3>4 DEF TileSteps, ExactInv
  <2>7. CASE run /\ HailoLoop /\ UNCHANGED <<tileVars, gbmVars>>
    BY <2>1, <2>2, <2>5, <2>7, CountKeeps DEF ExactInv
  <2>8. CASE run /\ GbmLoop /\ UNCHANGED <<tileVars, hailoVars>>
    BY <2>1, <2>2, <2>3, <2>8, LockedKeeps DEF ExactInv
  <2>9. CASE Library /\ UNCHANGED <<tileVars, gbmVars>> /\ UNCHANGED <<up, lost, run>>
    BY <2>1, <2>2, <2>4, <2>9, CountKeeps DEF ExactInv
  <2>10. CASE Refresh /\ UNCHANGED <<tileVars, hailoVars>> /\ UNCHANGED <<up, lost, run>>
    BY <2>1, <2>2, <2>3, <2>10, LockedKeeps DEF ExactInv
  <2>11. CASE UNCHANGED vars
    BY <2>2, <2>3, <2>4, <2>11 DEF vars, ExactInv
  <2> QED
    BY <2>6, <2>7, <2>8, <2>9, <2>10, <2>11 DEF Next, Loop, Outside
<1> QED
  BY <1>1, InitExact, TransferInvariance, PTL DEF Spec

(* The window of the ready slots has a place for each that is counted.       *)
LEMMA RingExact == RingOK => TilesExact
<1> SUFFICES ASSUME RingOK
             PROVE  TilesExact
  OBVIOUS
<1> DEFINE window == [i \in 0 .. tpending - 1 |-> Place(readid, i)]
           ready == { s \in Slots : slot[s] = "ready" }
<1>1. /\ NSlots \in Nat \ {0} /\ readid \in Slots /\ tpending \in 0 .. NSlots
      /\ \A i \in 0 .. tpending - 1 : i \in 0 .. NSlots - 1 /\ i \in 0 .. NSlots
  BY SlotsNumber DEF RingOK
<1>2. \A i \in 0 .. tpending - 1 : window[i] = Place(readid, i) /\ window[i] \in Slots
  BY <1>1, PlaceIs
<1>3. ready = { window[i] : i \in 0 .. tpending - 1 }
  BY <1>2 DEF RingOK
<1>4. \A i, k \in 0 .. tpending - 1 : window[i] = window[k] => i = k
  BY <1>1, <1>2, PlaceOnce
<1>5. Cardinality({ window[i] : i \in 0 .. tpending - 1 }) = tpending
  <2> DEFINE D == 0 .. tpending - 1
             R == { window[i] : i \in 0 .. tpending - 1 }
  <2>1. IsFiniteSet(D) /\ Cardinality(D) = tpending
    BY <1>1, FS_Interval
  <2>2. window \in [D -> R] /\ (\A r \in R : \E i \in D : window[i] = r)
        /\ \A i, k \in D : window[i] = window[k] => i = k
    BY <1>4
  <2> HIDE DEF D, R, window
  <2>3. ExistsBijection(D, R)
    BY <2>2 DEF ExistsBijection, Bijection, Injection, Surjection, IsInjective
  <2>4. Cardinality(R) = tpending
    BY <2>1, <2>3, FS_Bijection
  <2> QED
    BY <2>4 DEF R
<1>6. ASSUME NEW i \in 0 .. tpending - 1, i > 0, tile[window[i]] > 0
      PROVE  tile[window[i]] = tile[window[i - 1]] + 1
  <2>1. i \in 1 .. tpending - 1 /\ i - 1 \in 0 .. tpending - 1
    BY <1>1, <1>6
  <2> QED
    BY <1>2, <1>6, <2>1 DEF RingOK
<1> QED
  BY <1>3, <1>5, <1>6 DEF TilesExact

(* An object is free for the next frame, and not the one that is shown.      *)
LEMMA LockedExact == GbmOK /\ LockedOK => NeverTorn
<1> SUFFICES ASSUME GbmOK, LockedOK, Idle
             PROVE  /\ shown \in locked \cup {NoBo} /\ flip \in locked \cup {NoBo}
                    /\ Cardinality(locked) < Cardinality(Bos)
  BY DEF NeverTorn
<1>1. shown \in locked \cup {NoBo} /\ flip \in locked \cup {NoBo}
  BY DEF LockedOK
<1>2. PICK x : locked \subseteq {oldbo, x}
  BY DEF LockedOK
<1>3. IsFiniteSet({oldbo, x}) /\ Cardinality({oldbo, x}) <= 2
  <2>1. IsFiniteSet({oldbo}) /\ Cardinality({oldbo}) = 1
    BY FS_Singleton
  <2>2. /\ IsFiniteSet({oldbo} \cup {x})
        /\ Cardinality({oldbo} \cup {x})
             = IF x \in {oldbo} THEN Cardinality({oldbo}) ELSE Cardinality({oldbo}) + 1
    BY <2>1, FS_AddElement
  <2>3. {oldbo} \cup {x} = {oldbo, x}
    OBVIOUS
  <2> QED
    BY <2>1, <2>2, <2>3
<1>4. IsFiniteSet(locked) /\ Cardinality(locked) <= Cardinality({oldbo, x})
  BY <1>2, <1>3, FS_Subset
<1>5. Cardinality(locked) < Cardinality(Bos)
  <2>1. Cardinality(locked) \in Nat /\ Cardinality({oldbo, x}) \in Nat /\ Cardinality(Bos) \in Nat
    BY <1>3, <1>4, BosAssumption, FS_CardinalityType
  <2> QED
    BY <1>3, <1>4, <2>1, BosAssumption
<1> QED
  BY <1>1, <1>5

(* The ring of the tiling gives the tiles of each frame in order and once     *)
(* (stile.c), the accelerator owes its dup side one result for each write     *)
(* that was completed (shailo.c), and nothing is drawn in the object that the *)
(* screen reads (segl.c and segl_drm.c): for any sizes of the rings.          *)
THEOREM TransfersAreExact == Spec => []TransferExact
<1>1. TransferInv /\ ExactInv => TransferExact
  BY RingExact, LockedExact DEF TransferInv, ExactInv, CountOK, TransferExact
<1> QED
  BY <1>1, TransferInvariance, ExactInvariance, PTL
=============================================================================
