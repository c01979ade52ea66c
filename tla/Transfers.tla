------------------------------ MODULE Transfers ------------------------------
(***************************************************************************)
(* A pipe that ends in a transfer that does not copy its buffers: the tiling, *)
(* the accelerator, or the renderer on a screen of its own, driven by the     *)
(* main loop (src/fastvideo.c).  Which of them is chosen at the start.  The   *)
(* camera upstream fills the buffers in the order it got them.                *)
(***************************************************************************)
EXTENDS Tile, Hailo, Gbm

VARIABLES
    kind,     \* "tile", "hailo" or "gbm"
    up,       \* the buffers of the camera, in its order
    lost,     \* those that nobody has any more
    run       \* isrunning()

vars == <<kind, tileVars, hailoVars, gbmVars, up, lost, run>>

Init ==
    /\ kind \in {"tile", "hailo", "gbm"}
    /\ TileInit /\ HailoInit /\ GbmInit
    /\ up = [i \in 1 .. NBuffers |-> i - 1]
    /\ lost = {} /\ run = TRUE

-----------------------------------------------------------------------------
(* main_transferbuffer() from the camera: a refused frame is pushed back, an   *)
(* error ends the loop with the frame in hand.                                 *)
(* Mutant of PushedBack: the refused frame is forgotten.                       *)
Forgotten(b) == Tail(up)
PushedBack(b) == Append(Tail(up), b)
Hand == Head(up)
Taken == up # << >> /\ up' = Tail(up) /\ UNCHANGED <<lost, run>>
Refused == up # << >> /\ up' = PushedBack(Hand) /\ UNCHANGED <<lost, run>>
Failed == up # << >> /\ up' = Tail(up) /\ lost' = lost \cup {Hand} /\ run' = FALSE

(* main_transferbuffer() to the camera, when the descriptor is readable.        *)
Return(b) == up' = Append(up, b) /\ UNCHANGED <<lost, run>>
(* The transfer answered an error for b: with a former EAGAIN in errno the loop *)
(* goes on.                                                                     *)
Lose(b) ==
    /\ lost' = lost \cup {b}
    /\ run' \in BOOLEAN
    /\ UNCHANGED up

Woken(event) == event > 0

TileSteps ==
    /\ kind = "tile"
    /\ \/ Taken /\ TileQueue(Hand)
       \/ Refused /\ TileRefuse
       \/ Woken(tevent) /\ TileDequeue /\ Return(tcur)
       \/ TakeTile /\ UNCHANGED <<up, lost, run>>
    /\ UNCHANGED <<hailoVars, gbmVars>>

HailoLoop ==
    \/ Taken /\ HailoQueue(Hand)
    \/ Refused /\ HailoRefuse(Hand)
    \/ Woken(hevent) /\ HailoDequeue /\ Answers /\ Return(hcur)
    \/ Woken(hevent) /\ HailoDequeue /\ ~ Answers /\ Lose(hcur)
    \/ TakeResult /\ UNCHANGED <<up, lost, run>>

GbmLoop ==
    \/ Taken /\ GbmQueue(Hand)
    \/ Refused /\ GbmRefuse
    \/ Failed /\ GbmFails
    \/ GbmDequeue /\ Return(bcur)

Loop ==
    /\ run
    /\ \/ TileSteps
       \/ kind = "hailo" /\ HailoLoop /\ UNCHANGED <<tileVars, gbmVars>>
       \/ kind = "gbm" /\ GbmLoop /\ UNCHANGED <<tileVars, hailoVars>>

Outside ==
    /\ \/ kind = "hailo" /\ Library /\ UNCHANGED <<tileVars, gbmVars>>
       \/ kind = "gbm" /\ Refresh /\ UNCHANGED <<tileVars, hailoVars>>
    /\ UNCHANGED <<up, lost, run>>

Next == (Loop \/ Outside) /\ UNCHANGED kind
Spec == Init /\ [][Next]_vars

-----------------------------------------------------------------------------
(* A buffer of the camera is with the transfer when it will be given back.      *)
InTransfer(b) ==
    CASE kind = "tile"  -> tstate[b] = "ready"
      [] kind = "hailo" -> \/ b \in flying \/ hstate[b] = "ready"
                           \/ cb.step = "state" /\ cb.buffer = b
      [] kind = "gbm"   -> bcur = b
Places(b) ==
    Cardinality({ i \in DOMAIN up : up[i] = b })
    + (IF InTransfer(b) THEN 1 ELSE 0) + (IF b \in lost THEN 1 ELSE 0)

(* Every buffer of the camera is in one place, whatever is refused in the middle *)
(* of a frame, and none is lost but after an error of the device.                *)
TransferKept ==
    /\ \A b \in Buffers : Places(b) = 1
    /\ lost # {} => failures > 0 \/ ~ run

(* When the camera has no buffer left, the loop is woken up for the next that the *)
(* transfer gives back: the devices never wait for each other for ever.           *)
Outstanding == flying # {} \/ cb # CbIdle \/ flip # NoBo
NeverStuck ==
    up = << >> /\ run /\ lost = {} /\ ~ Outstanding =>
        CASE kind = "tile"  -> tevent > 0 /\ tstate[tcur] = "ready"
          [] kind = "hailo" -> hevent > 0 /\ hstate[hcur] = "ready"
          [] kind = "gbm"   -> bevent

(* What each transfer counts is what it has: the tiles, the results, and the      *)
(* objects the GPU may draw in.                                                   *)
TransferExact == TilesExact /\ ResultsExact /\ NeverTorn
==============================================================================
