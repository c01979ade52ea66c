-------------------------------- MODULE Tile --------------------------------
(***************************************************************************)
(* The tiling transfer src/stile.c.  Its main side cuts each frame of the   *)
(* device upstream in tiles, written in the slots of a ring that the dup    *)
(* side gives one by one.  The pixels of a tile are left out, its place in  *)
(* the source is in TileGrid.                                               *)
(***************************************************************************)
EXTENDS FrameBuffers, FiniteSets

CONSTANTS NTiles        \* ntiles: the tiles of a frame
ASSUME NTilesAssumption == NTiles \in Nat \ {0}

NSlots == NBuffers * NTiles
Slots == 0 .. NSlots - 1

VARIABLES
    tstate,    \* main side: the state of each buffer
    tcur,      \* main side: curbuffer, the next to give back
    tevent,    \* what completion_fd counts
    slot,      \* dup side: the state of each slot
    tile,      \* dup side: which tile of its frame each slot holds
    writeid, readid, tpending

tileVars == <<tstate, tcur, tevent, slot, tile, writeid, readid, tpending>>

(* The buffers come from the device upstream; those of the dup side, one slot *)
(* for each tile of each of them, are allocated then.                         *)
TileInit ==
    /\ tstate = [b \in Buffers |-> "invalid"] /\ tcur = 0 /\ tevent = 0
    /\ slot = [s \in Slots |-> "invalid"] /\ tile = [s \in Slots |-> 0]
    /\ writeid = 0 /\ readid = 0 /\ tpending = 0

-----------------------------------------------------------------------------
(* The slot k places after s in the ring.                                     *)
Place(s, k) == (s + k) % NSlots

(* A frame is written until a slot is still ready: its tiles may be written in *)
(* part when the queue is refused.                                            *)
IsFree(s) == slot[s] # "ready"
Written ==
    CHOOSE k \in 0 .. NTiles :
        /\ \A i \in 0 .. k - 1 : IsFree(Place(writeid, i))
        /\ k < NTiles => ~ IsFree(Place(writeid, k))
WrittenSlots == { Place(writeid, i) : i \in 0 .. Written - 1 }
TileOf(s) == (s + NSlots - writeid) % NSlots

WriteTiles ==
    /\ slot' = [s \in Slots |-> IF s \in WrittenSlots THEN "ready" ELSE slot[s]]
    /\ tile' = [s \in Slots |-> IF s \in WrittenSlots THEN TileOf(s) ELSE tile[s]]
    /\ writeid' = Place(writeid, Written)
    /\ tpending' = IF tpending + Written > NSlots THEN NSlots ELSE tpending + Written

(* stile_queue() on the main side, taken or refused with EAGAIN.              *)
(* Mutant of Completed: nobody is told that the frame can be given back.       *)
CompletedQuietly == tevent
Completed == tevent + 1
TileQueue(b) ==
    /\ Written = NTiles /\ WriteTiles
    /\ tstate' = [tstate EXCEPT ![b] = "ready"]
    /\ tevent' = Completed
    /\ UNCHANGED <<tcur, readid>>
TileRefuse ==
    /\ Written < NTiles /\ WriteTiles
    /\ UNCHANGED <<tstate, tcur, tevent, readid>>

(* stile_dequeue() on the main side returns tcur and reads the whole count.   *)
NextInRing(b) == (b + 1) % NBuffers
TileDequeue ==
    /\ tstate[tcur] = "ready"
    /\ tstate' = [tstate EXCEPT ![tcur] = "dequeued"]
    /\ tcur' = NextInRing(tcur)
    /\ tevent' = 0
    /\ UNCHANGED <<slot, tile, writeid, readid, tpending>>

(* The dup side: stile_dequeue() returns readid; stile_queue() changes nothing. *)
(* Mutant of ReadNext: the ring is not closed at its last slot.                *)
ReadFirst(s) == IF s = NSlots - 2 THEN 0 ELSE Place(s, 1)
ReadNext(s) == Place(s, 1)
TakeTile ==
    /\ tpending > 0
    /\ slot' = [slot EXCEPT ![readid] = "dequeued"]
    /\ readid' = ReadNext(readid)
    /\ tpending' = tpending - 1
    /\ UNCHANGED <<tstate, tcur, tevent, tile, writeid>>

-----------------------------------------------------------------------------
(* The ready slots are the `tpending' ones from readid on, and the tiles of a *)
(* frame follow each other there: what a refused frame lacks is its end.      *)
TilesExact ==
    LET window == [i \in 0 .. tpending - 1 |-> Place(readid, i)]
    IN  /\ { s \in Slots : slot[s] = "ready" } = { window[i] : i \in DOMAIN window }
        /\ Cardinality({ window[i] : i \in DOMAIN window }) = tpending
        /\ \A i \in DOMAIN window : i > 0 /\ tile[window[i]] > 0
               => tile[window[i]] = tile[window[i - 1]] + 1
=============================================================================
