-------------------------------- MODULE Peers --------------------------------
(***************************************************************************)
(* How the devices at the other end of a pipe answer requestbuffer(): the      *)
(* screen, its writeback, the EGL renderer, the Hailo accelerator, the tiling,  *)
(* the passthrough and the file.  A side of a device has n buffers, the memory   *)
(* behind them (the name of who allocated it) and whether they have descriptors  *)
(* (dma) and addresses (map); the answers are those of V4l2Buffers.             *)
(***************************************************************************)
EXTENDS V4l2Buffers

CONSTANT MaxBuffers     \* MAX_BUFFERS
ASSUME PeersAssumption == MaxBuffers \in Nat \ {0}

NoSide == [n |-> 0, mem |-> Nowhere, dma |-> FALSE, map |-> FALSE]
Side(offer, dma, map) == [n |-> offer.n, mem |-> offer.mem, dma |-> dma, map |-> map]
Own(n, me) == [n |-> n, mem |-> me]

-----------------------------------------------------------------------------
(* sdrm_requestbuffer_output(): the screen lends its dumb buffers, or takes       *)
(* the descriptors of all of its buffers: one that has none gives no frame         *)
(* buffer, one too many is written past the table.  To lend memory it writes the    *)
(* addresses over the variables of main(), and they are not mapped any more.        *)
ScreenSink(hw, d, me, t, offer) ==
    CASE t = "dmabuf_master" -> Accepted(Side(Own(MaxBuffers, me), TRUE, FALSE), Own(MaxBuffers, me))
      [] t = "memory_master" -> Undefined(d, offer)
      [] t = "dmabuf" /\ hw.imports /\ offer.n > MaxBuffers -> Undefined(d, offer)
      [] t = "dmabuf" /\ hw.imports /\ offer.n = MaxBuffers -> Accepted(Side(offer, TRUE, FALSE), offer)
      [] OTHER -> Refused(d, offer)

(* sdrm_requestbuffer_input(): the writeback only lends its buffers.              *)
WritebackSource(d, me, t, offer) ==
    IF t = "dmabuf_master"
    THEN Accepted(Side(Own(MaxBuffers, me), TRUE, FALSE), Own(MaxBuffers, me)) ELSE Refused(d, offer)

-----------------------------------------------------------------------------
(* segl_requestbuffer_output(): one texture for each descriptor or address, none  *)
(* is a refusal; nbuffers goes on from the request before.                         *)
EglSink(hw, d, t, offer) ==
    IF offer.n > 0 /\ ((t = "dmabuf" /\ hw.eglDma) \/ (t = "memory" /\ hw.eglMem))
    THEN Accepted([Side(offer, t = "dmabuf", t = "memory") EXCEPT !.n = d.n + offer.n], offer)
    ELSE Refused(d, offer)

(* segl_duplicate(): the buffers of the export, with descriptors or not;          *)
(* segl_requestbuffer_input() lends those that it has, and takes addresses for     *)
(* its buffers, whose number is then the one of the addresses.                     *)
EglSource(d, t, offer) ==
    CASE t = "dmabuf_master" /\ d.dma -> Accepted(d, [n |-> d.n, mem |-> d.mem])
      [] t = "memory_master" /\ d.map -> Accepted(d, [n |-> d.n, mem |-> d.mem])
      [] t = "memory" -> IF offer.n > d.n THEN Undefined(d, offer) ELSE Accepted(Side(offer, d.dma, TRUE), offer)
      [] OTHER -> Refused(d, offer)

-----------------------------------------------------------------------------
(* shailo_requestbuffer(): both sides lend only memory; the main side maps the     *)
(* descriptors it is given.                                                        *)
Hailo(d, me, conf, t, offer) ==
    CASE t = "memory_master" -> Accepted(Side(Own(conf, me), FALSE, TRUE), Own(conf, me))
      [] t \in {"memory", "dmabuf"} -> Accepted(Side(offer, t = "dmabuf", TRUE), offer)
      [] OTHER -> Refused(d, offer)

-----------------------------------------------------------------------------
(* What a side with buffers lends, in stile_requestbuffer() and in                 *)
(* spassthrough_requestbuffer().                                                   *)
Lends(d, t, offer) ==
    IF d.n > 0 /\ ((t = "dmabuf_master" /\ d.dma) \/ (t = "memory_master" /\ d.map))
    THEN Accepted(d, [n |-> d.n, mem |-> d.mem]) ELSE Refused(d, offer)

(* stile_requestbuffer(): what is taken; the dup side of a tiling that is the       *)
(* master of its output has its own ring then, in descriptors as well as in memory. *)
TileSlave(d, t, offer) ==
    IF t \in {"memory", "dmabuf"} THEN Accepted(Side(offer, t = "dmabuf", TRUE), offer) ELSE Refused(d, offer)
TileRing(hw, me, ntiles, offer) == Side(Own(offer.n * ntiles, me), hw.heap, TRUE)

-----------------------------------------------------------------------------
(* spassthrough_requestbuffer() as a slave: the side keeps the buffers it has, and   *)
(* maps the descriptors of those; the dup side gets the same ones, or copies.        *)
PassthroughSlave(d, t, offer) ==
    LET kept == IF d.n = 0 THEN Side(offer, t = "dmabuf", TRUE) ELSE d
    IN  CASE t = "memory" -> Accepted(kept, offer)
          [] t = "dmabuf" /\ ~ kept.dma -> Refused(NoSide, offer)
          [] t = "dmabuf" /\ kept.dma /\ kept.n < offer.n -> Undefined(kept, offer)
          [] OTHER -> Accepted(kept, offer)
(* _passthrough_createbuffers() for the dup side: dma_bufs of the heap, or memory. *)
PassthroughDup(hw, copy, me, t, offer) ==
    IF copy THEN Side(Own(offer.n, me), t = "dmabuf" /\ hw.heap, TRUE)
    ELSE Side(offer, t = "dmabuf", t = "memory")
(* Without a heap, the copies of descriptors cannot be allocated.                  *)
CannotCopy(hw, copy, t, offer) == copy /\ t = "dmabuf" /\ ~ hw.heap /\ offer.n > 0

-----------------------------------------------------------------------------
(* sfile_requestbuffer(), for writing: whatever is handed.  To lend, it reads the     *)
(* first of its buffers, and main() only asks it while it has none.                   *)
FileSink(d, t, offer) ==
    IF t \in {"memory", "dmabuf"} THEN Accepted(Side(offer, t = "dmabuf", t = "memory"), offer)
    ELSE Undefined(d, offer)
=============================================================================
