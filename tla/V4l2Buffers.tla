----------------------------- MODULE V4l2Buffers -----------------------------
(***************************************************************************)
(* The buffers of a V4L2 device, src/sv4l2.c: the table of the program, those  *)
(* of the driver, and sv4l2_requestbuffer().  A device d has the memory type   *)
(* of its table, n entries, the memory behind them (mem: the name of who        *)
(* allocated it), how many entries have an address or a descriptor (linked),   *)
(* whether the entries are mapped, the memory type the driver holds buffers of  *)
(* (drv), MODE_MASTER, and whether the table is freed memory (freed).  A         *)
(* request answers with the device, ret and what it hands (offer).             *)
(***************************************************************************)
EXTENDS Naturals, FiniteSetsExt

(* Who allocated a memory is a sequence: none yet, or the address NULL.          *)
Nowhere == <<>>
Null == <<0>>
NoBuffers == [table |-> "none", n |-> 0, mem |-> Nowhere, linked |-> 0, mapped |-> FALSE,
              drv |-> "none", master |-> FALSE, freed |-> FALSE]

(* What the driver hw gives of count buffers: at least its minimum.             *)
Granted(hw, count) == IF count < hw.min THEN hw.min ELSE count
Smaller(a, b) == Min({a, b})

Refused(d, offer) == [ret |-> "refused", d |-> d, offer |-> offer]
Accepted(d, offer) == [ret |-> "ok", d |-> d, offer |-> offer]
(* The program reads or writes what it does not own: anything may follow.       *)
Undefined(d, offer) == [ret |-> "undefined", d |-> d, offer |-> offer]

-----------------------------------------------------------------------------
(* sv4l2_requestbuffer_mmap(): a table of that type is kept as it is; one of     *)
(* another type gives its number of buffers.  Every driver here has MMAP.       *)
Mmap(hw, d, me, count) ==
    IF d.table = "mmap" THEN d
    ELSE LET n == Granted(hw, IF d.table = "none" THEN count ELSE d.n)
         IN  [d EXCEPT !.table = "mmap", !.n = n, !.mem = me, !.linked = n, !.mapped = TRUE, !.drv = "mmap"]

(* sv4l2_requestbuffer_dmabuf(): a master exports mapped buffers first, gives    *)
(* them back to the driver and asks for DMABUF ones with their descriptors; a    *)
(* refused export leaves a table of no buffer.                                  *)
Exported(hw, d, me, count) ==
    LET m == Mmap(hw, d, me, count)
    IN  IF m.n > 0 /\ ~ (hw.export /\ m.drv = "mmap") THEN [ok |-> FALSE, d |-> [m EXCEPT !.n = 0]]
        ELSE [ok |-> hw.dmabuf, d |-> [m EXCEPT !.mapped = FALSE, !.drv = "none"]]
Requeued(hw, d, count, linked) ==
    [d EXCEPT !.table = "dmabuf", !.drv = "dmabuf", !.n = Granted(hw, count), !.linked = linked]
Dmabuf(hw, d, me, count) ==
    IF d.table = "dmabuf" THEN [ok |-> TRUE, d |-> d]
    ELSE IF d.master
    THEN LET e == Exported(hw, d, me, count)
         IN  IF e.ok THEN [ok |-> TRUE, d |-> Requeued(hw, e.d, count, Granted(hw, count))] ELSE e
    ELSE IF ~ hw.dmabuf THEN [ok |-> FALSE, d |-> d]
    ELSE [ok |-> TRUE, d |-> Requeued(hw, d, count, 0)]

(* sv4l2_requestbuffer_userptr(): the old table is freed before the driver       *)
(* agrees; more buffers than addresses is only reported.                        *)
UserPtr(hw, d, conf, offer) ==
    LET n == Granted(hw, Smaller(IF d.table = "none" THEN conf ELSE d.n, offer.n))
    IN  IF d.table = "userptr" THEN [ok |-> TRUE, d |-> d]
        ELSE IF ~ hw.userptr
        THEN [ok |-> FALSE, d |-> [d EXCEPT !.drv = "none", !.freed = d.table # "none"]]
        ELSE [ok |-> TRUE,
              d |-> [d EXCEPT !.table = "userptr", !.drv = "userptr", !.n = n, !.mem = offer.mem,
                              !.linked = Smaller(n, offer.n), !.mapped = FALSE]]

(* Mutant of LinkDma: the entries beyond the descriptors are left as they are.  *)
LinkSome(d, offer) ==
    Accepted([d EXCEPT !.mem = offer.mem, !.linked = IF d.master THEN d.n ELSE Smaller(d.n, offer.n)], offer)
(* sv4l2_linkdma(): the descriptors replace those of the entries, all of them or *)
(* the request is refused.                                                      *)
LinkDma(d, offer) ==
    LET linked == [d EXCEPT !.mem = offer.mem, !.linked = IF d.master THEN d.n ELSE Smaller(d.n, offer.n)]
    IN  IF d.n > offer.n THEN Refused(linked, offer) ELSE Accepted(linked, offer)

-----------------------------------------------------------------------------
(* The cases of sv4l2_requestbuffer(); conf is nbuffers of the configuration.   *)
MasterOf(d) == [d EXCEPT !.master = TRUE]
MemoryMaster(hw, d, me, conf, offer) ==
    LET m == Mmap(hw, MasterOf(d), me, conf)
    IN  Accepted(m, [n |-> m.n, mem |-> IF m.mapped THEN m.mem ELSE Null])
DmabufMaster(hw, d, me, conf, offer) ==
    LET a == Dmabuf(hw, MasterOf(d), me, conf)
    IN  IF a.ok THEN Accepted(a.d, [n |-> a.d.n, mem |-> a.d.mem]) ELSE Refused(a.d, offer)
MemorySlave(hw, d, conf, offer) ==
    LET a == UserPtr(hw, d, conf, offer)
    IN  IF a.ok THEN Accepted(a.d, offer) ELSE Refused(a.d, offer)
DmabufSlave(hw, d, me, offer) ==
    LET a == Dmabuf(hw, d, me, offer.n)
    IN  IF a.ok THEN LinkDma(a.d, offer) ELSE Refused(a.d, offer)
RequestV4l2(hw, d, me, conf, t, offer) ==
    IF d.freed THEN Undefined(d, offer)
    ELSE CASE t = "memory_master" -> MemoryMaster(hw, d, me, conf, offer)
           [] t = "dmabuf_master" -> DmabufMaster(hw, d, me, conf, offer)
           [] t = "memory"        -> MemorySlave(hw, d, conf, offer)
           [] t = "dmabuf"        -> DmabufSlave(hw, d, me, offer)

(* sv4l2_start(): every entry of a capture is queued, which the driver accepts   *)
(* for buffers it holds that have their memory.                                 *)
CanQueue(d) == d.n > 0 => d.drv = d.table /\ d.linked = d.n
=============================================================================
