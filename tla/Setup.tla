-------------------------------- MODULE Setup --------------------------------
(***************************************************************************)
(* main() of src/fastvideo.c before its loop: the devices of a command line     *)
(* (a camera, transfers, an output) are created one after the other, then the    *)
(* two ends of each pipe agree on their buffers, in four attempts: the input       *)
(* lends descriptors or memory, then the output does.  Device k is the sink of     *)
(* pipe k - 1 and, itself or by its duplicate, the source of pipe k.               *)
(***************************************************************************)
EXTENDS Peers, V4l2Formats, Definition, Display, TileGrid

CONSTANTS Chains,       \* the command lines: sequences of kinds of devices
          Drivers,      \* the drivers of the camera
          M2mDriver,    \* the driver of the memory to memory device
          Files,        \* the configuration files
          CommandLine,  \* the options that names can have
          Cards,        \* the DRM cards
          Tiling,       \* the transfer definition of the tiling: width, height, ntiles
          Counts        \* nbuffers of the camera

Kinds == {"camera", "m2m", "passthrough", "copy", "egl", "hailo", "tile", "writeback", "screen", "file"}
Transfers == Kinds \ {"camera", "screen", "file"}
V4l2Kinds == {"camera", "m2m"}

(* The options -i, then -t for each transfer, then -o.                              *)
ASSUME ChainsAssumption ==
    \A c \in Chains :
        /\ c \in Seq(Kinds) /\ Len(c) > 1 /\ c[1] = "camera" /\ c[Len(c)] # "camera"
        /\ \A k \in 2 .. Len(c) - 1 : c[k] \in Transfers
(* A size that is given is a number, as nbuffers and those of the tiling are.         *)
ASSUME SizesAssumption ==
    /\ \A f \in {"width", "height"} :
           /\ \A file \in Files, name \in Kinds :
                  Found(file, name, Kinds) /\ f \in DOMAIN Entry(file, name).definition =>
                      Entry(file, name).definition[f].value \in Nat
           /\ \A o \in CommandLine :
                  /\ f \in DOMAIN o.in => o.in[f] \in Nat
                  /\ f \in DOMAIN o.out => o.out[f] \in Nat
    /\ Tiling.width \in Nat /\ Tiling.height \in Nat /\ Tiling.ntiles \in Nat
    /\ \A n \in Counts : n \in Nat \ {0}
(* What a driver or the kernel lists.  A driver has a format and a size before it     *)
(* is asked for one, no empty size, and grants a buffer at least.                    *)
IsList(s) == Len(s) \in Nat /\ DOMAIN s = 1 .. Len(s)
ASSUME DriversAssumption ==
    \A d \in Drivers \cup {M2mDriver} :
        /\ {"width", "height", "fourcc", "min"} \subseteq DOMAIN d /\ IsList(d.formats)
        /\ d.min \in Nat \ {0}
        /\ d.width \in Nat \ {0} /\ d.height \in Nat \ {0} /\ d.fourcc # ""
        /\ \A i \in DOMAIN d.sizes : d.sizes[i].w \in Nat \ {0} /\ d.sizes[i].h \in Nat \ {0}
        /\ d.stepwise => {1, 2} \subseteq DOMAIN d.sizes
(* The kernel gives each connector that is connected the encoders it can have.       *)
ASSUME CardsAssumption ==
    \A c \in Cards :
        /\ IsList(c.connectors) /\ IsList(c.encoders) /\ IsList(c.crtcs) /\ IsList(c.planes)
        /\ \A i \in DOMAIN c.connectors : c.connectors[i].connected =>
               /\ c.connectors[i].encoders \in Seq(Nat) \ {<<>>}
               /\ \A j \in DOMAIN c.connectors[i].encoders :
                      \E k \in DOMAIN c.encoders : c.encoders[k].id = c.connectors[i].encoders[j]

(* What the hardware and the kernel can do, for the devices of a chain.           *)
Flags == {"export", "dmabuf", "userptr", "imports", "eglDma", "eglMem", "eglExport", "heap", "tileMaster"}
FlagsOf(kind) ==
    CASE kind \in {"camera", "m2m"} -> {"export", "dmabuf", "userptr"}
      [] kind \in {"screen", "writeback"} -> {"imports"}
      [] kind = "egl" -> {"eglDma", "eglMem", "eglExport"}
      [] kind = "copy" -> {"heap"}
      [] kind = "tile" -> {"heap", "tileMaster"}
      [] OTHER -> {}
Hardware(c) ==
    { h \in [Flags -> BOOLEAN] : \A f \in Flags \ UNION { FlagsOf(c[i]) : i \in DOMAIN c } : h[f] }

VARIABLES
    pc,        \* "create", "negotiate", "ready", "running", "ended", or
               \* "refused" (main() returns -1), "undefined" (no telling what follows)
    chain, hw, drv, file, options, card, count, keep,   \* what main() is given
    dev,       \* creation: the next device; negotiation: the pipe
    conf,      \* the configuration of the sink and of the source side of each device
    src, snk,  \* the two sides of each pipe
    att,       \* negotiation: the attempt
    offer,     \* negotiation: nbbufs, dma_bufs of the pipe
    how        \* the attempt that each pipe agreed on

given == <<chain, hw, file, options, card, count, keep>>
vars == <<pc, given, drv, dev, conf, src, snk, att, offer, how>>

Pipes == 1 .. Len(chain) - 1
Sides == {"sink", "source"}
Me(k, side) == <<k, side>>
NoOffer == Own(0, Nowhere)

Init ==
    /\ pc = "create" /\ dev = 1 /\ att = 1 /\ offer = NoOffer
    /\ chain \in Chains /\ hw \in Hardware(chain)
    /\ drv \in Drivers /\ file \in Files /\ options \in CommandLine
    /\ card \in IF \E k \in DOMAIN chain : chain[k] \in {"screen", "writeback"} THEN Cards
               ELSE { CHOOSE c \in Cards : TRUE }   \* no device looks at it
    /\ count \in Counts
    /\ keep \in BOOLEAN       \* no MODE_INITIALIZE: main_loop() is called
    /\ conf = [k \in DOMAIN chain |-> [s \in Sides |-> Cleared]]
    /\ src = [p \in Pipes |-> NoSide] /\ snk = [p \in Pipes |-> NoSide]
    /\ how = [p \in Pipes |-> 0]

-----------------------------------------------------------------------------
(* main_createdevice(): the entry of the file, then the options and the            *)
(* definition; a transfer and an output get the rest from the source of the pipe.   *)
OptionsOf(k) == IF k = Len(chain) THEN options.out ELSE IF k = 1 THEN options.in ELSE <<>>
Exists(k) == Found(file, chain[k], Kinds)
OwnConf(k) == Loaded(chain[k] \in V4l2Kinds, OptionsOf(k), Entry(file, chain[k]).definition)
Chosen(k) == Choice(conf[k - 1]["source"], OwnConf(k))

(* The create() of each kind, when it succeeds: the configuration after it.         *)
(* shailo_create() and segl_create() may fail as well, for their library.            *)
GridOf(c) == Grid(c.width, c.height, Tiling.width, Tiling.height, Tiling.ntiles)
NTiles(c) == GridOf(c).x * GridOf(c).y
CameraMode == Mode(drv, {}, "input")
Creates(k, c) ==
    CASE chain[k] = "camera"    -> Capable(drv, {}, "input")
      [] chain[k] = "m2m"       -> Capable(M2mDriver, {}, "transfer")
      [] chain[k] = "screen"    -> Displays(card, FALSE, c)
      [] chain[k] = "writeback" -> Displays(card, TRUE, c)
      [] chain[k] = "tile"      -> c.width > 0 /\ c.height > 0 /\ NTiles(c) > 0
      [] OTHER                  -> TRUE
MayFail(k) == chain[k] \in {"egl", "hailo"}
M2mSet(c) == Prepare(M2mDriver, Mode(M2mDriver, {}, "transfer"), FALSE, c)
SinkConf(k, c) == IF chain[k] = "m2m" THEN Settled(M2mSet(c), c) ELSE c

(* The configuration of the duplicate, in the duplicate() of each kind.             *)
SourceConf(k, c) ==
    CASE chain[k] = "hailo" -> [c EXCEPT !.fourcc = "NMS", !.width = 0, !.height = 0]
      [] chain[k] = "tile"  -> [c EXCEPT !.width = GridOf(c).w, !.height = GridOf(c).h]
      [] chain[k] = "copy"  -> [Duplicated(Cleared, c) EXCEPT !.fourcc = "RGB4"]
      [] chain[k] \in {"m2m", "passthrough", "egl", "writeback"} -> Duplicated(Cleared, c)
      [] OTHER -> c
(* The buffers that a duplicate has from the start: those of the export of EGL.     *)
SourceSide(k) ==
    IF chain[k] = "egl" THEN [n |-> MaxBuffers, mem |-> Me(k, "source"), dma |-> hw.eglExport, map |-> FALSE]
    ELSE NoSide
FirstSide(k) == IF chain[k] \in {"camera", "m2m"} THEN NoBuffers ELSE SourceSide(k)

CreateInput ==
    /\ dev = 1 /\ Exists(1) /\ Creates(1, OwnConf(1))
    /\ drv' = Prepare(drv, CameraMode, FALSE, OwnConf(1))
    /\ conf' = [conf EXCEPT ![1] = [@ EXCEPT !["source"] = Settled(drv', OwnConf(1))]]
    /\ src' = [src EXCEPT ![1] = NoBuffers]
    /\ UNCHANGED snk

CreateSink(k) ==
    /\ dev = k /\ Exists(k)
    /\ Creates(k, Chosen(k).out)
    /\ snk' = [snk EXCEPT ![k - 1] = IF chain[k] = "m2m" THEN NoBuffers ELSE NoSide]
    /\ UNCHANGED drv

(* main_createtransfer(): the device, then its duplicate.                           *)
CreateTransfer ==
    /\ dev \in 2 .. Len(chain) - 1 /\ CreateSink(dev)
    /\ LET c == SinkConf(dev, Chosen(dev).out)
       IN  conf' = [conf EXCEPT ![dev - 1]["source"] = Chosen(dev).in, ![dev]["sink"] = c,
                                ![dev]["source"] = SourceConf(dev, c)]
    /\ src' = [src EXCEPT ![dev] = FirstSide(dev)]

(* main_createoutput().                                                             *)
CreateOutput ==
    /\ dev = Len(chain) /\ CreateSink(dev)
    /\ conf' = [conf EXCEPT ![dev - 1]["source"] = Chosen(dev).in,
                            ![dev]["sink"] = SinkConf(dev, Chosen(dev).out)]
    /\ UNCHANGED src

Created ==
    /\ CreateInput \/ CreateTransfer \/ CreateOutput
    /\ IF dev = Len(chain) THEN pc' = "negotiate" /\ dev' = 1 ELSE UNCHANGED pc /\ dev' = dev + 1
CannotCreate ==
    /\ \/ ~ Exists(dev)
       \/ MayFail(dev)
       \/ ~ Creates(dev, IF dev = 1 THEN OwnConf(1) ELSE Chosen(dev).out)
    /\ pc' = "refused" /\ UNCHANGED <<drv, dev, conf, src, snk>>
Create ==
    /\ pc = "create" /\ (Created \/ CannotCreate)
    /\ UNCHANGED <<given, att, offer, how>>

-----------------------------------------------------------------------------
(* requestbuffer() of the source and of the sink of pipe p.                         *)
Hw(k) == [f \in Flags \cup {"min"} |->
            IF f # "min" THEN hw[f] ELSE IF chain[k] = "camera" THEN drv.min ELSE M2mDriver.min]
AskSource(p, t, o) ==
    LET d == src[p] me == Me(p, "source")
    IN  CASE chain[p] \in {"camera", "m2m"} -> RequestV4l2(Hw(p), d, me, IF p = 1 THEN count ELSE MaxBuffers, t, o)
          [] chain[p] = "writeback" -> WritebackSource(d, me, t, o)
          [] chain[p] = "egl"       -> EglSource(d, t, o)
          [] chain[p] = "hailo"     -> IF t = "memory" THEN Undefined(d, o) ELSE Hailo(d, me, MaxBuffers, t, o)
          [] chain[p] = "tile"      -> IF t \in {"memory", "dmabuf"} THEN TileSlave(d, t, o) ELSE Lends(d, t, o)
          [] OTHER                  -> IF t \in {"memory", "dmabuf"} THEN PassthroughSlave(d, t, o) ELSE Lends(d, t, o)
AskSink(p, t, o) ==
    LET d == snk[p] k == p + 1 me == Me(k, "sink")
    IN  CASE chain[k] = "m2m"  -> RequestV4l2(Hw(k), d, me, MaxBuffers, t, o)
          [] chain[k] \in {"screen", "writeback"} -> ScreenSink(hw, d, me, t, o)
          [] chain[k] = "egl"  -> EglSink(hw, d, t, o)
          [] chain[k] = "hailo" -> Hailo(d, me, MaxBuffers, t, o)
          [] chain[k] = "tile" -> TileSlave(d, t, o)
          [] chain[k] = "file" -> FileSink(d, t, o)
          [] OTHER ->
                IF t \notin {"memory", "dmabuf"} THEN Lends(d, t, o)
                ELSE IF CannotCopy(hw, chain[k] = "copy", t, o) THEN Refused(NoSide, o)
                ELSE PassthroughSlave(d, t, o)

(* The buffers that the sink gives its duplicate when it is asked as a slave.        *)
DupOf(p, t, a) ==
    LET k == p + 1 me == Me(p + 1, "source")
    IN  CASE chain[k] \in {"passthrough", "copy"} /\ a.ret = "ok" /\ t \in {"memory", "dmabuf"} ->
                PassthroughDup(hw, chain[k] = "copy", me, t, a.offer)
          [] chain[k] = "tile" /\ a.ret = "ok" /\ hw.tileMaster -> TileRing(hw, me, NTiles(conf[k]["sink"]), a.offer)
          [] OTHER -> src[k]

(* One attempt: the master, then the slave with what the master lends.              *)
FromInput == att \in {1, 2}
Type == IF att \in {1, 3} THEN "dmabuf" ELSE "memory"
LentAs(t) == IF t = "dmabuf" THEN "dmabuf_master" ELSE "memory_master"
Master == IF FromInput THEN AskSource(dev, LentAs(Type), offer) ELSE AskSink(dev, LentAs(Type), offer)
Slave == IF FromInput THEN AskSink(dev, Type, Master.offer) ELSE AskSource(dev, Type, Master.offer)
SourceAsked == IF FromInput THEN Master ELSE Slave
SinkAsked == IF FromInput THEN Slave ELSE Master

BothAsked ==
    /\ snk' = [snk EXCEPT ![dev] = SinkAsked.d]
    /\ src' = [p \in Pipes |-> IF p = dev THEN SourceAsked.d
                               ELSE IF p = dev + 1 /\ FromInput THEN DupOf(dev, Type, SinkAsked) ELSE src[p]]
NextAttempt ==
    IF att < 4 THEN att' = att + 1 /\ UNCHANGED pc ELSE pc' = "refused" /\ UNCHANGED att

MasterRefuses ==
    /\ Master.ret = "refused" /\ NextAttempt
    /\ IF FromInput THEN src' = [src EXCEPT ![dev] = Master.d] /\ UNCHANGED snk
       ELSE snk' = [snk EXCEPT ![dev] = Master.d] /\ UNCHANGED src
    /\ UNCHANGED <<dev, offer, how>>
SlaveRefuses ==
    /\ Master.ret = "ok" /\ Slave.ret = "refused" /\ NextAttempt
    /\ BothAsked /\ offer' = Master.offer
    /\ UNCHANGED <<dev, how>>
Agree ==
    /\ Master.ret = "ok" /\ Slave.ret = "ok"
    /\ BothAsked /\ how' = [how EXCEPT ![dev] = att] /\ att' = 1 /\ offer' = NoOffer
    /\ IF dev = Len(chain) - 1 THEN pc' = "ready" /\ UNCHANGED dev ELSE dev' = dev + 1 /\ UNCHANGED pc
Overrun ==
    /\ Master.ret = "undefined" \/ (Master.ret = "ok" /\ Slave.ret = "undefined")
    /\ pc' = "undefined" /\ UNCHANGED <<dev, src, snk, att, offer, how>>
Negotiate ==
    /\ pc = "negotiate"
    /\ MasterRefuses \/ SlaveRefuses \/ Agree \/ Overrun
    /\ UNCHANGED <<given, drv, conf>>

-----------------------------------------------------------------------------
(* main_loop() starts the devices; killdaemon() and the destruction of the pipes     *)
(* follow it, or what comes before it.                                               *)
StartLoop ==
    /\ pc = "ready" /\ keep /\ CanQueue(src[1]) /\ pc' = "running"
    /\ UNCHANGED <<src, snk>>
Destroy ==
    /\ \/ pc = "running" \/ (pc = "ready" /\ (~ keep \/ ~ CanQueue(src[1])))
    /\ pc' = "ended"
    /\ src' = [p \in Pipes |-> NoSide] /\ snk' = [p \in Pipes |-> NoSide]

Next ==
    \/ Create \/ Negotiate
    \/ (StartLoop \/ Destroy) /\ UNCHANGED <<given, drv, dev, conf, att, offer, how>>

Spec == Init /\ [][Next]_vars
-----------------------------------------------------------------------------
(* Every buffer that a started source has is known by the sink under the same          *)
(* index, and is the same memory, whatever was refused before the two agreed.  The      *)
(* dup side of a passthrough that is asked as a slave keeps its buffers without a word,  *)
(* and is left out, as are the command lines where a memory to memory device may be     *)
(* lent more addresses than it takes: behind a tiling, and behind a camera with more     *)
(* buffers than MAX_BUFFERS that is not next to it.  The code is the negotiation of      *)
(* fastvideo.c:517 and the requestbuffer() of each device.                              *)
Deaf(p) == chain[p] \in {"passthrough", "copy"} /\ how[p] \in {3, 4}
NumbersAgree ==
    \A j \in DOMAIN chain : chain[j] = "m2m" =>
        /\ \A i \in 1 .. j - 1 : chain[i] # "tile"
        /\ j > 2 => count <= MaxBuffers /\ drv.min <= MaxBuffers
FramesShared ==
    pc = "running" /\ NumbersAgree =>
        \A p \in Pipes : ~ Deaf(p) /\ src[p].n > 0 =>
            src[p].n <= snk[p].n /\ src[p].mem = snk[p].mem

(* What a device is told of the picture, and not given itself, is what the source of     *)
(* its pipe really has: the camera's is what its driver settled on, not what was asked;   *)
(* a memory to memory device has what its own driver takes.                              *)
Told(k, f) == IF OwnConf(k)[f] # Zero(f) THEN OwnConf(k)[f] ELSE conf[k - 1]["source"][f]
SameDefinition ==
    pc \in {"negotiate", "ready", "running"} =>
        /\ \A f \in {"width", "height", "fourcc"} : conf[1]["source"][f] \in {drv[f]}
        /\ \A k \in 2 .. Len(chain) : chain[k] # "m2m" =>
               \A f \in Fields : conf[k]["sink"][f] = Told(k, f)

(* A screen that was created scans out along a path that its card has.                  *)
ScanoutFits ==
    pc \in {"negotiate", "ready", "running"} =>
        \A k \in 2 .. Len(chain) : chain[k] \in {"screen", "writeback"} =>
            Fits(Scanout(card, chain[k] = "writeback", conf[k]["sink"]))
=============================================================================
