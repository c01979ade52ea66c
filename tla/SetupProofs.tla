---------------------------- MODULE SetupProofs ----------------------------
(***************************************************************************)
(* Proofs about Setup, for any command line, configuration, drivers and      *)
(* cards: what a device is told of the picture is what the device before it  *)
(* has, a screen that was created can scan out, and the two ends of a pipe    *)
(* share their buffers when the loop starts.                                 *)
(***************************************************************************)
EXTENDS Setup, WellFoundedInduction, TLAPS

-----------------------------------------------------------------------------
(* The first of a sequence *)

(* A set of places that is not empty has a first one.                        *)
LEMMA MinIs ==
  ASSUME NEW n \in Nat, NEW I, I \subseteq 1 .. n, I # {}
  PROVE  Min(I) \in I
<1>1. I \in SUBSET Nat
  OBVIOUS
<1>2. PICK m \in I : \A k \in I : ~ (<<k, m>> \in OpToRel(<, Nat))
  BY <1>1, NatLessThanWellFounded, WFMin
<1>3. \A k \in I : ~ (k < m)
  BY <1>1, <1>2 DEF OpToRel
<1>4. \A k \in I : m =< k
  BY <1>1, <1>3
<1> QED
  BY <1>4 DEF Min

-----------------------------------------------------------------------------
(* What the driver settles on *)

(* The first format that the program knows is no empty one.                  *)
LEMMA FirstKnownIs ==
  ASSUME NEW d \in Drivers, FirstKnown(d) # 0
  PROVE  d.formats[FirstKnown(d)] # ""
<1> DEFINE I == { i \in 1 .. Len(d.formats) : d.formats[i] \in Known }
<1>1. FirstKnown(d) = IF I # {} THEN Min(I) ELSE 0
  BY DEF FirstKnown, SelectInSeq
<1>2. I # {} => Min(I) \in I
  <2>1. Len(d.formats) \in Nat
    BY DriversAssumption DEF IsList
  <2> QED
    BY <2>1, MinIs
<1>3. FirstKnown(d) \in I
  BY <1>1, <1>2
<1> QED
  BY <1>3 DEF Known

(* A size is kept, taken from those of the driver or clamped between them.   *)
LEMMA FrameSizeIs ==
  ASSUME NEW d \in Drivers, NEW w, NEW h, NEW s, s = SetFrameSize(d, w, h)
  PROVE  s.w # 0 /\ s.h # 0
<1> DEFINE v == Width(w, h)
           c == CheckFrameSize(d, v, h)
<1>1. /\ d.width \in Nat \ {0} /\ d.height \in Nat \ {0}
      /\ \A i \in DOMAIN d.sizes : d.sizes[i].w \in Nat \ {0} /\ d.sizes[i].h \in Nat \ {0}
  BY DriversAssumption
<1>2. CASE ~ (v > 0 /\ h > 0)
  BY <1>1, <1>2 DEF SetFrameSize
<1>3. CASE v > 0 /\ h > 0 /\ d.stepwise
  <2>1. 1 \in DOMAIN d.sizes /\ 2 \in DOMAIN d.sizes
    BY <1>3, DriversAssumption
  <2>2. s = [w |-> Clamp(v, d.sizes[1].w, d.sizes[2].w), h |-> Clamp(h, d.sizes[1].h, d.sizes[2].h)]
    BY <1>3 DEF SetFrameSize, Adjusted, CheckFrameSize
  <2> HIDE DEF v
  <2>3. \A lo, hi \in Nat \ {0} : Clamp(v, lo, hi) # 0 /\ Clamp(h, lo, hi) # 0
    BY <1>3 DEF Clamp
  <2> QED
    BY <1>1, <2>1, <2>2, <2>3
<1>4. CASE v > 0 /\ h > 0 /\ ~ d.stepwise
  <2>1. s = IF c \in ToSet(d.sizes) THEN c ELSE [w |-> d.width, h |-> d.height]
    BY <1>4 DEF SetFrameSize, Adjusted
  <2> HIDE DEF c
  <2> QED
    BY <1>1, <2>1 DEF ToSet
<1> QED
  BY <1>2, <1>3, <1>4

LEMMA FourccIs ==
  ASSUME NEW d \in Drivers, NEW type, NEW x
  PROVE  SetPixFormat(d, type, x) # ""
BY FirstKnownIs, DriversAssumption DEF SetPixFormat

(* _sv4l2_prepare() leaves the driver with a size and a format.              *)
LEMMA PrepareIs ==
  ASSUME NEW d \in Drivers, NEW mode, NEW c, NEW r, r = Prepare(d, mode, FALSE, c)
  PROVE  r.width # 0 /\ r.height # 0 /\ r.fourcc # ""
<1> DEFINE type == BufType(mode, FALSE)
           size == IF "meta" \in mode THEN [w |-> d.width, h |-> d.height]
                   ELSE SetFrameSize(d, c.width, c.height)
           fourcc == SetPixFormat(d, type, GetFourcc(d, c.fourcc))
           e == [d EXCEPT !.fourcc = fourcc, !.width = size.w, !.height = size.h]
<1>1. size.w # 0 /\ size.h # 0
  BY FrameSizeIs, DriversAssumption
<1>2. fourcc # ""
  BY FourccIs
<1>3. r = Fps(e, size.w, size.h, c.fps)
  BY DEF Prepare
<1> HIDE DEF size, fourcc, type
<1>4. /\ {"width", "height", "fourcc"} \subseteq DOMAIN e
      /\ e.width = size.w /\ e.height = size.h /\ e.fourcc = fourcc
  BY DriversAssumption
<1> HIDE DEF e
<1>5. r.width = e.width /\ r.height = e.height /\ r.fourcc = e.fourcc
  BY <1>3, <1>4 DEF Fps
<1> QED
  BY <1>1, <1>2, <1>4, <1>5

-----------------------------------------------------------------------------
(* The path of a screen *)

(* What sdrm_create() accepted is a path that the card has.                  *)
LEMMA DisplaysFits ==
  ASSUME NEW d \in Cards, NEW transfer, NEW c, Displays(d, transfer, c)
  PROVE  Fits(Scanout(d, transfer, c))
<1> DEFINE k == Connector(d, transfer)
           id == EncoderOf(d, k)
           e == EncoderAt(d, id)
           crtc == CrtcOf(d, e)
           plane == PlaneFor(d, crtc, c.fourcc)
<1>0. /\ Len(d.connectors) \in Nat /\ DOMAIN d.connectors = 1 .. Len(d.connectors)
      /\ Len(d.encoders) \in Nat /\ DOMAIN d.encoders = 1 .. Len(d.encoders)
      /\ Len(d.crtcs) \in Nat /\ Len(d.planes) \in Nat
  BY CardsAssumption DEF IsList
<1>1. /\ Usable(d, transfer) # 0 /\ id # 0 /\ crtc # 0 /\ plane # 0
      /\ Scanout(d, transfer, c).connector = k /\ Scanout(d, transfer, c).encoder = e
      /\ Scanout(d, transfer, c).crtc = crtc
      /\ Scanout(d, transfer, c).plane = << d.planes[plane] >>
  BY DEF Displays, HasConnector, Scanout
<1>2. k.connected /\ \E i \in DOMAIN d.connectors : k = d.connectors[i]
  <2> DEFINE I == { i \in 1 .. Len(d.connectors) :
                      d.connectors[i].connected /\ d.connectors[i].writeback = transfer }
  <2>1. Usable(d, transfer) = IF I # {} THEN Min(I) ELSE 0
    BY DEF Usable, SelectInSeq
  <2>2. I # {} => Min(I) \in I
    BY <1>0, MinIs
  <2> QED
    BY <1>0, <1>1, <2>1, <2>2 DEF Connector
<1> HIDE DEF k
<1>3. id \in ToSet(k.encoders) /\ \E j \in DOMAIN d.encoders : d.encoders[j].id = id
  BY <1>2, CardsAssumption DEF EncoderOf, Driven, ToSet
<1> HIDE DEF id
<1>4. e.id = id
  <2> DEFINE I == { i \in 1 .. Len(d.encoders) : d.encoders[i].id = id }
  <2>1. SelectInSeq(d.encoders, LAMBDA x : x.id = id) = IF I # {} THEN Min(I) ELSE 0
    BY DEF SelectInSeq
  <2>2. I # {} => Min(I) \in I
    BY <1>0, MinIs
  <2> QED
    BY <1>0, <1>3, <2>1, <2>2 DEF EncoderAt
<1> HIDE DEF e
<1>5. crtc = e.crtc \/ crtc \in e.possible
  <2> DEFINE I == { i \in 1 .. Len(d.crtcs) : d.crtcs[i] \in e.possible }
  <2>1. Possible(d, e) = IF I # {} THEN Min(I) ELSE 0
    BY DEF Possible, SelectInSeq
  <2>2. I # {} => Min(I) \in I
    BY <1>0, MinIs
  <2> QED
    BY <1>1, <2>1, <2>2 DEF CrtcOf
<1> HIDE DEF crtc
<1>6. crtc \in d.planes[plane].crtcs
  <2> DEFINE I == { i \in 1 .. Len(d.planes) :
                      /\ d.planes[i].primary /\ crtc \in d.planes[i].crtcs
                      /\ c.fourcc = "" \/ c.fourcc \in ToSet(d.planes[i].formats) }
  <2>1. plane = IF I # {} THEN Min(I) ELSE 0
    BY DEF PlaneFor, SelectInSeq
  <2>2. I # {} => Min(I) \in I
    BY <1>0, MinIs
  <2> QED
    BY <1>1, <2>1, <2>2
<1> HIDE DEF plane
<1> QED
  BY <1>1, <1>3, <1>4, <1>5, <1>6 DEF Fits

-----------------------------------------------------------------------------
(* The invariant *)

(* The devices that exist: those before dev while they are created, then all. *)
Made == IF pc = "create" THEN 1 .. dev - 1 ELSE DOMAIN chain
Whole(K, g) == g = [k \in K |-> [s \in Sides |-> g[k][s]]]
ConfOK == Whole(DOMAIN chain, conf)
Display(k) == chain[k] \in {"screen", "writeback"}

(* The camera has what its driver is set to, and it is set to something.      *)
InputOK == \A f \in {"width", "height", "fourcc"} : conf[1]["source"][f] = drv[f] /\ drv[f] # Zero(f)
SinkOK(k) ==
  /\ chain[k] # "m2m" => \A f \in Fields : conf[k]["sink"][f] = Told(k, f)
  /\ Display(k) => Fits(Scanout(card, chain[k] = "writeback", conf[k]["sink"]))

GivenOK == chain \in Chains /\ ((\E k \in DOMAIN chain : Display(k)) => card \in Cards)
CreateOK ==
  pc = "create" =>
    /\ dev \in 1 .. Len(chain)
    /\ dev = 1 => drv \in Drivers
ConfigOK ==
  pc \in {"create", "negotiate", "ready", "running"} =>
    /\ ConfOK
    /\ 1 \in Made => InputOK
    /\ \A k \in Made \ {1} : SinkOK(k)

(* What SameDefinition and ScanoutFits say of the devices, of those that       *)
(* already exist too.                                                         *)
SetupInv == GivenOK /\ CreateOK /\ ConfigOK

LEMMA ChainIs ==
  ASSUME GivenOK
  PROVE  Len(chain) \in Nat /\ Len(chain) > 1 /\ DOMAIN chain = 1 .. Len(chain)
BY ChainsAssumption DEF GivenOK

LEMMA OwnKept ==
  ASSUME UNCHANGED given, NEW k
  PROVE  OwnConf(k)' = OwnConf(k)
BY DEF OwnConf, OptionsOf, given

(* A side that another one is written beside is kept.                         *)
Written(g, k, side, c) == [g EXCEPT ![k][side] = c]
Others(K, g, h, j, side) ==
  \A k \in K, s \in Sides : ~ (k = j /\ s = side) => h[k][s] = g[k][s]

LEMMA OneSide ==
  ASSUME NEW K, NEW g, Whole(K, g), NEW j \in K, NEW side \in Sides, NEW c
  PROVE  /\ Whole(K, Written(g, j, side, c)) /\ Written(g, j, side, c)[j][side] = c
         /\ Others(K, g, Written(g, j, side, c), j, side)
BY DEF Written, Whole, Others

(* Both ends of a pipe are told the same: what the output lacks is what the    *)
(* input has, and the other way round.                                        *)
LEMMA ChoiceIs ==
  ASSUME NEW in, NEW out, NEW f \in Fields
  PROVE  /\ Choice(in, out).out[f] = IF out[f] # Zero(f) THEN out[f] ELSE Choice(in, out).in[f]
         /\ in[f] # Zero(f) => Choice(in, out).in[f] = in[f]
BY DEF Choice, Merged

-----------------------------------------------------------------------------
(* The input *)

LEMMA CreateInputOK ==
  ASSUME SetupInv, pc = "create", CreateInput, UNCHANGED given
  PROVE  /\ InputOK' /\ ConfOK'
<1> DEFINE c == Settled(drv', OwnConf(1))
<1>0. /\ drv \in Drivers /\ ConfOK /\ 1 \in DOMAIN chain
      /\ conf' = [conf EXCEPT ![1] = [@ EXCEPT !["source"] = c]]
      /\ drv' = Prepare(drv, CameraMode, FALSE, OwnConf(1)) /\ chain' = chain
  BY ChainIs DEF SetupInv, CreateOK, ConfigOK, CreateInput, given
<1>1. drv'.width # 0 /\ drv'.height # 0 /\ drv'.fourcc # ""
  BY <1>0, PrepareIs
<1>2. c.width = drv'.width /\ c.height = drv'.height /\ c.fourcc = drv'.fourcc
  <2>1. OwnConf(1) = [f \in Fields |-> OwnConf(1)[f]]
    BY DEF OwnConf, Loaded, FromFile
  <2> QED
    BY <2>1 DEF Settled, Fields
<1> HIDE DEF c
<1>3. conf'[1]["source"] = c /\ ConfOK'
  <2>1. conf' = Written(conf, 1, "source", c)
    BY <1>0 DEF Written
  <2>2. Whole(DOMAIN chain, conf) /\ 1 \in DOMAIN chain /\ "source" \in Sides
    BY <1>0 DEF ConfOK, Sides
  <2>3. Whole(DOMAIN chain, conf') /\ conf'[1]["source"] = c
    BY <2>1, <2>2, OneSide
  <2> QED
    BY <1>0, <2>3 DEF ConfOK
<1> QED
  BY <1>1, <1>2, <1>3 DEF InputOK, Zero

-----------------------------------------------------------------------------
(* A transfer or an output *)

(* What creating the device at dev changes of the configurations.            *)
Joined ==
  /\ ConfOK'
  /\ conf'[dev - 1]["source"] = Chosen(dev).in
  /\ conf'[dev]["sink"] = SinkConf(dev, Chosen(dev).out)
  /\ \A k \in 1 .. dev - 1 : conf'[k]["sink"] = conf[k]["sink"]
  /\ \A k \in 1 .. dev - 2 : conf'[k]["source"] = conf[k]["source"]

LEMMA OutputJoins ==
  ASSUME SetupInv, pc = "create", CreateOutput, UNCHANGED given
  PROVE  Joined
<1> DEFINE k == dev
           K == DOMAIN chain
           in == Chosen(k).in
           sink == SinkConf(k, Chosen(k).out)
           e == Written(conf, k - 1, "source", in)
           g == Written(e, k, "sink", sink)
<1>0. /\ ConfOK /\ k = Len(chain) /\ k \in Nat /\ k > 1 /\ DOMAIN chain = 1 .. k /\ chain' = chain
      /\ conf' = [conf EXCEPT ![k - 1]["source"] = in, ![k]["sink"] = sink]
  BY ChainIs DEF SetupInv, CreateOK, ConfigOK, CreateOutput, given
<1> HIDE DEF in, sink, k
<1>1. conf' = g
  BY <1>0 DEF Written
<1>2. /\ k \in K /\ k - 1 \in K /\ k # k - 1
      /\ \A i \in 1 .. k - 1 : i \in K /\ i # k
      /\ \A i \in 1 .. k - 2 : i \in K /\ i # k /\ i # k - 1
  BY <1>0
<1>3. Whole(K, e) /\ e[k - 1]["source"] = in /\ Others(K, conf, e, k - 1, "source")
  BY <1>0, <1>2, OneSide DEF ConfOK, Sides
<1> HIDE DEF e
<1>4. Whole(K, g) /\ g[k]["sink"] = sink /\ Others(K, e, g, k, "sink")
  BY <1>2, <1>3, OneSide DEF Sides
<1> HIDE DEF g
<1>5. ConfOK'
  BY <1>0, <1>1, <1>4 DEF ConfOK
<1>6. conf'[k - 1]["source"] = in /\ conf'[k]["sink"] = sink
  BY <1>0, <1>1, <1>2, <1>3, <1>4 DEF Others, Sides
<1>7. \A i \in 1 .. k - 1 : conf'[i]["sink"] = conf[i]["sink"]
  BY <1>0, <1>1, <1>2, <1>3, <1>4 DEF Others, Sides
<1>8. \A i \in 1 .. k - 2 : conf'[i]["source"] = conf[i]["source"]
  BY <1>0, <1>1, <1>2, <1>3, <1>4 DEF Others, Sides
<1> QED
  BY <1>5, <1>6, <1>7, <1>8 DEF Joined, k, in, sink

LEMMA TransferJoins ==
  ASSUME SetupInv, pc = "create", CreateTransfer, UNCHANGED given
  PROVE  Joined
<1> DEFINE k == dev
           K == DOMAIN chain
           in == Chosen(k).in
           sink == SinkConf(k, Chosen(k).out)
           source == SourceConf(k, sink)
           e == Written(conf, k - 1, "source", in)
           g == Written(e, k, "sink", sink)
<1>0. /\ ConfOK /\ k < Len(chain) /\ k \in Nat /\ k > 1 /\ chain' = chain
      /\ Len(chain) \in Nat /\ DOMAIN chain = 1 .. Len(chain)
      /\ conf' = [conf EXCEPT ![k - 1]["source"] = in, ![k]["sink"] = sink, ![k]["source"] = source]
  BY ChainIs DEF SetupInv, CreateOK, ConfigOK, CreateTransfer, given
<1> HIDE DEF in, sink, source, k
<1>1. conf' = Written(g, k, "source", source)
  BY <1>0 DEF Written
<1>2. /\ k \in K /\ k - 1 \in K /\ k # k - 1
      /\ \A i \in 1 .. k - 1 : i \in K /\ i # k
      /\ \A i \in 1 .. k - 2 : i \in K /\ i # k /\ i # k - 1
  BY <1>0
<1>3. Whole(K, e) /\ e[k - 1]["source"] = in /\ Others(K, conf, e, k - 1, "source")
  BY <1>0, <1>2, OneSide DEF ConfOK, Sides
<1> HIDE DEF e
<1>4. Whole(K, g) /\ g[k]["sink"] = sink /\ Others(K, e, g, k, "sink")
  BY <1>2, <1>3, OneSide DEF Sides
<1> HIDE DEF g
<1>5. Whole(K, conf') /\ Others(K, g, conf', k, "source")
  BY <1>1, <1>2, <1>4, OneSide DEF Sides
<1>6. ConfOK'
  BY <1>0, <1>5 DEF ConfOK
<1>7. conf'[k - 1]["source"] = in /\ conf'[k]["sink"] = sink
  BY <1>0, <1>2, <1>3, <1>4, <1>5 DEF Others, Sides
<1>8. \A i \in 1 .. k - 1 : conf'[i]["sink"] = conf[i]["sink"]
  BY <1>0, <1>2, <1>3, <1>4, <1>5 DEF Others, Sides
<1>9. \A i \in 1 .. k - 2 : conf'[i]["source"] = conf[i]["source"]
  BY <1>0, <1>2, <1>3, <1>4, <1>5 DEF Others, Sides
<1> QED
  BY <1>6, <1>7, <1>8, <1>9 DEF Joined, k, in, sink

(* The device that joins is told what the one before it has, which keeps what  *)
(* it has itself; the others are as they were.                                *)
LEMMA JoinedOK ==
  ASSUME SetupInv, pc = "create", dev \in 2 .. Len(chain), CreateSink(dev), Joined, UNCHANGED given
  PROVE  InputOK' /\ \A k \in 2 .. dev : SinkOK(k)'
<1> DEFINE in == conf[dev - 1]["source"]
           out == OwnConf(dev)
<1>0. /\ Len(chain) \in Nat /\ Len(chain) > 1 /\ DOMAIN chain = 1 .. Len(chain)
      /\ dev \in Nat /\ dev > 1 /\ chain' = chain /\ card' = card /\ drv' = drv
      /\ InputOK /\ \A k \in 2 .. dev - 1 : SinkOK(k)
      /\ Chosen(dev) = Choice(in, out)
  <2>1. Made = 1 .. dev - 1
    BY DEF Made
  <2> QED
    BY ChainIs, <2>1 DEF SetupInv, ConfigOK, CreateSink, given, Chosen
<1>1. InputOK'
  <2>1. CASE dev = 2
    <3>1. \A f \in {"width", "height", "fourcc"} : conf'[1]["source"][f] = Choice(in, out).in[f] /\ f \in Fields
      BY <1>0, <2>1 DEF Joined, Fields
    <3>2. \A f \in {"width", "height", "fourcc"} : in[f] = drv[f] /\ drv[f] # Zero(f)
      BY <1>0, <2>1 DEF InputOK
    <3> HIDE DEF in, out
    <3>3. \A f \in {"width", "height", "fourcc"} : Choice(in, out).in[f] = in[f]
      BY <3>1, <3>2, ChoiceIs
    <3> QED
      BY <1>0, <3>1, <3>2, <3>3 DEF InputOK
  <2>2. CASE dev # 2
    <3>1. conf'[1]["source"] = conf[1]["source"]
      BY <1>0, <2>2 DEF Joined
    <3> QED
      BY <1>0, <3>1 DEF InputOK
  <2> QED
    BY <2>1, <2>2
<1>2. ASSUME NEW k \in 2 .. dev - 1
      PROVE  SinkOK(k)'
  <2>1. SinkOK(k) /\ conf'[k]["sink"] = conf[k]["sink"]
    BY <1>0, <1>2 DEF Joined
  <2>2. conf'[k - 1]["source"] = conf[k - 1]["source"] /\ OwnConf(k)' = OwnConf(k)
    BY <1>0, <1>2, OwnKept DEF Joined
  <2>3. \A f \in Fields : Told(k, f)' = Told(k, f)
    BY <2>2 DEF Told
  <2> QED
    BY <1>0, <2>1, <2>3 DEF SinkOK, Display
<1>3. ASSUME NEW k \in 2 .. dev, k = dev
      PROVE  SinkOK(k)'
  <2> DEFINE sink == conf'[k]["sink"]
  <2>1. sink = SinkConf(k, Choice(in, out).out) /\ conf'[k - 1]["source"] = Choice(in, out).in
    BY <1>0, <1>3 DEF Joined
  <2>2. ASSUME chain[k] # "m2m", NEW f \in Fields
        PROVE  sink[f] = Told(k, f)'
    <3>1. sink = Choice(in, out).out
      BY <2>1, <2>2 DEF SinkConf
    <3>2. OwnConf(k)' = out
      BY <1>3, OwnKept
    <3> HIDE DEF sink, in, out
    <3>3. Told(k, f)' = IF out[f] # Zero(f) THEN out[f] ELSE Choice(in, out).in[f]
      BY <2>1, <3>2 DEF Told
    <3> QED
      BY <3>1, <3>3, ChoiceIs
  <2>3. ASSUME Display(k)
        PROVE  Fits(Scanout(card, chain[k] = "writeback", sink))
    <3>1. card \in Cards /\ chain[k] # "m2m"
      BY <1>0, <1>3, <2>3 DEF SetupInv, GivenOK, Display
    <3>2. Displays(card, chain[k] = "writeback", Chosen(k).out)
      BY <1>3, <2>3 DEF CreateSink, Creates, Display
    <3>3. sink = Chosen(k).out
      BY <1>0, <1>3, <2>1, <3>1 DEF SinkConf
    <3> QED
      BY <3>1, <3>2, <3>3, DisplaysFits
  <2> QED
    BY <1>0, <2>2, <2>3 DEF SinkOK, Display
<1>4. \A k \in 2 .. dev : k = dev \/ k \in 2 .. dev - 1
  BY <1>0
<1> QED
  BY <1>1, <1>2, <1>3, <1>4

-----------------------------------------------------------------------------
(* The steps *)

LEMMA SetupInit ==
  ASSUME Init
  PROVE  SetupInv
<1>1. GivenOK
  BY DEF Init, GivenOK, Display
<1>2. CreateOK
  BY <1>1, ChainIs DEF Init, CreateOK
<1>3. ConfOK /\ Made = {}
  BY DEF Init, ConfOK, Whole, Made
<1> QED
  BY <1>1, <1>2, <1>3 DEF SetupInv, ConfigOK

LEMMA GivenKept ==
  ASSUME SetupInv, UNCHANGED given
  PROVE  GivenOK'
BY DEF SetupInv, GivenOK, Display, given

(* One more device exists, and the ones before it are as ConfigOK says.       *)
LEMMA CreatedOK ==
  ASSUME SetupInv, pc = "create", Created, UNCHANGED given
  PROVE  SetupInv'
<1>0. /\ Len(chain) \in Nat /\ Len(chain) > 1 /\ DOMAIN chain = 1 .. Len(chain)
      /\ dev \in 1 .. Len(chain) /\ chain' = chain
  BY ChainIs DEF SetupInv, CreateOK, given
<1>1. GivenOK'
  BY GivenKept
<1>2. IF dev = Len(chain) THEN pc' = "negotiate" /\ dev' = 1 ELSE pc' = pc /\ dev' = dev + 1
  BY DEF Created
<1>3. CreateOK'
  <2>1. CASE dev = Len(chain)
    BY <1>2, <2>1 DEF CreateOK
  <2>2. CASE dev # Len(chain)
    <3>1. dev' = dev + 1
      BY <1>2, <2>2
    <3>2. \A n \in Nat : \A d \in 1 .. n : d # n => d + 1 \in 1 .. n /\ d + 1 # 1
      OBVIOUS
    <3>3. dev' \in 1 .. Len(chain) /\ dev' # 1
      BY <1>0, <2>2, <3>1, <3>2
    <3> QED
      BY <1>0, <3>3 DEF CreateOK
  <2> QED
    BY <2>1, <2>2
<1>4. Made' = 1 .. dev
  <2>1. CASE dev = Len(chain)
    BY <1>0, <1>2, <2>1 DEF Made
  <2>2. CASE dev # Len(chain)
    <3>1. dev' = dev + 1 /\ pc' = "create"
      BY <1>2, <2>2
    <3>2. dev' - 1 = dev
      BY <1>0, <3>1
    <3> QED
      BY <3>1, <3>2 DEF Made
  <2> QED
    BY <2>1, <2>2
<1>5. ConfOK' /\ InputOK' /\ \A k \in 2 .. dev : SinkOK(k)'
  <2>1. CASE CreateInput
    BY <1>0, <2>1, CreateInputOK DEF CreateInput
  <2>2. CASE CreateTransfer \/ CreateOutput
    <3>1. Joined
      BY <2>2, TransferJoins, OutputJoins
    <3>2. dev \in 2 .. Len(chain) /\ CreateSink(dev)
      BY <1>0, <2>2 DEF CreateTransfer, CreateOutput
    <3> QED
      BY <3>1, <3>2, JoinedOK DEF Joined
  <2> QED
    BY <2>1, <2>2 DEF Created
<1>6. \A k \in Made' \ {1} : k \in 2 .. dev
  BY <1>0, <1>4
<1>7. ConfigOK'
  BY <1>5, <1>6 DEF ConfigOK
<1> QED
  BY <1>1, <1>3, <1>7 DEF SetupInv

(* The configurations are what they were, and so are the devices.            *)
LEMMA ConfigKept ==
  ASSUME SetupInv, UNCHANGED <<given, drv, conf>>, Made' \subseteq Made,
         pc' \in {"create", "negotiate", "ready", "running"} =>
             pc \in {"create", "negotiate", "ready", "running"}
  PROVE  ConfigOK'
<1>0. /\ UNCHANGED given /\ chain' = chain /\ card' = card /\ drv' = drv /\ conf' = conf
  BY DEF given
<1> SUFFICES ASSUME pc' \in {"create", "negotiate", "ready", "running"}
             PROVE  /\ ConfOK'
                    /\ 1 \in Made' => InputOK'
                    /\ \A k \in Made' \ {1} : SinkOK(k)'
  BY DEF ConfigOK
<1>1. ConfigOK
  BY DEF SetupInv
<1>2. ConfOK' /\ (1 \in Made' => InputOK')
  BY <1>0, <1>1 DEF ConfigOK, ConfOK, InputOK
<1>3. ASSUME NEW k \in Made' \ {1}
      PROVE  SinkOK(k)'
  <2>1. SinkOK(k)
    BY <1>1, <1>3 DEF ConfigOK
  <2>2. \A f \in Fields : Told(k, f)' = Told(k, f)
    BY <1>0, OwnKept DEF Told
  <2> QED
    BY <1>0, <2>1, <2>2 DEF SinkOK, Display
<1> QED
  BY <1>2, <1>3

LEMMA SetupStep ==
  ASSUME SetupInv, Next
  PROVE  SetupInv'
<1>1. CASE Create
  <2>1. CASE Created
    BY <1>1, <2>1, CreatedOK DEF Create
  <2>2. CASE CannotCreate
    <3>1. UNCHANGED given /\ pc' = "refused"
      BY <1>1, <2>2 DEF Create, CannotCreate
    <3> QED
      BY <3>1, GivenKept DEF SetupInv, CreateOK, ConfigOK
  <2> QED
    BY <1>1, <2>1, <2>2 DEF Create
<1>2. CASE Negotiate \/ ((StartLoop \/ Destroy) /\ UNCHANGED <<given, drv, dev, conf, att, offer, how>>)
  <2>1. /\ UNCHANGED given /\ drv' = drv /\ conf' = conf /\ chain' = chain
        /\ pc \in {"negotiate", "ready", "running"} /\ pc' # "create"
    <3>1. CASE Negotiate
      BY <3>1 DEF Negotiate, MasterRefuses, SlaveRefuses, Agree, Overrun, NextAttempt, given
    <3>2. CASE (StartLoop \/ Destroy) /\ UNCHANGED <<given, drv, dev, conf, att, offer, how>>
      BY <3>2 DEF StartLoop, Destroy, given
    <3> QED
      BY <1>2, <3>1, <3>2
  <2>2. Made' = Made
    BY <2>1 DEF Made
  <2> QED
    BY <2>1, <2>2, GivenKept, ConfigKept DEF SetupInv, CreateOK
<1>3. Create \/ Negotiate \/ ((StartLoop \/ Destroy) /\ UNCHANGED <<given, drv, dev, conf, att, offer, how>>)
  BY DEF Next
<1> HIDE DEF Next
<1> QED
  BY <1>1, <1>2, <1>3

LEMMA SetupStutters ==
  ASSUME SetupInv, UNCHANGED vars
  PROVE  SetupInv'
<1>1. UNCHANGED given /\ drv' = drv /\ conf' = conf /\ chain' = chain /\ pc' = pc /\ dev' = dev
  BY DEF vars, given
<1>2. Made' = Made
  BY <1>1 DEF Made
<1> QED
  BY <1>1, <1>2, GivenKept, ConfigKept DEF SetupInv, CreateOK

THEOREM SetupInvariant == Spec => []SetupInv
<1>1. Init => SetupInv
  BY SetupInit
<1>2. SetupInv /\ [Next]_vars => SetupInv'
  BY SetupStep, SetupStutters
<1> QED
  BY <1>1, <1>2, PTL DEF Spec

(* Once every device is created, the camera is configured as its driver was   *)
(* set by sv4l2_create(), and every device but the memory to memory one is     *)
(* told, by choice_config(), what the device before it has of what it was not   *)
(* given, for every command line, file and driver.                            *)
THEOREM DefinitionCorrect == Spec => []SameDefinition
<1>1. SetupInv => SameDefinition
  <2> SUFFICES ASSUME SetupInv, pc \in {"negotiate", "ready", "running"}
               PROVE  /\ \A f \in {"width", "height", "fourcc"} : conf[1]["source"][f] \in {drv[f]}
                      /\ \A k \in 2 .. Len(chain) : chain[k] # "m2m" =>
                             \A f \in Fields : conf[k]["sink"][f] = Told(k, f)
    BY DEF SameDefinition
  <2>1. Made = 1 .. Len(chain) /\ 1 \in Made
    BY ChainIs DEF SetupInv, Made
  <2>2. InputOK /\ \A k \in Made \ {1} : SinkOK(k)
    BY <2>1 DEF SetupInv, ConfigOK
  <2>3. \A k \in 2 .. Len(chain) : k \in Made \ {1}
    BY <2>1, ChainIs DEF SetupInv
  <2> QED
    BY <2>2, <2>3 DEF InputOK, SinkOK
<1> QED
  BY <1>1, SetupInvariant, PTL

(* A screen or a writeback that sdrm_create() accepted scans out along a path  *)
(* of its card: its encoder can drive the connector, its CRTC the encoder and   *)
(* its plane the CRTC, for every card.                                        *)
THEOREM ScanoutCorrect == Spec => []ScanoutFits
<1>1. SetupInv => ScanoutFits
  <2> SUFFICES ASSUME SetupInv, pc \in {"negotiate", "ready", "running"},
                      NEW k \in 2 .. Len(chain), chain[k] \in {"screen", "writeback"}
               PROVE  Fits(Scanout(card, chain[k] = "writeback", conf[k]["sink"]))
    BY DEF ScanoutFits
  <2>1. k \in Made \ {1}
    BY ChainIs DEF SetupInv, Made
  <2> QED
    BY <2>1 DEF SetupInv, ConfigOK, SinkOK, Display
<1> QED
  BY <1>1, SetupInvariant, PTL
-----------------------------------------------------------------------------
(* The invariant of the negotiation *)

(* Who can have allocated the buffers of a side.                              *)
Memories == {Nowhere, Null} \cup (Nat \X Sides)
IsTable(d) ==
  d \in [table : {"none", "mmap", "dmabuf", "userptr"}, n : Nat, mem : Memories, linked : Nat,
         mapped : BOOLEAN, drv : {"none", "mmap", "dmabuf", "userptr"}, master : BOOLEAN, freed : BOOLEAN]
IsSide(d) == d \in [n : Nat, mem : Memories, dma : BOOLEAN, map : BOOLEAN]
IsOffer(o) == o \in [n : Nat, mem : Memories]

IsV4l2(k) == chain[k] \in {"camera", "m2m"}
IsCopier(k) == chain[k] \in {"passthrough", "copy"}
(* The kernel exports the buffers of its drivers and they import none.        *)
Stuck == hw.export /\ ~ hw.dmabuf

(* The most buffers that a memory to memory device takes.                     *)
Most == IF MaxBuffers < M2mDriver.min THEN M2mDriver.min ELSE MaxBuffers
Bounded(p) == (\A i \in 1 .. p : chain[i] # "tile") /\ Granted(Hw(1), count) <= MaxBuffers

Waiting(q) == IF pc = "create" THEN q < dev ELSE pc = "negotiate" /\ (q > dev \/ (q = dev /\ att = 1))
WaitingSink(q) == IF pc = "create" THEN q < dev - 1 ELSE Waiting(q)
Agreed(p) == pc \in {"ready", "running"} \/ (pc = "negotiate" /\ p < dev)

(* A pipe that was not negotiated yet.                                        *)
SourceSmall(q, d) == Bounded(q) => d.n <= Most
SourceWaits(q, d) == SourceSmall(q, d) /\ IF IsV4l2(q) THEN d = NoBuffers ELSE IsSide(d)
SinkWaits(q, d) == d = IF chain[q + 1] = "m2m" THEN NoBuffers ELSE NoSide

SourceTyped(p, d) == IF IsV4l2(p) THEN IsTable(d) ELSE IsSide(d)
SinkTyped(p, d) == IF chain[p + 1] = "m2m" THEN IsTable(d) ELSE IsSide(d)

(* What the refusals have left in the devices of pipe p before attempt t.     *)
SourceTried(p, t, d) ==
  /\ t = 2 => /\ ~ d.freed
              /\ \/ d.table = "dmabuf" /\ hw.dmabuf /\ d.n >= Hw(p).min
                 \/ d.table = "mmap" /\ d.n = 0 /\ ~ hw.export
                 \/ d.table = "mmap" /\ d.drv = "none" /\ d.n > 0 /\ Stuck
  /\ t = 3 => d.table = "mmap"
  /\ t = 4 => d.table # "userptr"
NoMemory(p) ==
  \/ chain[p + 1] \in {"screen", "writeback", "egl"}
  \/ chain[p + 1] = "m2m" /\ ~ hw.userptr
SinkTried(p, t, s, d) ==
  /\ t = 2 => \/ d = NoBuffers /\ (IsV4l2(p) => s.table = "mmap")
              \/ /\ d.table = "dmabuf" /\ ~ d.freed
                 /\ s.n <= d.n /\ chain[p] # "hailo"
                 /\ IsV4l2(p) => s.table = "dmabuf"
  /\ t = 3 => d.freed \/ d.table \in {"none", "dmabuf"}
  /\ t = 4 => d.freed \/ d.table = "dmabuf" \/ (d.table = "mmap" /\ (d.n = 0 \/ Stuck))

Tried(p, t, s, d) ==
  /\ IsV4l2(p) => SourceTried(p, t, s)
  /\ IsV4l2(p) /\ t > 2 => NoMemory(p)
  /\ chain[p + 1] = "m2m" => SinkTried(p, t, s, d)
  /\ t = 2 /\ IsCopier(p + 1) => d.n = 0
  /\ t = 2 => SourceSmall(p, s)
TriedOK ==
  pc = "negotiate" => dev \in Pipes /\ att \in 1 .. 4 /\ Tried(dev, att, src[dev], snk[dev])
WaitingOK ==
  \A q \in Pipes : (Waiting(q) => SourceWaits(q, src[q])) /\ (WaitingSink(q) => SinkWaits(q, snk[q]))
MachineOK == hw \in [Flags -> BOOLEAN] /\ count \in Counts /\ \E d \in Drivers : drv.min = d.min
TypesOK ==
  /\ src = [p \in Pipes |-> src[p]] /\ snk = [p \in Pipes |-> snk[p]] /\ how \in [Pipes -> 0 .. 4]
  /\ pc \in {"negotiate", "ready", "running"} => \A p \in Pipes : SourceTyped(p, src[p]) /\ SinkTyped(p, snk[p])
  /\ MachineOK /\ IsOffer(offer)
SizesOK ==
  \A k \in DOMAIN chain, s \in Sides : conf[k][s].width \in Nat /\ conf[k][s].height \in Nat
Same(s, d) == s.n > 0 => s.n <= d.n /\ s.mem = d.mem
AgreedOK ==
  /\ \A p \in Pipes : Agreed(p) /\ CanQueue(src[1]) /\ ~ Deaf(p) => Same(src[p], snk[p])
  /\ Agreed(1) /\ Stuck => ~ CanQueue(src[1])

NegotiationInv ==
  pc \in {"create", "negotiate", "ready", "running"} =>
    /\ TypesOK /\ SizesOK /\ WaitingOK /\ TriedOK /\ AgreedOK
    /\ pc = "create" => att = 1 /\ file \in Files /\ options \in CommandLine
    /\ pc = "running" => CanQueue(src[1])

-----------------------------------------------------------------------------
(* The buffers of a V4L2 device *)

(* What sv4l2_requestbuffer() is told of the kernel and the driver.           *)
IsHardware(h) ==
  h.min \in Nat \ {0} /\ h.export \in BOOLEAN /\ h.dmabuf \in BOOLEAN /\ h.userptr \in BOOLEAN

LEMMA SmallerIs ==
  ASSUME NEW a \in Nat, NEW b \in Nat
  PROVE  Smaller(a, b) = IF a <= b THEN a ELSE b
<1> DEFINE s == IF a <= b THEN a ELSE b
           P(x) == x \in {a, b} /\ \A y \in {a, b} : x =< y
<1>1. P(s) /\ \A x : P(x) => x = s
  OBVIOUS
<1>2. Smaller(a, b) = CHOOSE x \in {a, b} : \A y \in {a, b} : x =< y
  BY DEF Smaller, Min
<1>3. P(Smaller(a, b))
  BY <1>1, <1>2
<1> QED
  BY <1>1, <1>3

LEMMA GrantedIs ==
  ASSUME NEW h, IsHardware(h), NEW n \in Nat
  PROVE  /\ Granted(h, n) \in Nat /\ Granted(h, n) >= n /\ Granted(h, n) >= h.min /\ Granted(h, n) > 0
         /\ n >= h.min => Granted(h, n) = n
BY DEF IsHardware, Granted

LEMMA NoBuffersIs == IsTable(NoBuffers) /\ IsSide(NoSide)
BY DEF IsTable, NoBuffers, IsSide, NoSide, Memories

(* sv4l2_requestbuffer_mmap() of a table of another type.                     *)
LEMMA MmapIs ==
  ASSUME NEW h, IsHardware(h), NEW d, IsTable(d), NEW me \in Memories, NEW c \in Nat
  PROVE  /\ IsTable(Mmap(h, d, me, c)) /\ Mmap(h, d, me, c).table = "mmap"
         /\ Mmap(h, d, me, c).freed = d.freed
         /\ d.table # "mmap" => LET m == Mmap(h, d, me, c)
                                IN  /\ m.mapped /\ m.drv = "mmap"
                                    /\ m.n = Granted(h, IF d.table = "none" THEN c ELSE d.n)
         /\ d.table = "mmap" => Mmap(h, d, me, c) = d
<1> DEFINE n == Granted(h, IF d.table = "none" THEN c ELSE d.n)
           e == [d EXCEPT !.table = "mmap", !.n = n, !.mem = me, !.linked = n, !.mapped = TRUE, !.drv = "mmap"]
<1>1. CASE d.table = "mmap"
  BY <1>1 DEF Mmap
<1>2. CASE d.table # "mmap"
  <2>1. n \in Nat
    BY GrantedIs DEF IsTable
  <2>2. Mmap(h, d, me, c) = e
    BY <1>2 DEF Mmap
  <2> HIDE DEF n
  <2>3. /\ e.n = n /\ e.table = "mmap" /\ e.mapped /\ e.drv = "mmap" /\ e.freed = d.freed
        /\ IsTable(e)
    BY <2>1 DEF IsTable
  <2> QED
    BY <1>2, <2>2, <2>3 DEF n
<1> QED
  BY <1>1, <1>2

(* A master that exports: it has descriptors of all its buffers in the end,   *)
(* or nothing to lend, or buffers that the driver does not hold.              *)
LEMMA DmabufMasterIs ==
  ASSUME NEW h, IsHardware(h), NEW d, IsTable(d), NEW me \in Memories, NEW c \in Nat, NEW o,
         ~ d.freed, d.table \in {"none", "dmabuf"}, NEW a, a = RequestV4l2(h, d, me, c, "dmabuf_master", o)
  PROVE  /\ IsTable(a.d) /\ ~ a.d.freed /\ a.ret \in {"ok", "refused"}
         /\ a.ret = "ok" => /\ a.d.table = "dmabuf" /\ a.offer = [n |-> a.d.n, mem |-> a.d.mem]
                            /\ d.table = "none" => h.export /\ h.dmabuf /\ a.d.n = Granted(h, c)
                            /\ d.table = "dmabuf" => a.d.n = d.n
         /\ a.ret = "refused" => /\ a.d.table = "mmap" /\ a.offer = o
                                 /\ IF h.export THEN ~ h.dmabuf /\ a.d.n = Granted(h, c) /\ a.d.n > 0 /\ a.d.drv = "none"
                                    ELSE a.d.n = 0
<1> DEFINE e == MasterOf(d)
           m == Mmap(h, e, me, c)
           b == Dmabuf(h, e, me, c)
<1>1. IsTable(e) /\ e.master /\ e.table = d.table /\ e.freed = d.freed /\ e.n = d.n /\ e.mem = d.mem
  BY DEF MasterOf, IsTable
<1>2. a = IF b.ok THEN Accepted(b.d, [n |-> b.d.n, mem |-> b.d.mem]) ELSE Refused(b.d, o)
  BY DEF RequestV4l2, DmabufMaster
<1> HIDE DEF e
<1>3. CASE d.table = "dmabuf"
  <2>1. b = [ok |-> TRUE, d |-> e]
    BY <1>1, <1>3 DEF Dmabuf
  <2> QED
    BY <1>1, <1>2, <1>3, <2>1 DEF Accepted
<1>4. CASE d.table = "none"
  <2> DEFINE x == Exported(h, e, me, c)
             y == [m EXCEPT !.mapped = FALSE, !.drv = "none"]
             z == Requeued(h, y, c, Granted(h, c))
             w == [m EXCEPT !.n = 0]
  <2>1. Granted(h, c) \in Nat /\ Granted(h, c) > 0 /\ IsTable(m) /\ m.table = "mmap" /\ ~ m.freed
        /\ m.drv = "mmap" /\ m.n = Granted(h, c)
    BY <1>1, <1>4, MmapIs, GrantedIs
  <2>2. x = IF h.export THEN [ok |-> h.dmabuf, d |-> y] ELSE [ok |-> FALSE, d |-> w]
    BY <2>1 DEF Exported
  <2>3. b = IF x.ok THEN [ok |-> TRUE, d |-> Requeued(h, x.d, c, Granted(h, c))] ELSE x
    BY <1>1, <1>4 DEF Dmabuf
  <2> HIDE DEF m, x, b
  <2>4. CASE ~ h.export
    <3>1. IsTable(w) /\ w.n = 0 /\ w.table = "mmap" /\ ~ w.freed
      BY <2>1 DEF IsTable
    <3> HIDE DEF w
    <3>2. a = Refused(w, o)
      BY <1>2, <2>2, <2>3, <2>4
    <3> QED
      BY <1>4, <2>4, <3>1, <3>2 DEF Refused
  <2>5. CASE h.export
    <3>1. IsTable(y) /\ y.n = Granted(h, c) /\ y.drv = "none" /\ y.table = "mmap" /\ ~ y.freed
      BY <2>1 DEF IsTable
    <3>2. IsTable(z) /\ z.table = "dmabuf" /\ z.n = Granted(h, c) /\ ~ z.freed
      <4> HIDE DEF y
      <4> QED
        BY <2>1, <3>1 DEF Requeued, IsTable
    <3>3. a = IF h.dmabuf THEN Accepted(z, [n |-> z.n, mem |-> z.mem]) ELSE Refused(y, o)
      BY <1>2, <2>2, <2>3, <2>5
    <3> HIDE DEF y, z
    <3>4. CASE h.dmabuf
      BY <1>4, <2>5, <3>2, <3>3, <3>4 DEF Accepted
    <3>5. CASE ~ h.dmabuf
      BY <1>4, <2>1, <2>5, <3>1, <3>3, <3>5 DEF Refused
    <3> QED
      BY <3>4, <3>5
  <2> QED
    BY <2>4, <2>5
<1> QED
  BY <1>3, <1>4

(* A master that lends memory: its buffers are mapped, unless a refused export *)
(* has unmapped them.                                                         *)
LEMMA MemoryMasterIs ==
  ASSUME NEW h, IsHardware(h), NEW d, IsTable(d), NEW me \in Memories, NEW c \in Nat, NEW o,
         ~ d.freed, NEW a, a = RequestV4l2(h, d, me, c, "memory_master", o)
  PROVE  /\ IsTable(a.d) /\ ~ a.d.freed /\ a.ret = "ok" /\ a.d.table = "mmap"
         /\ a.offer = [n |-> a.d.n, mem |-> IF a.d.mapped THEN a.d.mem ELSE Null] /\ IsOffer(a.offer)
         /\ d.table = "mmap" => a.d.n = d.n /\ a.d.drv = d.drv
         /\ d.table \in {"dmabuf", "userptr"} => a.d.mapped /\ a.d.n = Granted(h, d.n)
         /\ d.table = "none" => a.d.mapped /\ a.d.n = Granted(h, c)
<1> DEFINE e == MasterOf(d)
           m == Mmap(h, e, me, c)
<1>1. IsTable(e) /\ e.master /\ e.table = d.table /\ e.freed = d.freed /\ e.n = d.n /\ e.drv = d.drv
  BY DEF MasterOf, IsTable
<1>2. a = Accepted(m, [n |-> m.n, mem |-> IF m.mapped THEN m.mem ELSE Null])
  BY DEF RequestV4l2, MemoryMaster
<1> HIDE DEF e
<1>3. /\ IsTable(m) /\ m.table = "mmap" /\ ~ m.freed
      /\ d.table = "mmap" => m = e
      /\ d.table # "mmap" => m.mapped /\ m.n = Granted(h, IF d.table = "none" THEN c ELSE d.n)
  BY <1>1, MmapIs
<1> HIDE DEF m
<1>4. m.n \in Nat /\ m.mem \in Memories /\ Null \in Memories
  BY <1>3 DEF IsTable, Memories
<1>5. IsOffer([n |-> m.n, mem |-> IF m.mapped THEN m.mem ELSE Null])
  BY <1>4 DEF IsOffer
<1> QED
  BY <1>1, <1>2, <1>3, <1>5 DEF Accepted

(* A slave that takes memory: its table has at least as many entries as the   *)
(* driver has to have, and no more than it had or was asked for otherwise.    *)
LEMMA MemorySlaveIs ==
  ASSUME NEW h, IsHardware(h), NEW d, IsTable(d), NEW me, NEW c \in Nat, NEW o, IsOffer(o),
         d.table # "userptr", NEW a, a = RequestV4l2(h, d, me, c, "memory", o)
  PROVE  /\ IsTable(a.d)
         /\ a.ret = "ok" => /\ h.userptr /\ a.d.mem = o.mem /\ a.offer = o
                            /\ a.d.n = Granted(h, Smaller(IF d.table = "none" THEN c ELSE d.n, o.n))
         /\ ~ h.userptr => a.ret # "ok"
         /\ ~ d.freed /\ a.ret = "refused" => ~ h.userptr /\ a.d.table = d.table
<1> DEFINE k == IF d.table = "none" THEN c ELSE d.n
           n == Granted(h, Smaller(k, o.n))
           e == [d EXCEPT !.drv = "none", !.freed = d.table # "none"]
           f == [d EXCEPT !.table = "userptr", !.drv = "userptr", !.n = n, !.mem = o.mem,
                          !.linked = Smaller(n, o.n), !.mapped = FALSE]
<1>1. k \in Nat /\ o.n \in Nat /\ o.mem \in Memories
  BY DEF IsTable, IsOffer
<1> HIDE DEF k
<1>2. Smaller(k, o.n) \in Nat
  BY <1>1, SmallerIs
<1>3. n \in Nat
  BY <1>2, GrantedIs
<1> HIDE DEF n
<1>4. Smaller(n, o.n) \in Nat
  BY <1>1, <1>3, SmallerIs
<1>5. IsTable(e) /\ e.table = d.table
  BY DEF IsTable
<1>6. IsTable(f) /\ f.n = n /\ f.mem = o.mem
  BY <1>1, <1>3, <1>4 DEF IsTable
<1>7. a = IF d.freed THEN Undefined(d, o) ELSE IF h.userptr THEN Accepted(f, o) ELSE Refused(e, o)
  BY DEF RequestV4l2, MemorySlave, UserPtr, k, n
<1> HIDE DEF e, f
<1> QED
  BY <1>5, <1>6, <1>7 DEF Undefined, Accepted, Refused, n, k

(* A slave that takes descriptors has as many as it has buffers.              *)
LEMMA LinkDmaIs ==
  ASSUME NEW d, IsTable(d), NEW o, IsOffer(o), NEW a, a = LinkDma(d, o)
  PROVE  /\ IsTable(a.d) /\ a.d.n = d.n /\ a.d.mem = o.mem /\ a.d.table = d.table /\ a.d.freed = d.freed
         /\ a.offer = o /\ a.ret = IF d.n > o.n THEN "refused" ELSE "ok"
<1> DEFINE l == IF d.master THEN d.n ELSE Smaller(d.n, o.n)
           e == [d EXCEPT !.mem = o.mem, !.linked = l]
<1>1. d.n \in Nat /\ o.n \in Nat /\ o.mem \in Memories
  BY DEF IsTable, IsOffer
<1>2. l \in Nat
  BY <1>1, SmallerIs
<1> HIDE DEF l
<1>3. IsTable(e) /\ e.n = d.n /\ e.mem = o.mem /\ e.table = d.table /\ e.freed = d.freed
  BY <1>1, <1>2 DEF IsTable
<1>4. a = IF d.n > o.n THEN Refused(e, o) ELSE Accepted(e, o)
  BY DEF LinkDma, l
<1> HIDE DEF e
<1> QED
  BY <1>3, <1>4 DEF Refused, Accepted

(* The driver is asked for as many buffers as are lent.                       *)
LEMMA RequeuedIs ==
  ASSUME NEW h, IsHardware(h), NEW d, IsTable(d), NEW c \in Nat, NEW l \in Nat
  PROVE  /\ IsTable(Requeued(h, d, c, l)) /\ Requeued(h, d, c, l).table = "dmabuf"
         /\ Requeued(h, d, c, l).n = Granted(h, c) /\ Requeued(h, d, c, l).freed = d.freed
<1>1. Granted(h, c) \in Nat
  BY GrantedIs
<1> QED
  BY <1>1 DEF Requeued, IsTable

LEMMA ExportedIs ==
  ASSUME NEW h, IsHardware(h), NEW d, IsTable(d), NEW me \in Memories, NEW c \in Nat,
         NEW x, x = Exported(h, d, me, c)
  PROVE  /\ IsTable(x.d) /\ x.d.table = "mmap"
         /\ x.ok => h.dmabuf
         /\ x.ok \in BOOLEAN
<1> DEFINE m == Mmap(h, d, me, c)
           y == [m EXCEPT !.mapped = FALSE, !.drv = "none"]
           w == [m EXCEPT !.n = 0]
<1>1. IsTable(m) /\ m.table = "mmap"
  BY MmapIs
<1>2. x = IF m.n > 0 /\ ~ (h.export /\ m.drv = "mmap") THEN [ok |-> FALSE, d |-> w] ELSE [ok |-> h.dmabuf, d |-> y]
  BY DEF Exported
<1> HIDE DEF m
<1>3. IsTable(w) /\ w.table = "mmap" /\ IsTable(y) /\ y.table = "mmap"
  BY <1>1 DEF IsTable
<1> HIDE DEF y, w
<1>4. CASE m.n > 0 /\ ~ (h.export /\ m.drv = "mmap")
  <2>1. x = [ok |-> FALSE, d |-> w]
    BY <1>2, <1>4
  <2> QED
    BY <1>3, <2>1
<1>5. CASE ~ (m.n > 0 /\ ~ (h.export /\ m.drv = "mmap"))
  <2>1. x = [ok |-> h.dmabuf, d |-> y]
    BY <1>2, <1>5
  <2> QED
    BY <1>3, <2>1 DEF IsHardware
<1> QED
  BY <1>4, <1>5

LEMMA DmabufSlaveIs ==
  ASSUME NEW h, IsHardware(h), NEW d, IsTable(d), NEW me \in Memories, NEW c, NEW o, IsOffer(o),
         d.table \in {"none", "mmap"}, NEW a, a = RequestV4l2(h, d, me, c, "dmabuf", o)
  PROVE  /\ IsTable(a.d)
         /\ a.ret = "ok" => h.dmabuf /\ a.d.mem = o.mem /\ a.d.n <= o.n /\ a.d.n = Granted(h, o.n) /\ a.offer = o
         /\ a.ret = "refused" => a.d.table # "userptr"
         /\ d = NoBuffers => a.ret \in {"ok", "refused"}
         /\ d = NoBuffers /\ a.ret = "refused" =>
              IF h.dmabuf THEN a.d.table = "dmabuf" /\ ~ a.d.freed /\ a.d.n = Granted(h, o.n) ELSE a.d = NoBuffers
<1> DEFINE g == Granted(h, o.n)
           x == Exported(h, d, me, o.n)
           b == Dmabuf(h, d, me, o.n)
<1>1. o.n \in Nat /\ g \in Nat
  BY GrantedIs DEF IsOffer
<1>2. IsTable(x.d) /\ x.d.table = "mmap" /\ (x.ok => h.dmabuf) /\ x.ok \in BOOLEAN
  BY <1>1, ExportedIs
<1> HIDE DEF x
<1>3. b = IF d.master THEN IF x.ok THEN [ok |-> TRUE, d |-> Requeued(h, x.d, o.n, g)] ELSE x
          ELSE IF ~ h.dmabuf THEN [ok |-> FALSE, d |-> d] ELSE [ok |-> TRUE, d |-> Requeued(h, d, o.n, 0)]
  BY DEF Dmabuf, x
<1>4. /\ IsTable(b.d)
      /\ b.ok => h.dmabuf /\ b.d.table = "dmabuf" /\ b.d.n = g
      /\ ~ b.ok => b.d.table \in {"none", "mmap"}
      /\ d = NoBuffers => b.ok = h.dmabuf /\ (~ h.dmabuf => b.d = d) /\ (h.dmabuf => ~ b.d.freed)
  <2>1. CASE d.master
    <3>1. d # NoBuffers
      BY <2>1 DEF NoBuffers
    <3> HIDE DEF b, g
    <3>2. CASE x.ok
      <4>1. b = [ok |-> TRUE, d |-> Requeued(h, x.d, o.n, g)]
        BY <1>3, <2>1, <3>2
      <4>2. /\ IsTable(Requeued(h, x.d, o.n, g)) /\ Requeued(h, x.d, o.n, g).table = "dmabuf"
            /\ Requeued(h, x.d, o.n, g).n = g
        BY <1>1, <1>2, RequeuedIs DEF g
      <4> QED
        BY <1>2, <3>1, <3>2, <4>1, <4>2
    <3>3. CASE ~ x.ok
      BY <1>2, <1>3, <2>1, <3>1, <3>3
    <3> QED
      BY <3>2, <3>3
  <2>2. CASE ~ d.master
    <3>1. d = NoBuffers => ~ d.freed
      BY DEF NoBuffers
    <3> HIDE DEF b
    <3>2. CASE ~ h.dmabuf
      BY <1>3, <2>2, <3>2 DEF IsHardware
    <3>3. CASE h.dmabuf
      <4>1. b = [ok |-> TRUE, d |-> Requeued(h, d, o.n, 0)]
        BY <1>3, <2>2, <3>3
      <4>2. /\ IsTable(Requeued(h, d, o.n, 0)) /\ Requeued(h, d, o.n, 0).table = "dmabuf"
            /\ Requeued(h, d, o.n, 0).n = g /\ Requeued(h, d, o.n, 0).freed = d.freed
        BY <1>1, RequeuedIs
      <4> QED
        BY <3>1, <3>3, <4>1, <4>2 DEF IsHardware
    <3> QED
      BY <3>2, <3>3
  <2> QED
    BY <2>1, <2>2
<1>5. a = IF d.freed THEN Undefined(d, o) ELSE IF b.ok THEN LinkDma(b.d, o) ELSE Refused(b.d, o)
  BY DEF RequestV4l2, DmabufSlave
<1>6. d = NoBuffers => ~ d.freed
  BY DEF NoBuffers
<1> HIDE DEF b
<1>7. CASE d.freed
  BY <1>5, <1>6, <1>7 DEF Undefined
<1>8. CASE ~ d.freed /\ b.ok
  <2> DEFINE l == LinkDma(b.d, o)
  <2>1. /\ IsTable(l.d) /\ l.d.n = b.d.n /\ l.d.mem = o.mem /\ l.d.table = b.d.table /\ l.d.freed = b.d.freed
        /\ l.offer = o /\ l.ret = IF b.d.n > o.n THEN "refused" ELSE "ok"
    BY <1>4, LinkDmaIs
  <2>2. a = l
    BY <1>5, <1>8
  <2> HIDE DEF l, g
  <2>3. b.d.n = g
    BY <1>4, <1>8
  <2>4. h.dmabuf /\ b.d.table = "dmabuf"
    BY <1>4, <1>8
  <2>5. d = NoBuffers => ~ b.d.freed
    BY <1>4, <2>4
  <2>6. a.ret = "ok" => a.d.n <= o.n
    BY <1>1, <2>1, <2>2, <2>3
  <2> QED
    BY <2>1, <2>2, <2>3, <2>4, <2>5, <2>6 DEF g
<1>9. CASE ~ d.freed /\ ~ b.ok
  <2>1. a = Refused(b.d, o)
    BY <1>5, <1>9
  <2> QED
    BY <1>4, <1>9, <2>1 DEF Refused
<1> QED
  BY <1>7, <1>8, <1>9

-----------------------------------------------------------------------------
(* The devices of a pipe *)

LEMMA HwIs ==
  ASSUME MachineOK, NEW k
  PROVE  /\ IsHardware(Hw(k)) /\ Hw(k).export = hw.export /\ Hw(k).dmabuf = hw.dmabuf /\ Hw(k).userptr = hw.userptr
         /\ chain[k] = "m2m" => Hw(k).min = M2mDriver.min
<1>1. /\ Hw(k).export = hw.export /\ Hw(k).dmabuf = hw.dmabuf /\ Hw(k).userptr = hw.userptr
      /\ Hw(k).min = IF chain[k] = "camera" THEN drv.min ELSE M2mDriver.min
  BY DEF Hw, Flags
<1>2. hw.export \in BOOLEAN /\ hw.dmabuf \in BOOLEAN /\ hw.userptr \in BOOLEAN
  BY DEF MachineOK, Flags
<1>3. M2mDriver.min \in Nat \ {0} /\ drv.min \in Nat \ {0}
  BY DriversAssumption DEF MachineOK
<1> QED
  BY <1>1, <1>2, <1>3 DEF IsHardware

LEMMA MostIs == Most \in Nat /\ MaxBuffers \in Nat /\ Most >= MaxBuffers
<1>1. M2mDriver.min \in Nat /\ MaxBuffers \in Nat
  BY PeersAssumption, DriversAssumption
<1> QED
  BY <1>1 DEF Most

LEMMA MemoriesAre == ASSUME NEW k \in Nat, NEW s \in Sides PROVE Me(k, s) \in Memories
BY DEF Me, Memories

LEMMA PipeIs ==
  ASSUME GivenOK, NEW p \in Pipes
  PROVE  /\ p \in Nat /\ p > 0 /\ p + 1 \in Nat
         /\ p = 1 => chain[p] = "camera"
         /\ p > 1 => chain[p] \in Transfers
         /\ p < Len(chain) - 1 => chain[p + 1] \in Transfers
         /\ p = Len(chain) - 1 => chain[p + 1] \in Kinds \ {"camera"}
<1>1. Len(chain) \in Nat /\ Len(chain) > 1 /\ chain \in Seq(Kinds)
      /\ chain[1] = "camera" /\ chain[Len(chain)] # "camera"
      /\ \A k \in 2 .. Len(chain) - 1 : chain[k] \in Transfers
  BY ChainsAssumption DEF GivenOK
<1>2. \A n \in Nat : \A q \in 1 .. n - 1 : q \in Nat /\ q > 0 /\ q + 1 \in Nat
                     /\ (q > 1 => q \in 2 .. n - 1) /\ (q < n - 1 => q + 1 \in 2 .. n - 1)
                     /\ (q = n - 1 => q + 1 = n)
  OBVIOUS
<1> QED
  BY <1>1, <1>2 DEF Pipes

(* What a V4L2 source asks for.                                               *)
Asked(p) == IF p = 1 THEN count ELSE MaxBuffers
LEMMA AskedIs ==
  ASSUME GivenOK, MachineOK, NEW p \in Pipes, IsV4l2(p)
  PROVE  /\ Asked(p) \in Nat /\ Granted(Hw(p), Asked(p)) \in Nat
         /\ Bounded(p) => Granted(Hw(p), Asked(p)) <= Most
<1>1. Asked(p) \in Nat /\ MaxBuffers \in Nat /\ M2mDriver.min \in Nat
  BY SizesAssumption, PeersAssumption, DriversAssumption DEF Asked, MachineOK
<1>2. Granted(Hw(p), Asked(p)) \in Nat
  BY <1>1, HwIs, GrantedIs
<1>3. CASE p = 1
  BY <1>1, <1>2, <1>3 DEF Bounded, Most, Asked
<1>4. CASE p # 1
  <2>1. chain[p] = "m2m"
    BY <1>4, PipeIs DEF IsV4l2, Transfers
  <2>2. Granted(Hw(p), Asked(p)) = Most
    BY <1>1, <1>4, <2>1, HwIs DEF Granted, Most, Asked
  <2> QED
    BY <1>1, <1>2, <2>2 DEF Most
<1> QED
  BY <1>3, <1>4

-----------------------------------------------------------------------------
(* The input lends *)

(* What the source of pipe p has lent at attempt t, or why it has not.        *)
Lent(p, t, a) ==
  /\ SourceTyped(p, a.d) /\ SourceSmall(p, a.d) /\ IsOffer(a.offer)
  /\ a.ret = "ok" =>
       /\ a.offer.n = a.d.n
       /\ a.offer.mem = a.d.mem \/ (IsV4l2(p) /\ t = 2 /\ (a.d.n = 0 \/ Stuck))
       /\ t = 2 /\ chain[p] # "hailo" /\ (IsV4l2(p) => src[p].table = "dmabuf") => a.d.n = src[p].n
  /\ t = 1 /\ chain[p] = "hailo" => a.ret = "refused"
  /\ IsV4l2(p) =>
       /\ SourceTried(p, t + 1, a.d)
       /\ t = 1 /\ a.ret = "ok" => hw.dmabuf /\ a.d.table = "dmabuf"
       /\ a.ret = "refused" => t = 1 /\ a.d.table = "mmap"
       /\ t = 2 /\ Stuck => ~ CanQueue(a.d)
       /\ t = 2 /\ src[p].table = "mmap" => a.d.n = 0 \/ Stuck

LEMMA FirstLentByV4l2 ==
  ASSUME GivenOK, MachineOK, NEW p \in Pipes, NEW o, IsOffer(o), IsV4l2(p), SourceWaits(p, src[p]),
         NEW a, a = AskSource(p, "dmabuf_master", o)
  PROVE  Lent(p, 1, a)
<1> DEFINE h == Hw(p)
           c == Asked(p)
<1>1. a = RequestV4l2(h, NoBuffers, Me(p, "source"), c, "dmabuf_master", o)
  BY DEF AskSource, IsV4l2, Asked, SourceWaits
<1>2. IsHardware(h) /\ h.export = hw.export /\ h.dmabuf = hw.dmabuf /\ IsTable(NoBuffers)
      /\ NoBuffers.table = "none" /\ ~ NoBuffers.freed
      /\ c \in Nat /\ Granted(h, c) \in Nat /\ (Bounded(p) => Granted(h, c) <= Most)
      /\ Me(p, "source") \in Memories /\ Granted(h, c) >= h.min
  BY HwIs, NoBuffersIs, AskedIs, MemoriesAre, PipeIs, GrantedIs DEF NoBuffers, Sides
<1> HIDE DEF h, c
<1>3. /\ IsTable(a.d) /\ ~ a.d.freed /\ a.ret \in {"ok", "refused"}
      /\ a.ret = "ok" => /\ a.d.table = "dmabuf" /\ a.offer = [n |-> a.d.n, mem |-> a.d.mem]
                         /\ h.export /\ h.dmabuf /\ a.d.n = Granted(h, c)
      /\ a.ret = "refused" => /\ a.d.table = "mmap" /\ a.offer = o
                              /\ IF h.export THEN ~ h.dmabuf /\ a.d.n = Granted(h, c) /\ a.d.n > 0 /\ a.d.drv = "none"
                                    ELSE a.d.n = 0
  <2>1. NoBuffers.table \in {"none", "dmabuf"}
    BY <1>2
  <2> QED
    BY <1>1, <1>2, <2>1, DmabufMasterIs
<1>4. IsOffer(a.offer)
  BY <1>3 DEF IsOffer, IsTable
<1>5. chain[p] # "hailo"
  BY DEF IsV4l2
<1>6. SourceTried(p, 2, a.d)
  BY <1>2, <1>3 DEF SourceTried, Stuck, h
<1>7. SourceSmall(p, a.d)
  <2>1. CASE a.ret = "ok"
    BY <1>2, <1>3, <2>1 DEF SourceSmall
  <2>2. CASE a.ret = "refused"
    BY <1>2, <1>3, <2>2, MostIs DEF SourceSmall
  <2> QED
    BY <1>3, <2>1, <2>2
<1> QED
  BY <1>2, <1>3, <1>4, <1>5, <1>6, <1>7 DEF Lent, SourceTyped

LEMMA SecondLentByV4l2 ==
  ASSUME GivenOK, MachineOK, NEW p \in Pipes, NEW o, IsOffer(o), IsV4l2(p), SourceTyped(p, src[p]),
         SourceTried(p, 2, src[p]), SourceSmall(p, src[p]), NEW a, a = AskSource(p, "memory_master", o)
  PROVE  Lent(p, 2, a)
<1> DEFINE h == Hw(p)
           d == src[p]
<1>1. a = RequestV4l2(h, d, Me(p, "source"), Asked(p), "memory_master", o)
  BY DEF AskSource, IsV4l2, Asked
<1>2. /\ IsHardware(h) /\ IsTable(d) /\ ~ d.freed /\ Asked(p) \in Nat /\ Me(p, "source") \in Memories
      /\ \/ d.table = "dmabuf" /\ hw.dmabuf /\ d.n >= h.min
         \/ d.table = "mmap" /\ d.n = 0 /\ ~ hw.export
         \/ d.table = "mmap" /\ d.drv = "none" /\ d.n > 0 /\ Stuck
  BY HwIs, AskedIs, MemoriesAre, PipeIs DEF SourceTyped, SourceTried, Sides
<1>3. d.n \in Nat
  BY <1>2 DEF IsTable
<1> HIDE DEF h, d
<1>4. /\ IsTable(a.d) /\ ~ a.d.freed /\ a.ret = "ok" /\ a.d.table = "mmap"
      /\ a.offer = [n |-> a.d.n, mem |-> IF a.d.mapped THEN a.d.mem ELSE Null] /\ IsOffer(a.offer)
      /\ d.table = "mmap" => a.d.n = d.n /\ a.d.drv = d.drv
      /\ d.table \in {"dmabuf", "userptr"} => a.d.mapped /\ a.d.n = Granted(h, d.n)
  BY <1>1, <1>2, MemoryMasterIs
<1>5. a.d.n = d.n
  BY <1>2, <1>3, <1>4, GrantedIs
<1>6. /\ a.offer.mem = a.d.mem \/ a.d.n = 0 \/ Stuck
      /\ d.table = "mmap" => a.d.n = 0 \/ Stuck
  BY <1>2, <1>4
<1>7. Stuck => ~ CanQueue(a.d)
  BY <1>2, <1>4 DEF Stuck, CanQueue
<1>8. SourceSmall(p, a.d) /\ SourceTried(p, 3, a.d)
  BY <1>4, <1>5 DEF SourceSmall, SourceTried, d
<1> QED
  BY <1>4, <1>5, <1>6, <1>7, <1>8 DEF Lent, SourceTyped, d

(* The writeback lends all its buffers, a side of the renderer, of the tiling  *)
(* and of the passthrough what it has, the accelerator MAX_BUFFERS.           *)
LEMMA LentByOthers ==
  ASSUME GivenOK, MachineOK, NEW p \in Pipes, NEW o, IsOffer(o), ~ IsV4l2(p), SourceTyped(p, src[p]),
         SourceSmall(p, src[p]), NEW t \in {1, 2}, NEW a,
         a = AskSource(p, IF t = 1 THEN "dmabuf_master" ELSE "memory_master", o)
  PROVE  Lent(p, t, a)
<1> DEFINE u == IF t = 1 THEN "dmabuf_master" ELSE "memory_master"
           d == src[p]
           all == Own(MaxBuffers, Me(p, "source"))
           own == [n |-> d.n, mem |-> d.mem]
<1>0. IsSide(d) /\ Me(p, "source") \in Memories
  BY MemoriesAre, PipeIs DEF SourceTyped, Sides
<1>1. /\ IsOffer(all) /\ IsOffer(own) /\ all.n = MaxBuffers /\ all.mem = Me(p, "source")
  BY <1>0, MostIs DEF IsOffer, IsSide, Own
<1> HIDE DEF all
<1>2. ASSUME NEW x \in BOOLEAN, NEW y \in BOOLEAN, NEW z, z = Side(all, x, y)
      PROVE  IsSide(z) /\ z.n = all.n /\ z.mem = all.mem /\ SourceSmall(p, z)
  <2>1. IsSide(z) /\ z.n = all.n /\ z.mem = all.mem
    BY <1>1, <1>2 DEF IsSide, IsOffer, Side
  <2> QED
    BY <1>1, <2>1, MostIs DEF SourceSmall
<1> HIDE DEF all
<1>3. CASE a = Refused(d, o)
  BY <1>0, <1>3 DEF Lent, Refused, SourceTyped
<1>4. CASE a = Accepted(d, own) /\ chain[p] # "hailo"
  BY <1>0, <1>1, <1>4 DEF Lent, Accepted, SourceTyped
<1>5. CASE a = Accepted(Side(all, TRUE, FALSE), all) /\ t = 1 /\ chain[p] # "hailo"
  <2> DEFINE z == Side(all, TRUE, FALSE)
  <2>1. IsSide(z) /\ z.n = all.n /\ z.mem = all.mem /\ SourceSmall(p, z)
    BY <1>2
  <2>2. a = Accepted(z, all)
    BY <1>5
  <2> HIDE DEF z
  <2> QED
    BY <1>1, <1>5, <2>1, <2>2 DEF Lent, Accepted, SourceTyped
<1>6. CASE a = Accepted(Side(all, FALSE, TRUE), all) /\ t = 2 /\ chain[p] = "hailo"
  <2> DEFINE z == Side(all, FALSE, TRUE)
  <2>1. IsSide(z) /\ z.n = all.n /\ z.mem = all.mem /\ SourceSmall(p, z)
    BY <1>2
  <2>2. a = Accepted(z, all)
    BY <1>6
  <2> HIDE DEF z
  <2> QED
    BY <1>1, <1>6, <2>1, <2>2 DEF Lent, Accepted, SourceTyped
<1>7. \/ a = Refused(d, o)
      \/ a = Accepted(d, own) /\ chain[p] # "hailo"
      \/ a = Accepted(Side(all, TRUE, FALSE), all) /\ t = 1 /\ chain[p] # "hailo"
      \/ a = Accepted(Side(all, FALSE, TRUE), all) /\ t = 2 /\ chain[p] = "hailo"
  <2>0. u \in {"dmabuf_master", "memory_master"} /\ (u = "dmabuf_master" <=> t = 1) /\ chain[p] \notin {"camera", "m2m"}
    BY DEF IsV4l2
  <2>1. CASE chain[p] = "writeback"
    <3>1. a = IF u = "dmabuf_master" THEN Accepted(Side(all, TRUE, FALSE), all) ELSE Refused(d, o)
      BY <2>0, <2>1 DEF AskSource, WritebackSource, all
    <3> QED
      BY <2>0, <2>1, <3>1
  <2>2. CASE chain[p] = "egl"
    <3>1. a = Refused(d, o) \/ a = Accepted(d, own)
      BY <2>0, <2>2 DEF AskSource, EglSource
    <3> QED
      BY <2>2, <3>1
  <2>3. CASE chain[p] = "hailo"
    <3>0. a = Hailo(d, Me(p, "source"), MaxBuffers, u, o)
      BY <2>0, <2>3 DEF AskSource
    <3>1. a = IF u = "memory_master" THEN Accepted(Side(all, FALSE, TRUE), all) ELSE Refused(d, o)
      BY <2>0, <3>0 DEF Hailo, all
    <3> QED
      BY <2>0, <2>3, <3>1
  <2>4. CASE chain[p] \notin {"writeback", "egl", "hailo"}
    <3>1. a = Lends(d, u, o)
      BY <2>0, <2>4 DEF AskSource
    <3> QED
      BY <2>4, <3>1 DEF Lends
  <2> QED
    BY <2>1, <2>2, <2>3, <2>4
<1> QED
  BY <1>3, <1>4, <1>5, <1>6, <1>7

(* What the sink of pipe p answers at attempt t to the buffers o of the input. *)
Fits2(p, o) == IF snk[p] = NoBuffers THEN o.n <= Most ELSE o.n <= snk[p].n
Taken(p, t, o, b) ==
  /\ SinkTyped(p, b.d)
  /\ b.ret = "ok" => /\ b.offer = o /\ b.d.mem = o.mem
                     /\ (t = 2 /\ chain[p + 1] = "m2m" => Fits2(p, o)) => o.n <= b.d.n
  /\ t = 2 /\ b.ret = "refused" => NoMemory(p)
  /\ t = 1 /\ IsCopier(p + 1) /\ b.ret = "refused" => b.d.n = 0
  /\ chain[p + 1] = "m2m" /\ b.ret = "refused" =>
       /\ t = 1 => \/ b.d = NoBuffers /\ ~ hw.dmabuf
                   \/ b.d.table = "dmabuf" /\ ~ b.d.freed /\ o.n <= b.d.n
       /\ t = 2 => b.d.freed \/ b.d.table \in {"none", "dmabuf"}

LEMMA FirstTakenByV4l2 ==
  ASSUME GivenOK, MachineOK, NEW p \in Pipes, NEW o, IsOffer(o), chain[p + 1] = "m2m", SinkWaits(p, snk[p]),
         NEW b, b = AskSink(p, "dmabuf", o)
  PROVE  Taken(p, 1, o, b)
<1> DEFINE h == Hw(p + 1)
<1>1. b = RequestV4l2(h, NoBuffers, Me(p + 1, "sink"), MaxBuffers, "dmabuf", o)
  BY DEF AskSink, SinkWaits
<1>2. /\ IsHardware(h) /\ h.dmabuf = hw.dmabuf /\ Me(p + 1, "sink") \in Memories /\ o.n \in Nat
      /\ IsTable(NoBuffers) /\ NoBuffers.table \in {"none", "mmap"}
  BY HwIs, MemoriesAre, PipeIs, NoBuffersIs DEF Sides, IsOffer, NoBuffers
<1> HIDE DEF h
<1>3. /\ IsTable(b.d)
      /\ b.ret = "ok" => b.d.mem = o.mem /\ b.d.n = Granted(h, o.n) /\ b.offer = o
      /\ b.ret = "refused" =>
           IF h.dmabuf THEN b.d.table = "dmabuf" /\ ~ b.d.freed /\ b.d.n = Granted(h, o.n) ELSE b.d = NoBuffers
  BY <1>1, <1>2, DmabufSlaveIs
<1>4. o.n <= Granted(h, o.n)
  BY <1>2, GrantedIs
<1>5. ~ IsCopier(p + 1)
  BY DEF IsCopier
<1> QED
  BY <1>2, <1>3, <1>4, <1>5 DEF Taken, SinkTyped

LEMMA SecondTakenByV4l2 ==
  ASSUME GivenOK, MachineOK, NEW p \in Pipes, NEW o, IsOffer(o), chain[p + 1] = "m2m", SinkTyped(p, snk[p]),
         snk[p] = NoBuffers \/ (snk[p].table = "dmabuf" /\ ~ snk[p].freed),
         NEW b, b = AskSink(p, "memory", o)
  PROVE  Taken(p, 2, o, b)
<1> DEFINE h == Hw(p + 1)
           d == snk[p]
           k == IF d.table = "none" THEN MaxBuffers ELSE d.n
<1>1. b = RequestV4l2(h, d, Me(p + 1, "sink"), MaxBuffers, "memory", o)
  BY DEF AskSink
<1>2. /\ IsHardware(h) /\ h.userptr = hw.userptr /\ h.min = M2mDriver.min /\ o.n \in Nat /\ MaxBuffers \in Nat
      /\ IsTable(d) /\ ~ d.freed /\ d.table \in {"none", "dmabuf"} /\ (d.table = "none" <=> d = NoBuffers)
  BY HwIs, MostIs DEF SinkTyped, IsOffer, NoBuffers
<1>3. k \in Nat
  BY <1>2 DEF IsTable
<1> HIDE DEF h, d
<1>4. /\ IsTable(b.d)
      /\ b.ret = "ok" => /\ b.d.mem = o.mem /\ b.offer = o
                         /\ b.d.n = Granted(h, Smaller(k, o.n))
      /\ b.ret = "refused" => ~ h.userptr /\ b.d.table = d.table
  BY <1>1, <1>2, MemorySlaveIs
<1>5. ASSUME Fits2(p, o)
      PROVE  o.n <= Granted(h, Smaller(k, o.n))
  <2>1. Smaller(k, o.n) = IF k <= o.n THEN k ELSE o.n
    BY <1>2, <1>3, SmallerIs
  <2>2. Smaller(k, o.n) \in Nat
    BY <1>2, <1>3, <2>1
  <2>3. Granted(h, Smaller(k, o.n)) >= Smaller(k, o.n) /\ Granted(h, Smaller(k, o.n)) >= M2mDriver.min
        /\ Granted(h, Smaller(k, o.n)) \in Nat /\ M2mDriver.min \in Nat
    BY <1>2, <2>2, GrantedIs DEF IsHardware
  <2>4. CASE d = NoBuffers
    <3>1. o.n <= Most /\ k = MaxBuffers
      BY <1>2, <1>5, <2>4 DEF Fits2, d
    <3> HIDE DEF k
    <3> QED
      BY <1>2, <2>1, <2>3, <3>1 DEF Most
  <2>5. CASE d # NoBuffers
    <3>1. o.n <= k
      BY <1>2, <1>5, <2>5 DEF Fits2, d
    <3> HIDE DEF k
    <3> QED
      BY <1>2, <1>3, <2>1, <2>3, <3>1
  <2> QED
    BY <2>4, <2>5
<1> QED
  BY <1>2, <1>4, <1>5 DEF Taken, SinkTyped, NoMemory

(* The others take the buffers as they are, or do not take them.              *)
LEMMA TakenByOthers ==
  ASSUME GivenOK, MachineOK, NEW p \in Pipes, NEW o, IsOffer(o), chain[p + 1] # "m2m", SinkTyped(p, snk[p]),
         IsCopier(p + 1) => snk[p].n = 0, NEW t \in {1, 2}, NEW b,
         b = AskSink(p, IF t = 1 THEN "dmabuf" ELSE "memory", o)
  PROVE  Taken(p, t, o, b)
<1> DEFINE u == IF t = 1 THEN "dmabuf" ELSE "memory"
           d == snk[p]
           k == p + 1
<1>0. IsSide(d) /\ IsSide(NoSide) /\ o.n \in Nat /\ o.mem \in Memories /\ d.n \in Nat
  BY NoBuffersIs DEF SinkTyped, IsOffer, IsSide
<1>1. ASSUME NEW e, IsSide(e), e.mem = o.mem, o.n <= e.n, b = Accepted(e, o)
      PROVE  Taken(p, t, o, b)
  BY <1>1 DEF Taken, Accepted, SinkTyped
<1>2. ASSUME NEW e, IsSide(e), b = Undefined(e, o)
      PROVE  Taken(p, t, o, b)
  BY <1>2 DEF Taken, Undefined, SinkTyped
<1>3. ASSUME NEW e, IsSide(e), b = Refused(e, o), IsCopier(k) => t = 1 /\ e.n = 0,
             t = 2 => chain[k] \in {"screen", "writeback", "egl"}
      PROVE  Taken(p, t, o, b)
  BY <1>3 DEF Taken, Refused, SinkTyped, NoMemory
<1>4. ASSUME NEW x \in BOOLEAN, NEW y \in BOOLEAN, NEW e, e = Side(o, x, y)
      PROVE  IsSide(e) /\ e.n = o.n /\ e.mem = o.mem /\ e.dma = x /\ o.n <= e.n
  BY <1>0, <1>4 DEF IsSide, Side
<1>5. u \in {"dmabuf", "memory"} /\ (u = "dmabuf" <=> t = 1) /\ (u = "memory" <=> t = 2)
      /\ k \in Nat /\ chain[k] \in Kinds \ {"camera"} /\ b = AskSink(p, u, o)
  BY PipeIs DEF Transfers, Pipes, Kinds
<1> HIDE DEF u, d
<1>6. CASE chain[k] \in {"screen", "writeback"}
  <2>1. b = ScreenSink(hw, d, Me(k, "sink"), u, o)
    BY <1>5, <1>6 DEF AskSink, d
  <2>2. CASE b = Undefined(d, o)
    BY <1>0, <1>2, <2>2
  <2>3. CASE b = Refused(d, o)
    BY <1>0, <1>3, <1>6, <2>3 DEF IsCopier
  <2>4. CASE b = Accepted(Side(o, TRUE, FALSE), o)
    BY <1>1, <1>4, <2>4
  <2> QED
    BY <1>5, <2>1, <2>2, <2>3, <2>4 DEF ScreenSink
<1>7. CASE chain[k] = "egl"
  <2> DEFINE z == Side(o, u = "dmabuf", u = "memory")
             e == [z EXCEPT !.n = d.n + o.n]
  <2>1. b = Accepted(e, o) \/ b = Refused(d, o)
    BY <1>5, <1>7 DEF AskSink, EglSink, d
  <2>2. IsSide(z) /\ z.mem = o.mem
    BY <1>4
  <2> HIDE DEF z
  <2>3. IsSide(e) /\ e.mem = o.mem /\ o.n <= e.n
    BY <1>0, <2>2 DEF IsSide
  <2> HIDE DEF e
  <2>4. CASE b = Accepted(e, o)
    BY <1>1, <2>3, <2>4
  <2>5. CASE b = Refused(d, o)
    BY <1>0, <1>3, <1>7, <2>5 DEF IsCopier
  <2> QED
    BY <2>1, <2>4, <2>5
<1>8. CASE chain[k] \in {"hailo", "tile", "file"}
  <2> DEFINE z == Side(o, u = "dmabuf", TRUE)
             w == Side(o, u = "dmabuf", u = "memory")
  <2>1. b = Accepted(z, o) \/ b = Accepted(w, o)
    <3>1. CASE chain[k] = "hailo"
      <4>1. b = Hailo(d, Me(k, "sink"), MaxBuffers, u, o)
        BY <1>5, <3>1 DEF AskSink, d
      <4> QED
        BY <1>5, <4>1 DEF Hailo
    <3>2. CASE chain[k] = "tile"
      BY <1>5, <3>2 DEF AskSink, TileSlave, d
    <3>3. CASE chain[k] = "file"
      BY <1>5, <3>3 DEF AskSink, FileSink, d
    <3> QED
      BY <1>8, <3>1, <3>2, <3>3
  <2>2. IsSide(z) /\ z.mem = o.mem /\ o.n <= z.n /\ IsSide(w) /\ w.mem = o.mem /\ o.n <= w.n
    BY <1>4
  <2> HIDE DEF z, w
  <2> QED
    BY <1>1, <2>1, <2>2
<1>9. CASE IsCopier(k)
  <2> DEFINE z == Side(o, u = "dmabuf", TRUE)
  <2>1. IsSide(z) /\ z.mem = o.mem /\ o.n <= z.n /\ z.dma = (u = "dmabuf") /\ z.n = o.n
    BY <1>4
  <2> HIDE DEF z
  <2>2. CASE b = Accepted(z, o)
    BY <1>1, <2>1, <2>2
  <2>3. CASE b = Refused(NoSide, o) /\ t = 1
    BY <1>0, <1>3, <2>3 DEF NoSide
  <2>4. b = Accepted(z, o) \/ (b = Refused(NoSide, o) /\ t = 1)
    <3>1. d.n = 0
      BY <1>9 DEF d
    <3>2. b = IF CannotCopy(hw, chain[k] = "copy", u, o) THEN Refused(NoSide, o) ELSE PassthroughSlave(d, u, o)
      BY <1>5, <1>9 DEF AskSink, IsCopier, d
    <3>3. PassthroughSlave(d, u, o) =
            CASE u = "memory" -> Accepted(z, o)
              [] u = "dmabuf" /\ ~ z.dma -> Refused(NoSide, o)
              [] u = "dmabuf" /\ z.dma /\ z.n < o.n -> Undefined(z, o)
              [] OTHER -> Accepted(z, o)
      BY <3>1 DEF PassthroughSlave, z
    <3>4. PassthroughSlave(d, u, o) = Accepted(z, o)
      <4>1. u = "memory" \/ (u = "dmabuf" /\ z.dma /\ ~ (z.n < o.n))
        <5>1. u = "dmabuf" => z.dma = TRUE
          BY <2>1
        <5>2. z.n = o.n /\ o.n \in Nat
          BY <1>0, <2>1
        <5> QED
          BY <1>5, <5>1, <5>2
      <4> QED
        BY <3>3, <4>1
    <3>5. CannotCopy(hw, chain[k] = "copy", u, o) => t = 1
      BY <1>5 DEF CannotCopy
    <3> QED
      BY <3>2, <3>4, <3>5
  <2> QED
    BY <2>2, <2>3, <2>4
<1>10. chain[k] \in {"screen", "writeback", "egl", "hailo", "tile", "file"} \/ IsCopier(k)
  BY <1>5 DEF Kinds, IsCopier
<1> QED
  BY <1>6, <1>7, <1>8, <1>9, <1>10

-----------------------------------------------------------------------------
(* The output lends *)

(* What the sink of pipe p has lent at attempt t, or why it has not.          *)
SinkLent(p, t, a) ==
  /\ SinkTyped(p, a.d) /\ IsOffer(a.offer)
  /\ a.ret = "ok" =>
       /\ a.offer.n = a.d.n
       /\ a.offer.mem = a.d.mem \/ (t = 4 /\ (a.d.n = 0 \/ Stuck))
       /\ t = 4 => chain[p + 1] \notin {"screen", "writeback", "egl"}
  /\ t = 3 /\ chain[p + 1] = "m2m" /\ a.ret # "undefined" => SinkTried(p, 4, src[p], a.d)

LEMMA LentByV4l2Sink ==
  ASSUME GivenOK, MachineOK, NEW p \in Pipes, NEW o, IsOffer(o), chain[p + 1] = "m2m", SinkTyped(p, snk[p]),
         NEW t \in {3, 4}, SinkTried(p, t, src[p], snk[p]), NEW a,
         a = AskSink(p, IF t = 3 THEN "dmabuf_master" ELSE "memory_master", o)
  PROVE  SinkLent(p, t, a)
<1> DEFINE h == Hw(p + 1)
           d == snk[p]
           me == Me(p + 1, "sink")
           u == IF t = 3 THEN "dmabuf_master" ELSE "memory_master"
<1>1. a = RequestV4l2(h, d, me, MaxBuffers, u, o)
  BY DEF AskSink
<1>2. /\ IsHardware(h) /\ h.export = hw.export /\ h.dmabuf = hw.dmabuf /\ IsTable(d)
      /\ MaxBuffers \in Nat /\ me \in Memories
  BY HwIs, MemoriesAre, PipeIs, MostIs DEF SinkTyped, Sides
<1> HIDE DEF h, d, me
<1>3. CASE d.freed
  <2>1. a = Undefined(d, o)
    BY <1>1, <1>3 DEF RequestV4l2
  <2> QED
    BY <1>2, <2>1 DEF SinkLent, Undefined, SinkTyped
<1>4. CASE ~ d.freed /\ t = 3
  <2>1. d.table \in {"none", "dmabuf"}
    BY <1>4 DEF SinkTried, d
  <2>2. /\ IsTable(a.d) /\ ~ a.d.freed /\ a.ret \in {"ok", "refused"}
        /\ a.ret = "ok" => a.d.table = "dmabuf" /\ a.offer = [n |-> a.d.n, mem |-> a.d.mem]
        /\ a.ret = "refused" => /\ a.d.table = "mmap" /\ a.offer = o
                                /\ IF h.export THEN ~ h.dmabuf ELSE a.d.n = 0
    BY <1>1, <1>2, <1>4, <2>1, DmabufMasterIs
  <2>3. IsOffer(a.offer)
    BY <2>2 DEF IsOffer, IsTable
  <2>4. SinkTried(p, 4, src[p], a.d)
    BY <1>2, <2>2 DEF SinkTried, Stuck
  <2> QED
    BY <1>4, <2>2, <2>3, <2>4 DEF SinkLent, SinkTyped
<1>5. CASE ~ d.freed /\ t = 4
  <2>1. d.table = "dmabuf" \/ (d.table = "mmap" /\ (d.n = 0 \/ Stuck))
    BY <1>5 DEF SinkTried, d
  <2>2. /\ IsTable(a.d) /\ a.ret = "ok"
        /\ a.offer = [n |-> a.d.n, mem |-> IF a.d.mapped THEN a.d.mem ELSE Null] /\ IsOffer(a.offer)
        /\ d.table = "mmap" => a.d.n = d.n
        /\ d.table \in {"dmabuf", "userptr"} => a.d.mapped
    BY <1>1, <1>2, <1>5, MemoryMasterIs
  <2> QED
    BY <1>5, <2>1, <2>2 DEF SinkLent, SinkTyped
<1> QED
  BY <1>3, <1>4, <1>5

LEMMA LentByOtherSinks ==
  ASSUME GivenOK, MachineOK, NEW p \in Pipes, NEW o, IsOffer(o), chain[p + 1] # "m2m", SinkTyped(p, snk[p]),
         NEW t \in {3, 4}, NEW a, a = AskSink(p, IF t = 3 THEN "dmabuf_master" ELSE "memory_master", o)
  PROVE  SinkLent(p, t, a)
<1> DEFINE u == IF t = 3 THEN "dmabuf_master" ELSE "memory_master"
           d == snk[p]
           k == p + 1
           all == Own(MaxBuffers, Me(k, "sink"))
           own == [n |-> d.n, mem |-> d.mem]
<1>0. IsSide(d) /\ Me(k, "sink") \in Memories
  BY MemoriesAre, PipeIs DEF SinkTyped, Sides
<1>1. IsOffer(all) /\ IsOffer(own)
  BY <1>0, MostIs DEF IsOffer, IsSide, Own
<1>2. /\ u \in {"dmabuf_master", "memory_master"} /\ (u = "dmabuf_master" <=> t = 3)
      /\ chain[k] \in Kinds \ {"camera"} /\ a = AskSink(p, u, o)
  BY PipeIs DEF Transfers, Pipes, Kinds
<1> HIDE DEF all, u
<1>3. CASE a = Refused(d, o) \/ a = Undefined(d, o)
  BY <1>0, <1>3 DEF SinkLent, Refused, Undefined, SinkTyped
<1>4. CASE a = Accepted(d, own) /\ IsCopier(k)
  BY <1>0, <1>1, <1>4 DEF SinkLent, Accepted, SinkTyped, IsCopier
<1>5. ASSUME NEW x \in BOOLEAN, NEW y \in BOOLEAN, NEW z, z = Side(all, x, y), a = Accepted(z, all),
             t = 4 => chain[k] = "hailo"
      PROVE  SinkLent(p, t, a)
  <2>1. IsSide(z) /\ z.n = all.n /\ z.mem = all.mem
    BY <1>1, <1>5 DEF IsSide, IsOffer, Side
  <2> QED
    BY <1>1, <1>5, <2>1 DEF SinkLent, Accepted, SinkTyped
<1>6. CASE chain[k] \in {"screen", "writeback"}
  <2>1. a = ScreenSink(hw, d, Me(k, "sink"), u, o)
    BY <1>2, <1>6 DEF AskSink
  <2>2. CASE t = 3
    <3>1. u = "dmabuf_master"
      BY <1>2, <2>2
    <3>2. a = Accepted(Side(all, TRUE, FALSE), all)
      BY <2>1, <3>1 DEF ScreenSink, all
    <3>3. t = 4 => chain[k] = "hailo"
      BY <2>2
    <3> HIDE DEF k
    <3> QED
      BY <1>5, <3>2, <3>3
  <2>3. CASE t = 4
    <3>1. u = "memory_master"
      BY <1>2, <2>3
    <3> QED
      BY <1>3, <2>1, <3>1 DEF ScreenSink
  <2> QED
    BY <2>2, <2>3
<1>7. CASE chain[k] = "hailo"
  <2>1. a = Hailo(d, Me(k, "sink"), MaxBuffers, u, o)
    BY <1>2, <1>7 DEF AskSink
  <2>2. CASE t = 4
    <3>1. u = "memory_master"
      BY <1>2, <2>2
    <3>2. a = Accepted(Side(all, FALSE, TRUE), all)
      BY <2>1, <3>1 DEF Hailo, all
    <3> QED
      BY <1>5, <1>7, <3>2
  <2>3. CASE t = 3
    BY <1>2, <1>3, <2>1, <2>3 DEF Hailo
  <2> QED
    BY <2>2, <2>3
<1>8. CASE chain[k] \in {"egl", "tile", "file"}
  <2>1. CASE chain[k] = "egl"
    BY <1>2, <1>3, <2>1 DEF AskSink, EglSink
  <2>2. CASE chain[k] = "tile"
    BY <1>2, <1>3, <2>2 DEF AskSink, TileSlave
  <2>3. CASE chain[k] = "file"
    BY <1>2, <1>3, <2>3 DEF AskSink, FileSink
  <2> QED
    BY <1>8, <2>1, <2>2, <2>3
<1>9. CASE IsCopier(k)
  <2>1. a = Lends(d, u, o)
    BY <1>2, <1>9 DEF AskSink, IsCopier
  <2> QED
    BY <1>3, <1>4, <1>9, <2>1 DEF Lends
<1>10. chain[k] \in {"screen", "writeback", "egl", "hailo", "tile", "file"} \/ IsCopier(k)
  BY <1>2 DEF Kinds, IsCopier
<1> QED
  BY <1>6, <1>7, <1>8, <1>9, <1>10

(* What the source of pipe p answers at attempt t to the buffers o of the output. *)
SourceTaken(p, t, o, b) ==
  /\ SourceTyped(p, b.d)
  /\ b.ret = "ok" =>
       IF IsV4l2(p) /\ t = 4 THEN hw.userptr
       ELSE (IsV4l2(p) => hw.dmabuf) /\ (IsCopier(p) \/ (b.d.n <= o.n /\ b.d.mem = o.mem))
  /\ IsV4l2(p) /\ t = 3 /\ b.ret = "refused" => b.d.table # "userptr"

LEMMA TakenByV4l2Source ==
  ASSUME GivenOK, MachineOK, NEW p \in Pipes, NEW o, IsOffer(o), IsV4l2(p), SourceTyped(p, src[p]),
         NEW t \in {3, 4}, SourceTried(p, t, src[p]), NEW b,
         b = AskSource(p, IF t = 3 THEN "dmabuf" ELSE "memory", o)
  PROVE  SourceTaken(p, t, o, b)
<1> DEFINE h == Hw(p)
           d == src[p]
           u == IF t = 3 THEN "dmabuf" ELSE "memory"
<1>1. b = RequestV4l2(h, d, Me(p, "source"), Asked(p), u, o)
  BY DEF AskSource, IsV4l2, Asked
<1>2. /\ IsHardware(h) /\ h.userptr = hw.userptr /\ h.dmabuf = hw.dmabuf
      /\ IsTable(d) /\ Asked(p) \in Nat /\ Me(p, "source") \in Memories
  BY HwIs, AskedIs, MemoriesAre, PipeIs DEF SourceTyped, Sides
<1> HIDE DEF h, d
<1>3. CASE t = 3
  <2>1. d.table \in {"none", "mmap"}
    BY <1>3 DEF SourceTried, d
  <2>2. /\ IsTable(b.d)
        /\ b.ret = "ok" => h.dmabuf /\ b.d.mem = o.mem /\ b.d.n <= o.n
        /\ b.ret = "refused" => b.d.table # "userptr"
    BY <1>1, <1>2, <1>3, <2>1, DmabufSlaveIs
  <2> QED
    BY <1>2, <1>3, <2>2 DEF SourceTaken, SourceTyped
<1>4. CASE t = 4
  <2>1. d.table # "userptr"
    BY <1>4 DEF SourceTried, d
  <2>2. IsTable(b.d) /\ (b.ret = "ok" => h.userptr)
    BY <1>1, <1>2, <1>4, <2>1, MemorySlaveIs
  <2> QED
    BY <1>2, <1>4, <2>2 DEF SourceTaken, SourceTyped
<1> QED
  BY <1>3, <1>4

LEMMA TakenByOtherSources ==
  ASSUME GivenOK, MachineOK, NEW p \in Pipes, NEW o, IsOffer(o), ~ IsV4l2(p), SourceTyped(p, src[p]),
         NEW t \in {3, 4}, NEW b, b = AskSource(p, IF t = 3 THEN "dmabuf" ELSE "memory", o)
  PROVE  SourceTaken(p, t, o, b)
<1> DEFINE u == IF t = 3 THEN "dmabuf" ELSE "memory"
           d == src[p]
<1>0. IsSide(d) /\ IsSide(NoSide) /\ o.n \in Nat /\ o.mem \in Memories /\ d.dma \in BOOLEAN
  BY NoBuffersIs DEF SourceTyped, IsOffer, IsSide
<1>1. u \in {"dmabuf", "memory"} /\ (u = "dmabuf" <=> t = 3) /\ b = AskSource(p, u, o)
      /\ chain[p] \in Transfers \ {"m2m"}
  BY PipeIs DEF IsV4l2
<1>2. ASSUME NEW e, IsSide(e), b = Undefined(e, o) \/ b = Refused(e, o)
      PROVE  SourceTaken(p, t, o, b)
  BY <1>2 DEF SourceTaken, Undefined, Refused, SourceTyped
<1>3. ASSUME NEW x \in BOOLEAN, NEW y \in BOOLEAN, NEW e, e = Side(o, x, y)
      PROVE  IsSide(e) /\ e.n <= o.n /\ e.mem = o.mem
  BY <1>0, <1>3 DEF IsSide, Side
<1>4. ASSUME NEW e, IsSide(e), IsCopier(p) \/ (e.n <= o.n /\ e.mem = o.mem), b = Accepted(e, o)
      PROVE  SourceTaken(p, t, o, b)
  BY <1>4 DEF SourceTaken, Accepted, SourceTyped
<1> HIDE DEF u, d
<1>5. CASE chain[p] = "writeback"
  <2>1. b = Refused(d, o)
    BY <1>1, <1>5 DEF AskSource, WritebackSource, d
  <2> QED
    BY <1>0, <1>2, <2>1
<1>6. CASE chain[p] = "egl"
  <2> DEFINE z == Side(o, d.dma, TRUE)
  <2>1. b = EglSource(d, u, o)
    BY <1>6, <1>1 DEF AskSource, d
  <2>2. b = Refused(d, o) \/ b = Undefined(d, o) \/ b = Accepted(z, o)
    BY <1>1, <2>1 DEF EglSource
  <2>3. IsSide(z) /\ z.n <= o.n /\ z.mem = o.mem
    BY <1>0, <1>3
  <2> HIDE DEF z
  <2> QED
    BY <1>0, <1>2, <1>4, <2>2, <2>3
<1>7. CASE chain[p] \in {"hailo", "tile"}
  <2> DEFINE z == Side(o, u = "dmabuf", TRUE)
  <2>1. b = Undefined(d, o) \/ b = Accepted(z, o)
    <3>1. CASE chain[p] = "tile"
      BY <1>1, <3>1 DEF AskSource, TileSlave, d
    <3>2. CASE chain[p] = "hailo"
      <4>1. b = IF u = "memory" THEN Undefined(d, o) ELSE Hailo(d, Me(p, "source"), MaxBuffers, u, o)
        BY <1>1, <3>2 DEF AskSource, d
      <4> QED
        BY <1>1, <4>1 DEF Hailo
    <3> QED
      BY <1>7, <3>1, <3>2
  <2>2. IsSide(z) /\ z.n <= o.n /\ z.mem = o.mem
    BY <1>3
  <2> HIDE DEF z
  <2> QED
    BY <1>0, <1>2, <1>4, <2>1, <2>2
<1>8. CASE IsCopier(p)
  <2> DEFINE z == Side(o, u = "dmabuf", TRUE)
             e == IF d.n = 0 THEN z ELSE d
  <2>1. IsSide(e)
    <3>1. IsSide(z)
      BY <1>3
    <3> QED
      BY <1>0, <3>1
  <2>2. b = PassthroughSlave(d, u, o)
    BY <1>1, <1>8 DEF AskSource, IsCopier, d
  <2>3. b \in {Accepted(e, o), Refused(NoSide, o), Undefined(e, o)}
    BY <2>2 DEF PassthroughSlave
  <2> HIDE DEF e
  <2> QED
    BY <1>0, <1>2, <1>4, <1>8, <2>1, <2>3
<1>9. chain[p] \in {"writeback", "egl", "hailo", "tile"} \/ IsCopier(p)
  BY <1>1 DEF Transfers, Kinds, IsCopier
<1> QED
  BY <1>5, <1>6, <1>7, <1>8, <1>9

-----------------------------------------------------------------------------
(* One attempt *)

(* What the two devices of pipe dev are after the attempt, when they agree.    *)
First(s) == IF dev = 1 THEN s ELSE src[1]
AgreedOn(s, d) ==
  /\ CanQueue(First(s)) /\ ~ (IsCopier(dev) /\ att \in {3, 4}) => Same(s, d)
  /\ dev = 1 /\ Stuck => ~ CanQueue(s)

LEMMA NegotiationIs ==
  ASSUME GivenOK, NegotiationInv, NumbersAgree, pc = "negotiate"
  PROVE  /\ dev \in Pipes /\ dev \in Nat /\ dev > 0 /\ att \in 1 .. 4
         /\ Tried(dev, att, src[dev], snk[dev]) /\ MachineOK /\ IsOffer(offer)
         /\ SourceTyped(dev, src[dev]) /\ SinkTyped(dev, snk[dev])
         /\ att = 1 => SourceWaits(dev, src[dev]) /\ SinkWaits(dev, snk[dev])
         /\ dev # 1 /\ Stuck => ~ CanQueue(src[1])
         /\ dev # 1 /\ chain[dev + 1] = "m2m" => Bounded(dev)
         /\ dev = 1 => IsV4l2(dev)
<1>1. /\ TypesOK /\ WaitingOK /\ TriedOK /\ AgreedOK
  BY DEF NegotiationInv
<1>2. dev \in Pipes /\ att \in 1 .. 4 /\ Tried(dev, att, src[dev], snk[dev])
  BY <1>1 DEF TriedOK
<1>3. MachineOK /\ IsOffer(offer) /\ SourceTyped(dev, src[dev]) /\ SinkTyped(dev, snk[dev])
  BY <1>1, <1>2 DEF TypesOK
<1>4. dev \in Nat /\ dev > 0 /\ (dev = 1 => chain[dev] = "camera")
  BY <1>2, PipeIs
<1>5. att = 1 => SourceWaits(dev, src[dev]) /\ SinkWaits(dev, snk[dev])
  BY <1>1, <1>2 DEF WaitingOK, Waiting, WaitingSink
<1>6. dev # 1 /\ Stuck => ~ CanQueue(src[1])
  BY <1>1, <1>4 DEF AgreedOK, Agreed
<1>7. ASSUME dev # 1, chain[dev + 1] = "m2m"
      PROVE  Bounded(dev)
  <2>1. /\ chain \in Chains /\ Len(chain) \in Nat /\ DOMAIN chain = 1 .. Len(chain)
        /\ count \in Counts /\ count \in Nat /\ MaxBuffers \in Nat
    BY <1>3, ChainIs, SizesAssumption, MostIs DEF GivenOK, MachineOK
  <2>2. dev + 1 \in DOMAIN chain /\ dev + 1 > 2
    BY <1>2, <1>4, <1>7, <2>1 DEF Pipes
  <2>3. /\ \A i \in 1 .. (dev + 1) - 1 : chain[i] # "tile"
        /\ count <= MaxBuffers /\ drv.min <= MaxBuffers
    BY <1>7, <2>1, <2>2 DEF NumbersAgree
  <2>4. drv.min <= MaxBuffers /\ drv.min \in Nat
    BY <1>3, <2>3, DriversAssumption DEF MachineOK
  <2>5. chain[1] = "camera"
    BY <2>1, ChainsAssumption
  <2>6. Hw(1).min = drv.min
    BY <2>5 DEF Hw, Flags
  <2>7. Granted(Hw(1), count) <= MaxBuffers
    BY <2>1, <2>3, <2>4, <2>6 DEF Granted
  <2>8. (dev + 1) - 1 = dev
    BY <1>4
  <2> QED
    BY <2>3, <2>7, <2>8 DEF Bounded
<1> QED
  BY <1>2, <1>3, <1>4, <1>5, <1>6, <1>7 DEF IsV4l2

LEMMA InputLends ==
  ASSUME GivenOK, NegotiationInv, NumbersAgree, pc = "negotiate", FromInput
  PROVE  Lent(dev, att, Master)
<1>0. /\ dev \in Pipes /\ Tried(dev, att, src[dev], snk[dev]) /\ MachineOK /\ IsOffer(offer)
      /\ SourceTyped(dev, src[dev]) /\ (att = 1 => SourceWaits(dev, src[dev])) /\ att \in {1, 2}
  BY NegotiationIs DEF FromInput
<1>1. Master = AskSource(dev, IF att = 1 THEN "dmabuf_master" ELSE "memory_master", offer)
  BY <1>0 DEF Master, FromInput, LentAs, Type
<1>2. SourceSmall(dev, src[dev])
  BY <1>0 DEF SourceWaits, Tried
<1>3. CASE ~ IsV4l2(dev)
  BY <1>0, <1>1, <1>2, <1>3, LentByOthers
<1>4. CASE IsV4l2(dev) /\ att = 1
  BY <1>0, <1>1, <1>4, FirstLentByV4l2
<1>5. CASE IsV4l2(dev) /\ att = 2
  <2>1. SourceTried(dev, 2, src[dev])
    BY <1>0, <1>5 DEF Tried
  <2> QED
    BY <1>0, <1>1, <1>2, <1>5, <2>1, SecondLentByV4l2
<1> QED
  BY <1>0, <1>3, <1>4, <1>5

LEMMA OutputTakes ==
  ASSUME GivenOK, NegotiationInv, NumbersAgree, pc = "negotiate", FromInput
  PROVE  Taken(dev, att, Master.offer, Slave)
<1> DEFINE o == Master.offer
<1>0. /\ dev \in Pipes /\ Tried(dev, att, src[dev], snk[dev]) /\ MachineOK
      /\ SinkTyped(dev, snk[dev]) /\ (att = 1 => SinkWaits(dev, snk[dev])) /\ att \in {1, 2}
  BY NegotiationIs DEF FromInput
<1>1. Slave = AskSink(dev, IF att = 1 THEN "dmabuf" ELSE "memory", o) /\ IsOffer(o)
  BY <1>0, InputLends DEF Slave, FromInput, Type, Lent
<1> HIDE DEF o
<1>2. CASE chain[dev + 1] # "m2m"
  <2>1. IsCopier(dev + 1) => snk[dev].n = 0
    <3>1. CASE att = 1
      BY <1>0, <1>2, <3>1 DEF SinkWaits, NoSide
    <3>2. CASE att = 2
      BY <1>0, <3>2 DEF Tried
    <3> QED
      BY <1>0, <3>1, <3>2
  <2> QED
    BY <1>0, <1>1, <1>2, <2>1, TakenByOthers DEF o
<1>3. CASE chain[dev + 1] = "m2m" /\ att = 1
  BY <1>0, <1>1, <1>3, FirstTakenByV4l2 DEF o
<1>4. CASE chain[dev + 1] = "m2m" /\ att = 2
  <2>1. snk[dev] = NoBuffers \/ (snk[dev].table = "dmabuf" /\ ~ snk[dev].freed)
    BY <1>0, <1>4 DEF Tried, SinkTried
  <2> QED
    BY <1>0, <1>1, <1>4, <2>1, SecondTakenByV4l2 DEF o
<1> QED
  BY <1>0, <1>2, <1>3, <1>4

LEMMA OutputLends ==
  ASSUME GivenOK, NegotiationInv, NumbersAgree, pc = "negotiate", ~ FromInput
  PROVE  SinkLent(dev, att, Master)
<1>0. /\ dev \in Pipes /\ Tried(dev, att, src[dev], snk[dev]) /\ MachineOK /\ IsOffer(offer)
      /\ SinkTyped(dev, snk[dev]) /\ att \in {3, 4}
  BY NegotiationIs DEF FromInput
<1>1. Master = AskSink(dev, IF att = 3 THEN "dmabuf_master" ELSE "memory_master", offer)
  BY <1>0 DEF Master, FromInput, LentAs, Type
<1>2. CASE chain[dev + 1] = "m2m"
  <2>1. SinkTried(dev, att, src[dev], snk[dev])
    BY <1>0, <1>2 DEF Tried
  <2> QED
    BY <1>0, <1>1, <1>2, <2>1, LentByV4l2Sink
<1>3. CASE chain[dev + 1] # "m2m"
  BY <1>0, <1>1, <1>3, LentByOtherSinks
<1> QED
  BY <1>2, <1>3

LEMMA InputTakes ==
  ASSUME GivenOK, NegotiationInv, NumbersAgree, pc = "negotiate", ~ FromInput
  PROVE  SourceTaken(dev, att, Master.offer, Slave)
<1> DEFINE o == Master.offer
<1>0. /\ dev \in Pipes /\ Tried(dev, att, src[dev], snk[dev]) /\ MachineOK
      /\ SourceTyped(dev, src[dev]) /\ att \in {3, 4}
  BY NegotiationIs DEF FromInput
<1>1. Slave = AskSource(dev, IF att = 3 THEN "dmabuf" ELSE "memory", o) /\ IsOffer(o)
  BY <1>0, OutputLends DEF Slave, FromInput, Type, SinkLent
<1> HIDE DEF o
<1>2. CASE IsV4l2(dev)
  <2>1. SourceTried(dev, att, src[dev])
    BY <1>0, <1>2 DEF Tried
  <2> QED
    BY <1>0, <1>1, <1>2, <2>1, TakenByV4l2Source DEF o
<1>3. CASE ~ IsV4l2(dev)
  BY <1>0, <1>1, <1>3, TakenByOtherSources DEF o
<1> QED
  BY <1>2, <1>3

(* The two devices agree on the buffers of the one that lends.                *)
LEMMA AgreesAt ==
  ASSUME GivenOK, NegotiationInv, NumbersAgree, pc = "negotiate", Master.ret = "ok", Slave.ret = "ok"
  PROVE  AgreedOn(SourceAsked.d, SinkAsked.d)
<1> DEFINE s == SourceAsked.d
           d == SinkAsked.d
           o == Master.offer
           m == chain[dev + 1] = "m2m"
<1>0. /\ dev \in Nat /\ dev > 0 /\ att \in 1 .. 4 /\ Tried(dev, att, src[dev], snk[dev])
      /\ dev # 1 /\ Stuck => ~ CanQueue(src[1])
      /\ dev # 1 /\ m => Bounded(dev)
      /\ dev = 1 => IsV4l2(dev)
  BY NegotiationIs
<1>1. ASSUME FromInput
      PROVE  /\ s.n \in Nat /\ d.n \in Nat /\ att \in {1, 2} /\ o.n = s.n /\ d.mem = o.mem
             /\ o.mem = s.mem \/ (IsV4l2(dev) /\ att = 2 /\ (s.n = 0 \/ Stuck))
             /\ (att = 2 /\ m => Fits2(dev, o)) => o.n <= d.n
             /\ IsV4l2(dev) /\ att = 1 => hw.dmabuf
             /\ IsV4l2(dev) /\ att = 2 /\ Stuck => ~ CanQueue(s)
             /\ IsV4l2(dev) /\ att = 2 /\ src[dev].table = "mmap" => s.n = 0 \/ Stuck
             /\ att = 2 /\ chain[dev] # "hailo" /\ (IsV4l2(dev) => src[dev].table = "dmabuf") => s.n = src[dev].n
             /\ SourceSmall(dev, s)
  <2>1. Lent(dev, att, Master) /\ Taken(dev, att, Master.offer, Slave) /\ s = Master.d /\ d = Slave.d /\ att \in {1, 2}
    BY <1>1, InputLends, OutputTakes DEF SourceAsked, SinkAsked, FromInput
  <2>2. s.n \in Nat /\ d.n \in Nat
    BY <2>1 DEF Lent, Taken, SourceTyped, SinkTyped, IsTable, IsSide
  <2> HIDE DEF s, d
  <2>3. m => chain[dev + 1] = "m2m"
    OBVIOUS
  <2> QED
    BY <2>1, <2>2, <2>3 DEF Lent, Taken
<1>2. ASSUME ~ FromInput
      PROVE  /\ s.n \in Nat /\ d.n \in Nat /\ att \in {3, 4} /\ o.n = d.n
             /\ o.mem = d.mem \/ (att = 4 /\ (d.n = 0 \/ Stuck))
             /\ IF IsV4l2(dev) /\ att = 4 THEN hw.userptr
                ELSE (IsV4l2(dev) => hw.dmabuf) /\ (IsCopier(dev) \/ (s.n <= o.n /\ s.mem = o.mem))
             /\ att = 4 => chain[dev + 1] \notin {"screen", "writeback", "egl"}
  <2>1. SinkLent(dev, att, Master) /\ SourceTaken(dev, att, Master.offer, Slave) /\ s = Slave.d /\ d = Master.d
        /\ att \in {3, 4}
    BY <1>0, <1>2, OutputLends, InputTakes DEF SourceAsked, SinkAsked, FromInput
  <2>2. s.n \in Nat /\ d.n \in Nat
    BY <2>1 DEF SinkLent, SourceTaken, SourceTyped, SinkTyped, IsTable, IsSide
  <2> HIDE DEF s, d
  <2> QED
    BY <2>1, <2>2 DEF SinkLent, SourceTaken
<1> HIDE DEF s, d, o, m
<1>3. ASSUME dev = 1, Stuck
      PROVE  ~ CanQueue(s)
  <2>1. CASE FromInput
    BY <1>0, <1>1, <1>3, <2>1 DEF Stuck
  <2>2. CASE ~ FromInput
    <3>1. att # 4
      BY <1>0, <1>2, <1>3, <2>2 DEF Tried, NoMemory
    <3> QED
      BY <1>0, <1>2, <1>3, <2>2, <3>1 DEF Stuck
  <2> QED
    BY <2>1, <2>2
<1>4. Stuck => ~ CanQueue(First(s))
  BY <1>0, <1>3 DEF First
<1>5. ASSUME ~ Stuck, FromInput
      PROVE  Same(s, d)
  <2>1. s.n = 0 \/ (o.mem = s.mem /\ d.mem = s.mem)
    BY <1>1, <1>5
  <2>2. ASSUME att = 2, m, s.n > 0
        PROVE  Fits2(dev, o)
    <3>1. SinkTried(dev, 2, src[dev], snk[dev])
      BY <1>0, <2>2 DEF Tried, m
    <3>2. CASE snk[dev] = NoBuffers
      <4>1. ~ IsV4l2(dev)
        BY <1>1, <1>5, <2>2, <3>1, <3>2 DEF SinkTried, NoBuffers
      <4>2. Bounded(dev)
        BY <1>0, <2>2, <4>1
      <4> QED
        BY <1>1, <1>5, <3>2, <4>2 DEF Fits2, SourceSmall
    <3>3. CASE snk[dev] # NoBuffers
      BY <1>1, <1>5, <2>2, <3>1, <3>3 DEF Fits2, SinkTried
    <3> QED
      BY <3>2, <3>3
  <2>3. s.n > 0 => o.n <= d.n
    BY <1>1, <1>5, <2>2
  <2> QED
    BY <1>1, <1>5, <2>1, <2>3 DEF Same
<1>6. ASSUME ~ Stuck, ~ FromInput, ~ (IsCopier(dev) /\ att \in {3, 4})
      PROVE  Same(s, d)
  <2>1. ~ (IsV4l2(dev) /\ att = 4)
    BY <1>0, <1>2, <1>6 DEF Tried, NoMemory
  <2>2. s.n <= d.n /\ s.mem = o.mem
    BY <1>2, <1>6, <2>1
  <2>3. d.n = 0 \/ o.mem = d.mem
    BY <1>2, <1>6
  <2> QED
    BY <1>2, <1>6, <2>2, <2>3 DEF Same
<1>7. CanQueue(First(s)) /\ ~ (IsCopier(dev) /\ att \in {3, 4}) => Same(s, d)
  BY <1>4, <1>5, <1>6
<1> QED
  BY <1>3, <1>7 DEF AgreedOn, s, d

(* What a refusal leaves, the master's or the slave's.                        *)
LEMMA MasterLeaves ==
  ASSUME GivenOK, NegotiationInv, NumbersAgree, pc = "negotiate", Master.ret = "refused", att < 4
  PROVE  /\ FromInput => Tried(dev, att + 1, Master.d, snk[dev])
         /\ ~ FromInput => Tried(dev, att + 1, src[dev], Master.d)
<1>0. /\ dev \in Nat /\ att \in 1 .. 4 /\ Tried(dev, att, src[dev], snk[dev])
      /\ att = 1 => SourceWaits(dev, src[dev]) /\ SinkWaits(dev, snk[dev])
  BY NegotiationIs
<1>1. ASSUME FromInput
      PROVE  Tried(dev, att + 1, Master.d, snk[dev])
  <2>1. Lent(dev, att, Master) /\ att \in {1, 2}
    BY <1>1, InputLends DEF FromInput
  <2>2. CASE att = 1
    <3>1. /\ SourceSmall(dev, Master.d)
          /\ IsV4l2(dev) => SourceTried(dev, 2, Master.d) /\ Master.d.table = "mmap"
      BY <2>1, <2>2 DEF Lent
    <3>2. /\ chain[dev + 1] = "m2m" => snk[dev] = NoBuffers
          /\ IsCopier(dev + 1) => snk[dev].n = 0
      BY <1>0, <2>2 DEF SinkWaits, IsCopier, NoSide
    <3> QED
      BY <2>2, <3>1, <3>2 DEF Tried, SinkTried
  <2>3. CASE att = 2
    <3>1. ~ IsV4l2(dev)
      BY <2>1, <2>3 DEF Lent
    <3>2. chain[dev + 1] = "m2m" => snk[dev].table \in {"none", "dmabuf"}
      BY <1>0, <2>3 DEF Tried, SinkTried, NoBuffers
    <3> QED
      BY <2>3, <3>1, <3>2 DEF Tried, SinkTried
  <2> QED
    BY <2>1, <2>2, <2>3
<1>2. ASSUME ~ FromInput
      PROVE  Tried(dev, att + 1, src[dev], Master.d)
  <2>1. att = 3 /\ SinkLent(dev, 3, Master)
    BY <1>0, <1>2, OutputLends DEF FromInput
  <2>2. chain[dev + 1] = "m2m" => SinkTried(dev, 4, src[dev], Master.d)
    BY <2>1 DEF SinkLent
  <2>3. IsV4l2(dev) => SourceTried(dev, 4, src[dev]) /\ NoMemory(dev)
    BY <1>0, <2>1 DEF Tried, SourceTried
  <2> QED
    BY <2>1, <2>2, <2>3 DEF Tried
<1> QED
  BY <1>1, <1>2

LEMMA SlaveLeaves ==
  ASSUME GivenOK, NegotiationInv, NumbersAgree, pc = "negotiate", Master.ret = "ok", Slave.ret = "refused",
         att < 4
  PROVE  Tried(dev, att + 1, SourceAsked.d, SinkAsked.d)
<1>0. dev \in Nat /\ att \in 1 .. 4 /\ Tried(dev, att, src[dev], snk[dev])
  BY NegotiationIs
<1>1. CASE FromInput
  <2> DEFINE s == Master.d
             d == Slave.d
  <2>1. Lent(dev, att, Master) /\ Taken(dev, att, Master.offer, Slave) /\ att \in {1, 2}
        /\ SourceAsked.d = s /\ SinkAsked.d = d
    BY <1>1, InputLends, OutputTakes DEF SourceAsked, SinkAsked, FromInput
  <2>2. CASE att = 1
    <3>1. /\ SourceSmall(dev, s) /\ Master.offer.n = s.n /\ chain[dev] # "hailo"
          /\ IsV4l2(dev) => SourceTried(dev, 2, s) /\ hw.dmabuf /\ s.table = "dmabuf"
      BY <2>1, <2>2 DEF Lent
    <3>2. /\ IsCopier(dev + 1) => d.n = 0
          /\ chain[dev + 1] = "m2m" => \/ d = NoBuffers /\ ~ hw.dmabuf
                                       \/ d.table = "dmabuf" /\ ~ d.freed /\ s.n <= d.n
      BY <2>1, <2>2, <3>1 DEF Taken
    <3> HIDE DEF s, d
    <3> QED
      BY <2>1, <2>2, <3>1, <3>2 DEF Tried, SinkTried
  <2>3. CASE att = 2
    <3>1. IsV4l2(dev) => SourceTried(dev, 3, s)
      BY <2>1, <2>3 DEF Lent
    <3>2. NoMemory(dev) /\ (chain[dev + 1] = "m2m" => d.freed \/ d.table \in {"none", "dmabuf"})
      BY <2>1, <2>3 DEF Taken
    <3> HIDE DEF s, d
    <3> QED
      BY <2>1, <2>3, <3>1, <3>2 DEF Tried, SinkTried
  <2> QED
    BY <2>1, <2>2, <2>3
<1>2. CASE ~ FromInput
  <2> DEFINE s == Slave.d
             d == Master.d
  <2>1. SinkLent(dev, 3, Master) /\ SourceTaken(dev, 3, Master.offer, Slave) /\ att = 3
        /\ SourceAsked.d = s /\ SinkAsked.d = d
    BY <1>0, <1>2, OutputLends, InputTakes DEF SourceAsked, SinkAsked, FromInput
  <2>2. chain[dev + 1] = "m2m" => SinkTried(dev, 4, s, d)
    BY <2>1 DEF SinkLent, SinkTried
  <2>3. IsV4l2(dev) => SourceTried(dev, 4, s) /\ NoMemory(dev)
    BY <1>0, <2>1 DEF Tried, SourceTried, SourceTaken
  <2> QED
    BY <2>1, <2>2, <2>3 DEF Tried
<1> QED
  BY <1>1, <1>2

(* The number of tiles and their size are numbers.                            *)
LEMMA GridIs ==
  ASSUME NEW c, c.width \in Nat, c.height \in Nat
  PROVE  /\ GridOf(c).w \in Nat /\ GridOf(c).h \in Nat
         /\ NTiles(c) \in Nat
<1> DEFINE W == Tiling.width
           H == Tiling.height
           N == Tiling.ntiles
           nx == IF W > 0 THEN Tiles(c.width, W) ELSE 2
           ny == IF H > 0 THEN Tiles(c.height, H) ELSE 1
           line == N > 0 /\ N < nx * ny /\ N < nx
           x == IF line THEN N ELSE nx
           y == IF line THEN 1 ELSE ny
<1>1. W \in Nat /\ H \in Nat /\ N \in Nat
  BY SizesAssumption
<1>2. nx \in Nat /\ ny \in Nat
  BY <1>1 DEF Tiles
<1>3. /\ GridOf(c).w = (IF W > 0 THEN W ELSE c.width \div 2) /\ GridOf(c).h = (IF H > 0 THEN H ELSE c.height)
      /\ GridOf(c).x = x /\ GridOf(c).y = y
  BY DEF GridOf, Grid
<1> HIDE DEF nx, ny, line
<1>4. x \in Nat /\ y \in Nat
  BY <1>1, <1>2
<1> HIDE DEF x, y
<1>5. x * y \in Nat
  BY <1>4
<1> QED
  BY <1>1, <1>3, <1>5 DEF NTiles

(* The duplicate of a device that took the buffers of pipe dev has as many,     *)
(* and a tiling some for each tile.                                           *)
LEMMA DuplicateWaits ==
  ASSUME GivenOK, NegotiationInv, NumbersAgree, pc = "negotiate", FromInput,
         Master.ret = "ok", Slave.ret \in {"ok", "refused"}, dev + 1 \in Pipes
  PROVE  SourceWaits(dev + 1, DupOf(dev, Type, SinkAsked))
<1> DEFINE k == dev + 1
           me == Me(k, "source")
           o == Slave.offer
<1>0. /\ dev \in Nat /\ k \in Nat /\ k \in 1 .. k /\ k \in DOMAIN chain /\ MachineOK /\ SourceWaits(k, src[k]) /\ SizesOK
      /\ me \in Memories
  <2>1. dev \in Nat /\ dev \in Pipes /\ MachineOK /\ SizesOK /\ WaitingOK
    BY NegotiationIs DEF NegotiationInv
  <2>2. k \in Nat /\ k \in 1 .. k /\ k \in DOMAIN chain /\ Waiting(k)
    BY <2>1, ChainIs DEF Waiting, Pipes
  <2> QED
    BY <2>1, <2>2, MemoriesAre DEF WaitingOK, Sides
<1>1. SinkAsked = Slave
  BY DEF SinkAsked
<1>2. ASSUME Slave.ret = "ok"
      PROVE  IsOffer(o) /\ (Bounded(k) => o.n <= Most)
  <2>1. Lent(dev, att, Master) /\ Taken(dev, att, Master.offer, Slave)
    BY InputLends, OutputTakes
  <2>2. o = Master.offer /\ IsOffer(o) /\ o.n = Master.d.n /\ SourceSmall(dev, Master.d)
    BY <1>2, <2>1 DEF Lent, Taken
  <2>3. Bounded(k) => Bounded(dev)
    BY <1>0 DEF Bounded
  <2> QED
    BY <2>2, <2>3 DEF SourceSmall
<1>3. hw.heap \in BOOLEAN
  BY <1>0 DEF MachineOK, Flags
<1> HIDE DEF k, me, o
<1>4. ASSUME NEW x \in BOOLEAN, NEW y \in BOOLEAN, NEW n \in Nat, NEW m \in Memories, NEW z,
             z = Side(Own(n, m), x, y), ~ IsV4l2(k), Bounded(k) => n <= Most
      PROVE  SourceWaits(k, z)
  <2>1. IsSide(z) /\ z.n = n
    BY <1>4 DEF IsSide, Side, Own
  <2> QED
    BY <1>4, <2>1 DEF SourceWaits, SourceSmall
<1>5. CASE IsCopier(k) /\ Slave.ret = "ok"
  <2>1. DupOf(dev, Type, Slave) = PassthroughDup(hw, chain[k] = "copy", me, Type, o)
    BY <1>5 DEF DupOf, Type, IsCopier, k, me, o
  <2>2. o.n \in Nat /\ o.mem \in Memories /\ o = Own(o.n, o.mem)
    BY <1>2, <1>5 DEF IsOffer, Own
  <2>3. ~ IsV4l2(k)
    BY <1>5 DEF IsV4l2, IsCopier
  <2>4. CASE chain[k] = "copy"
    <3> DEFINE z == Side(Own(o.n, me), Type = "dmabuf" /\ hw.heap, TRUE)
    <3>1. DupOf(dev, Type, Slave) = z
      BY <2>1, <2>4 DEF PassthroughDup
    <3>2. SourceWaits(k, z)
      BY <1>0, <1>2, <1>4, <1>5, <2>2, <2>3
    <3> QED
      BY <1>1, <3>1, <3>2 DEF k
  <2>5. CASE chain[k] # "copy"
    <3> DEFINE z == Side(Own(o.n, o.mem), Type = "dmabuf", Type = "memory")
    <3>1. DupOf(dev, Type, Slave) = z
      BY <2>1, <2>2, <2>5 DEF PassthroughDup
    <3>2. SourceWaits(k, z)
      BY <1>2, <1>4, <1>5, <2>2, <2>3
    <3> QED
      BY <1>1, <3>1, <3>2 DEF k
  <2> QED
    BY <2>4, <2>5
<1>6. CASE chain[k] = "tile" /\ Slave.ret = "ok" /\ hw.tileMaster
  <2> DEFINE c == conf[k]["sink"]
             n == o.n * NTiles(c)
             z == Side(Own(n, me), hw.heap, TRUE)
  <2>1. NTiles(c) \in Nat
    BY <1>0, GridIs DEF SizesOK, Sides, k
  <2>2. DupOf(dev, Type, Slave) = z
    BY <1>6 DEF DupOf, TileRing, k, me, o
  <2>3. ~ IsV4l2(k) /\ ~ Bounded(k)
    BY <1>0, <1>6 DEF IsV4l2, Bounded
  <2>4. o.n \in Nat
    BY <1>2, <1>6 DEF IsOffer
  <2> HIDE DEF c
  <2>5. n \in Nat
    <3>1. \A x, y \in Nat : x * y \in Nat
      OBVIOUS
    <3> QED
      BY <2>1, <2>4, <3>1
  <2> HIDE DEF n
  <2>6. SourceWaits(k, z)
    BY <1>0, <1>3, <1>4, <2>3, <2>5
  <2> QED
    BY <1>1, <2>2, <2>6 DEF k
<1>7. CASE ~ (IsCopier(k) /\ Slave.ret = "ok") /\ ~ (chain[k] = "tile" /\ Slave.ret = "ok" /\ hw.tileMaster)
  <2>1. DupOf(dev, Type, Slave) = src[k]
    BY <1>7 DEF DupOf, IsCopier, k
  <2> QED
    BY <1>0, <1>1, <2>1 DEF k
<1> QED
  BY <1>5, <1>6, <1>7

-----------------------------------------------------------------------------
(* The steps of the negotiation *)

(* What is said of a side is about the command line and the hardware, and they *)
(* are kept.                                                                  *)
LEMMA WaitsKept ==
  ASSUME UNCHANGED <<given, drv>>, NEW q
  PROVE  /\ SourceWaits(q, src'[q]) => (SourceWaits(q, src[q]))'
         /\ SinkWaits(q, snk'[q]) => (SinkWaits(q, snk[q]))'
<1>1. chain' = chain /\ hw' = hw /\ drv' = drv /\ count' = count
  BY DEF given
<1> QED
  BY <1>1 DEF SourceWaits, SinkWaits, SourceSmall, Bounded, Most, Granted, Hw, IsV4l2, IsSide, Memories, Sides

LEMMA TypedKept ==
  ASSUME UNCHANGED <<given, drv>>, NEW q
  PROVE  /\ SourceTyped(q, src'[q]) => (SourceTyped(q, src[q]))'
         /\ SinkTyped(q, snk'[q]) => (SinkTyped(q, snk[q]))'
<1>1. chain' = chain
  BY DEF given
<1> QED
  BY <1>1 DEF SourceTyped, SinkTyped, IsV4l2, IsSide, IsTable, Memories, Sides

LEMMA TriedKept ==
  ASSUME UNCHANGED <<given, drv>>, Tried(dev', att', src'[dev'], snk'[dev'])
  PROVE  (Tried(dev, att, src[dev], snk[dev]))'
<1>1. chain' = chain /\ hw' = hw /\ drv' = drv /\ count' = count
  BY DEF given
<1> QED
  BY <1>1 DEF Tried, SourceTried, SinkTried, NoMemory, SourceSmall, Bounded, Most, Granted, Hw, IsV4l2, IsCopier,
              Stuck

(* Both devices of the pipe have answered; the duplicate of the sink can have   *)
(* other buffers.                                                             *)
Answered(s, d) ==
  /\ src' = [q \in Pipes |-> src'[q]] /\ src'[dev] = s
  /\ snk' = [q \in Pipes |-> snk'[q]] /\ snk'[dev] = d
  /\ \A q \in Pipes \ {dev} : snk'[q] = snk[q]
  /\ \A q \in Pipes \ {dev, dev + 1} : src'[q] = src[q]
  /\ dev + 1 \in Pipes => SourceWaits(dev + 1, src'[dev + 1])

LEMMA AnsweredKeeps ==
  ASSUME GivenOK, NegotiationInv, NumbersAgree, pc = "negotiate", NEW s, NEW d, Answered(s, d),
         SourceTyped(dev, s), SinkTyped(dev, d), UNCHANGED <<given, drv, conf>>, IsOffer(offer'),
         how' = how \/ how' = [how EXCEPT ![dev] = att]
  PROVE  /\ TypesOK' /\ SizesOK'
         /\ \A q \in Pipes : q > dev => (SourceWaits(q, src[q]))' /\ (SinkWaits(q, snk[q]))'
<1>0. /\ dev \in Pipes /\ dev \in Nat /\ TypesOK /\ SizesOK /\ WaitingOK /\ chain' = chain /\ Pipes' = Pipes
      /\ hw' = hw /\ drv' = drv /\ count' = count /\ conf' = conf
  BY NegotiationIs DEF NegotiationInv, Pipes, given
<1>1. \A q \in Pipes : (q > dev => q # dev) /\ q \in Nat
  BY <1>0, PipeIs
<1>2. ASSUME NEW q \in Pipes, q > dev
      PROVE  SourceWaits(q, src'[q]) /\ SinkWaits(q, snk'[q])
  <2>1. SourceWaits(q, src[q]) /\ SinkWaits(q, snk[q])
    BY <1>0, <1>2 DEF WaitingOK, Waiting, WaitingSink
  <2>2. snk'[q] = snk[q] /\ (q # dev + 1 => src'[q] = src[q])
    BY <1>1, <1>2 DEF Answered
  <2> QED
    BY <2>1, <2>2 DEF Answered
<1>3. ASSUME NEW q \in Pipes
      PROVE  SourceTyped(q, src'[q]) /\ SinkTyped(q, snk'[q])
  <2>1. SourceTyped(q, src[q]) /\ SinkTyped(q, snk[q])
    BY <1>0 DEF TypesOK
  <2>2. CASE q = dev
    BY <2>2 DEF Answered
  <2>3. CASE q # dev
    <3>1. snk'[q] = snk[q]
      BY <2>3 DEF Answered
    <3>2. CASE q = dev + 1
      <4>1. SourceWaits(q, src'[q])
        BY <3>2 DEF Answered
      <4>2. SourceTyped(q, src'[q])
        BY <4>1, NoBuffersIs DEF SourceWaits, SourceTyped
      <4> QED
        BY <2>1, <3>1, <4>2
    <3>3. CASE q # dev + 1
      BY <2>1, <2>3, <3>1, <3>3 DEF Answered
    <3> QED
      BY <3>2, <3>3
  <2> QED
    BY <2>2, <2>3
<1>4. MachineOK' /\ IsOffer(offer)'
  BY <1>0 DEF TypesOK, MachineOK, IsOffer, Memories, Sides
<1>5. TypesOK'
  <2>1. \A q \in Pipes : (SourceTyped(q, src[q]))' /\ (SinkTyped(q, snk[q]))'
    BY <1>3, TypedKept
  <2>2. how' \in [Pipes -> 0 .. 4]
    BY <1>0, NegotiationIs DEF TypesOK
  <2> QED
    BY <1>0, <1>4, <2>1, <2>2 DEF TypesOK, Answered
<1>6. SizesOK'
  BY <1>0 DEF SizesOK, Sides
<1> QED
  BY <1>2, <1>5, <1>6, WaitsKept

(* Another attempt: the pipe is not agreed, and the ones before it are as they *)
(* were.                                                                      *)
LEMMA Retries ==
  ASSUME GivenOK, NegotiationInv, NumbersAgree, pc = "negotiate", NEW s, NEW d, Answered(s, d),
         SourceTyped(dev, s), SinkTyped(dev, d), UNCHANGED <<given, drv, conf, dev, how>>, IsOffer(offer'),
         att < 4 => Tried(dev, att + 1, s, d), NextAttempt
  PROVE  NegotiationInv'
<1> SUFFICES ASSUME pc' # "refused"
             PROVE  NegotiationInv'
  BY DEF NegotiationInv
<1>0. /\ pc' = "negotiate" /\ att < 4 /\ att' = att + 1 /\ dev' = dev /\ how' = how /\ chain' = chain /\ hw' = hw
      /\ Pipes' = Pipes /\ dev \in Pipes /\ dev \in Nat /\ dev > 0 /\ att \in 1 .. 4
      /\ WaitingOK /\ AgreedOK
  BY NegotiationIs DEF NextAttempt, Pipes, given, NegotiationInv
<1>1. /\ TypesOK' /\ SizesOK'
      /\ \A q \in Pipes : q > dev => (SourceWaits(q, src[q]))' /\ (SinkWaits(q, snk[q]))'
  BY AnsweredKeeps
<1>2. WaitingOK'
  <2>1. \A q \in Pipes : (Waiting(q)' => q > dev) /\ (WaitingSink(q)' => q > dev)
    BY <1>0 DEF Waiting, WaitingSink
  <2> QED
    BY <1>0, <1>1, <2>1 DEF WaitingOK
<1>3. TriedOK'
  <2>1. Tried(dev', att', src'[dev'], snk'[dev'])
    BY <1>0 DEF Answered
  <2>2. (Tried(dev, att, src[dev], snk[dev]))'
    BY <2>1, TriedKept
  <2>3. att' \in 1 .. 4
    BY <1>0
  <2> QED
    BY <1>0, <2>2, <2>3 DEF TriedOK
<1>4. AgreedOK'
  <2>1. ASSUME NEW q \in Pipes, q < dev
        PROVE  /\ src'[q] = src[q] /\ snk'[q] = snk[q] /\ src'[1] = src[1] /\ Agreed(q) /\ 1 \in Pipes
               /\ 1 < dev
    <3>1. q \in Nat /\ q > 0 /\ 1 \in Pipes /\ 1 < dev
      <4>1. q \in Nat /\ q > 0 /\ Len(chain) \in Nat
        BY <2>1, PipeIs, ChainIs
      <4> QED
        BY <1>0, <2>1, <4>1 DEF Pipes
    <3>2. q \notin {dev, dev + 1} /\ 1 \notin {dev, dev + 1}
      BY <1>0, <2>1, <3>1
    <3> QED
      BY <2>1, <3>1, <3>2 DEF Answered, Agreed
  <2>2. \A q \in Pipes : Agreed(q)' => q < dev
    BY <1>0 DEF Agreed
  <2>3. ASSUME NEW q \in Pipes, q < dev, CanQueue(src[1])', ~ Deaf(q)'
        PROVE  Same(src[q], snk[q])'
    <3>1. CanQueue(src[1]) /\ ~ Deaf(q)
      BY <1>0, <2>1, <2>3 DEF CanQueue, Deaf
    <3>2. Same(src[q], snk[q])
      BY <1>0, <2>1, <2>3, <3>1 DEF AgreedOK
    <3> QED
      BY <2>1, <2>3, <3>2 DEF Same
  <2>4. ASSUME Agreed(1)', Stuck'
        PROVE  ~ CanQueue(src[1])'
    <3>1. 1 < dev
      BY <1>0, <2>4 DEF Agreed
    <3>2. 1 \in Pipes
      BY <1>0, <3>1, ChainIs DEF Pipes
    <3>3. src'[1] = src[1] /\ Agreed(1) /\ Stuck
      BY <1>0, <2>1, <2>4, <3>1, <3>2 DEF Stuck
    <3> QED
      BY <1>0, <3>3 DEF AgreedOK, CanQueue
  <2> QED
    BY <1>0, <2>2, <2>3, <2>4 DEF AgreedOK
<1> QED
  BY <1>0, <1>1, <1>2, <1>3, <1>4 DEF NegotiationInv

(* The pipe is agreed, and the next one is as it was made.                    *)
LEMMA Settles ==
  ASSUME GivenOK, NegotiationInv, NumbersAgree, pc = "negotiate", NEW s, NEW d, Answered(s, d),
         SourceTyped(dev, s), SinkTyped(dev, d), UNCHANGED <<given, drv, conf>>, IsOffer(offer'),
         AgreedOn(s, d), how' = [how EXCEPT ![dev] = att], att' = 1,
         IF dev = Len(chain) - 1 THEN pc' = "ready" /\ UNCHANGED dev ELSE dev' = dev + 1 /\ UNCHANGED pc
  PROVE  NegotiationInv'
<1>0. /\ pc' \in {"negotiate", "ready"} /\ chain' = chain /\ hw' = hw /\ Pipes' = Pipes
      /\ dev \in Pipes /\ dev \in Nat /\ dev > 0 /\ att \in 1 .. 4 /\ Len(chain) \in Nat
      /\ WaitingOK /\ AgreedOK /\ how \in [Pipes -> 0 .. 4]
  BY NegotiationIs, ChainIs DEF Pipes, given, NegotiationInv, TypesOK
<1>1. /\ TypesOK' /\ SizesOK'
      /\ \A q \in Pipes : q > dev => (SourceWaits(q, src[q]))' /\ (SinkWaits(q, snk[q]))'
  BY AnsweredKeeps
<1>2. pc' = "negotiate" => dev' = dev + 1 /\ dev + 1 \in Pipes /\ pc' = pc
  BY <1>0 DEF Pipes
<1>3. WaitingOK'
  <2>1. \A q \in Pipes : (Waiting(q)' => q > dev) /\ (WaitingSink(q)' => q > dev)
    BY <1>0, <1>2 DEF Waiting, WaitingSink, Pipes
  <2> QED
    BY <1>0, <1>1, <2>1 DEF WaitingOK
<1>4. TriedOK'
  <2> SUFFICES ASSUME pc' = "negotiate"
               PROVE  dev' \in Pipes' /\ att' \in 1 .. 4 /\ (Tried(dev, att, src[dev], snk[dev]))'
    BY DEF TriedOK
  <2>1. Tried(dev', 1, src'[dev'], snk'[dev'])
    BY DEF Tried, SourceTried, SinkTried
  <2> QED
    BY <1>0, <1>2, <2>1, TriedKept
<1>5. AgreedOK'
  <2>1. \A q \in Pipes : Agreed(q)' => q <= dev
    BY <1>0, <1>2 DEF Agreed, Pipes
  <2>2. src'[1] = First(s)
    <3>1. CASE dev = 1
      BY <3>1 DEF First, Answered
    <3>2. CASE dev # 1
      <4>1. 1 \in Pipes /\ 1 \notin {dev, dev + 1}
        BY <1>0, <3>2 DEF Pipes
      <4> QED
        BY <3>2, <4>1 DEF First, Answered
    <3> QED
      BY <3>1, <3>2
  <2>3. ASSUME NEW q \in Pipes, q <= dev, CanQueue(src[1])', ~ Deaf(q)'
        PROVE  Same(src[q], snk[q])'
    <3>1. CanQueue(First(s))
      BY <2>2, <2>3 DEF CanQueue
    <3>2. CASE q = dev
      <4>1. how'[dev] = att
        BY <1>0
      <4>2. ~ (IsCopier(dev) /\ att \in {3, 4})
        BY <1>0, <2>3, <3>2, <4>1 DEF Deaf, IsCopier
      <4>3. Same(s, d) /\ src'[q] = s /\ snk'[q] = d
        BY <3>1, <3>2, <4>2 DEF AgreedOn, Answered
      <4> QED
        BY <4>3 DEF Same
    <3>3. CASE q # dev
      <4>1. q \in Nat /\ q < dev /\ dev # 1
        BY <1>0, <2>3, <3>3 DEF Pipes
      <4>2. src'[q] = src[q] /\ snk'[q] = snk[q] /\ how'[q] = how[q]
        <5>1. q \notin {dev, dev + 1}
          BY <1>0, <4>1
        <5> QED
          BY <1>0, <5>1 DEF Answered
      <4>3. CanQueue(src[1]) /\ ~ Deaf(q) /\ Agreed(q)
        BY <1>0, <2>3, <3>1, <4>1, <4>2 DEF First, Deaf, Agreed
      <4>4. Same(src[q], snk[q])
        BY <1>0, <4>3 DEF AgreedOK
      <4> QED
        BY <4>2, <4>4 DEF Same
    <3> QED
      BY <3>2, <3>3
  <2>4. ASSUME Stuck'
        PROVE  ~ CanQueue(src[1])'
    <3>1. Stuck
      BY <1>0, <2>4 DEF Stuck
    <3>2. ~ CanQueue(First(s))
      BY <3>1, NegotiationIs DEF First, AgreedOn
    <3> QED
      BY <2>2, <3>2 DEF CanQueue
  <2> QED
    BY <1>0, <2>1, <2>3, <2>4 DEF AgreedOK
<1> QED
  BY <1>0, <1>1, <1>3, <1>4, <1>5 DEF NegotiationInv

LEMMA BothAnswer ==
  ASSUME GivenOK, NegotiationInv, NumbersAgree, pc = "negotiate", Master.ret = "ok",
         Slave.ret \in {"ok", "refused"}, BothAsked
  PROVE  /\ Answered(SourceAsked.d, SinkAsked.d)
         /\ SourceTyped(dev, SourceAsked.d) /\ SinkTyped(dev, SinkAsked.d) /\ IsOffer(Master.offer)
<1>0. dev \in Pipes /\ dev \in Nat /\ TypesOK /\ WaitingOK
  BY NegotiationIs DEF NegotiationInv
<1>1. /\ SourceTyped(dev, SourceAsked.d) /\ SinkTyped(dev, SinkAsked.d) /\ IsOffer(Master.offer)
  <2>1. CASE FromInput
    BY <2>1, InputLends, OutputTakes DEF SourceAsked, SinkAsked, Lent, Taken
  <2>2. CASE ~ FromInput
    BY <2>2, OutputLends, InputTakes DEF SourceAsked, SinkAsked, SinkLent, SourceTaken
  <2> QED
    BY <2>1, <2>2
<1> DEFINE Left(p) == IF p = dev THEN SourceAsked.d
                      ELSE IF p = dev + 1 /\ FromInput THEN DupOf(dev, Type, SinkAsked) ELSE src[p]
<1>2. src' = [p \in Pipes |-> Left(p)] /\ snk' = [snk EXCEPT ![dev] = SinkAsked.d]
  BY DEF BothAsked
<1>3. dev + 1 \in Pipes => SourceWaits(dev + 1, Left(dev + 1))
  <2>1. CASE FromInput
    BY <1>0, <2>1, DuplicateWaits
  <2>2. CASE ~ FromInput
    BY <1>0, <2>2 DEF WaitingOK, Waiting
  <2> QED
    BY <2>1, <2>2
<1>4. Left(dev) = SourceAsked.d /\ \A q \in Pipes \ {dev, dev + 1} : Left(q) = src[q]
  OBVIOUS
<1> HIDE DEF Left
<1>5. src' = [q \in Pipes |-> src'[q]] /\ \A q \in Pipes : src'[q] = Left(q)
  BY <1>2
<1>6. /\ snk' = [q \in Pipes |-> snk'[q]] /\ snk'[dev] = SinkAsked.d
      /\ \A q \in Pipes \ {dev} : snk'[q] = snk[q]
  BY <1>0, <1>2 DEF TypesOK
<1> QED
  BY <1>0, <1>1, <1>3, <1>4, <1>5, <1>6 DEF Answered

LEMMA MasterAnswers ==
  ASSUME GivenOK, NegotiationInv, NumbersAgree, pc = "negotiate", MasterRefuses, UNCHANGED <<given, drv, conf>>
  PROVE  NegotiationInv'
<1>0. /\ dev \in Pipes /\ dev \in Nat /\ TypesOK /\ WaitingOK /\ IsOffer(offer) /\ offer' = offer
      /\ SourceTyped(dev, src[dev]) /\ SinkTyped(dev, snk[dev]) /\ UNCHANGED <<dev, how>>
      /\ Master.ret = "refused" /\ NextAttempt
  BY NegotiationIs DEF NegotiationInv, MasterRefuses
<1>1. dev + 1 \in Pipes => SourceWaits(dev + 1, src[dev + 1])
  BY <1>0 DEF WaitingOK, Waiting
<1>2. CASE FromInput
  <2>1. src' = [src EXCEPT ![dev] = Master.d] /\ snk' = snk
    BY <1>2 DEF MasterRefuses
  <2>2. Answered(Master.d, snk[dev])
    BY <1>0, <1>1, <2>1 DEF Answered, TypesOK
  <2>3. SourceTyped(dev, Master.d)
    BY <1>2, InputLends DEF Lent
  <2>4. att < 4 => Tried(dev, att + 1, Master.d, snk[dev])
    BY <1>0, <1>2, MasterLeaves
  <2> QED
    BY <1>0, <2>2, <2>3, <2>4, Retries
<1>3. CASE ~ FromInput
  <2>1. snk' = [snk EXCEPT ![dev] = Master.d] /\ src' = src
    BY <1>3 DEF MasterRefuses
  <2>2. Answered(src[dev], Master.d)
    BY <1>0, <1>1, <2>1 DEF Answered, TypesOK
  <2>3. SinkTyped(dev, Master.d)
    BY <1>3, OutputLends DEF SinkLent
  <2>4. att < 4 => Tried(dev, att + 1, src[dev], Master.d)
    BY <1>0, <1>3, MasterLeaves
  <2> QED
    BY <1>0, <2>2, <2>3, <2>4, Retries
<1> QED
  BY <1>2, <1>3

LEMMA NegotiateOK ==
  ASSUME GivenOK, NegotiationInv, NumbersAgree, Negotiate
  PROVE  NegotiationInv'
<1>0. pc = "negotiate" /\ UNCHANGED <<given, drv, conf>>
  BY DEF Negotiate
<1>1. CASE MasterRefuses
  BY <1>0, <1>1, MasterAnswers
<1>2. CASE SlaveRefuses
  <2>1. /\ Master.ret = "ok" /\ Slave.ret = "refused" /\ NextAttempt /\ BothAsked /\ offer' = Master.offer
        /\ UNCHANGED <<dev, how>>
    BY <1>2 DEF SlaveRefuses
  <2>2. /\ Answered(SourceAsked.d, SinkAsked.d)
        /\ SourceTyped(dev, SourceAsked.d) /\ SinkTyped(dev, SinkAsked.d) /\ IsOffer(Master.offer)
    BY <1>0, <2>1, BothAnswer
  <2>3. att < 4 => Tried(dev, att + 1, SourceAsked.d, SinkAsked.d)
    BY <1>0, <2>1, SlaveLeaves
  <2>4. IsOffer(offer')
    BY <2>1, <2>2
  <2> QED
    BY <1>0, <2>1, <2>2, <2>3, <2>4, Retries
<1>3. CASE Agree
  <2>1. /\ Master.ret = "ok" /\ Slave.ret = "ok" /\ BothAsked /\ how' = [how EXCEPT ![dev] = att] /\ att' = 1
        /\ IF dev = Len(chain) - 1 THEN pc' = "ready" /\ UNCHANGED dev ELSE dev' = dev + 1 /\ UNCHANGED pc
        /\ offer' = NoOffer
    BY <1>3 DEF Agree
  <2>2. /\ Answered(SourceAsked.d, SinkAsked.d)
        /\ SourceTyped(dev, SourceAsked.d) /\ SinkTyped(dev, SinkAsked.d)
    BY <1>0, <2>1, BothAnswer
  <2>3. AgreedOn(SourceAsked.d, SinkAsked.d)
    BY <1>0, <2>1, AgreesAt
  <2>4. IsOffer(offer')
    BY <2>1 DEF NoOffer, Own, IsOffer, Memories
  <2> QED
    BY <1>0, <2>1, <2>2, <2>3, <2>4, Settles
<1>4. CASE Overrun
  BY <1>4 DEF Overrun, NegotiationInv
<1> QED
  BY <1>1, <1>2, <1>3, <1>4 DEF Negotiate

-----------------------------------------------------------------------------
(* The sizes of the configurations *)

Sized(c) == c.width \in Nat /\ c.height \in Nat
IsConf(c) == c = [f \in Fields |-> c[f]] /\ Sized(c)
AllSized(K, g) == Whole(K, g) /\ \A k \in K, s \in Sides : Sized(g[k][s])

(* A driver that is asked for a size gives one, and the buffers it needs do    *)
(* not depend on it.                                                          *)
LEMMA FrameSizeNat ==
  ASSUME NEW d \in Drivers \cup {M2mDriver}, NEW w \in Nat, NEW h \in Nat, NEW s, s = SetFrameSize(d, w, h)
  PROVE  s.w \in Nat /\ s.h \in Nat
<1> DEFINE v == Width(w, h)
           c == CheckFrameSize(d, v, h)
<1>1. /\ d.width \in Nat /\ d.height \in Nat
      /\ \A i \in DOMAIN d.sizes : d.sizes[i].w \in Nat /\ d.sizes[i].h \in Nat
  BY DriversAssumption
<1>2. v \in Nat
  BY DEF Width
<1>3. CASE ~ (v > 0 /\ h > 0)
  BY <1>1, <1>3 DEF SetFrameSize
<1>4. CASE v > 0 /\ h > 0 /\ d.stepwise
  <2>1. 1 \in DOMAIN d.sizes /\ 2 \in DOMAIN d.sizes
    BY <1>4, DriversAssumption
  <2> DEFINE W == Clamp(v, d.sizes[1].w, d.sizes[2].w)
             H == Clamp(h, d.sizes[1].h, d.sizes[2].h)
  <2>2. s = [w |-> W, h |-> H]
    BY <1>4 DEF SetFrameSize, Adjusted, CheckFrameSize
  <2> HIDE DEF v
  <2>3. \A lo, hi \in Nat : Clamp(v, lo, hi) \in Nat /\ Clamp(h, lo, hi) \in Nat
    BY <1>2 DEF Clamp
  <2>4. W \in Nat /\ H \in Nat
    BY <1>1, <2>1, <2>3
  <2> HIDE DEF W, H
  <2> QED
    BY <2>2, <2>4
<1>5. CASE v > 0 /\ h > 0 /\ ~ d.stepwise
  <2>1. s = IF c \in ToSet(d.sizes) THEN c ELSE [w |-> d.width, h |-> d.height]
    BY <1>5 DEF SetFrameSize, Adjusted
  <2> HIDE DEF c
  <2> QED
    BY <1>1, <2>1 DEF ToSet
<1> QED
  BY <1>3, <1>4, <1>5

LEMMA PreparedNat ==
  ASSUME NEW d \in Drivers \cup {M2mDriver}, NEW mode, NEW c, Sized(c), NEW r, r = Prepare(d, mode, FALSE, c)
  PROVE  r.width \in Nat /\ r.height \in Nat /\ r.min = d.min
<1> DEFINE type == BufType(mode, FALSE)
           size == IF "meta" \in mode THEN [w |-> d.width, h |-> d.height]
                   ELSE SetFrameSize(d, c.width, c.height)
           fourcc == SetPixFormat(d, type, GetFourcc(d, c.fourcc))
           e == [d EXCEPT !.fourcc = fourcc, !.width = size.w, !.height = size.h]
<1>1. size.w \in Nat /\ size.h \in Nat
  BY FrameSizeNat, DriversAssumption DEF Sized
<1>2. r = Fps(e, size.w, size.h, c.fps)
  BY DEF Prepare
<1> HIDE DEF size, fourcc, type
<1>3. /\ {"width", "height", "min"} \subseteq DOMAIN e
      /\ e.width = size.w /\ e.height = size.h /\ e.min = d.min
  BY DriversAssumption
<1> HIDE DEF e
<1>4. r.width = e.width /\ r.height = e.height /\ r.min = e.min
  BY <1>2, <1>3 DEF Fps
<1> QED
  BY <1>1, <1>3, <1>4

LEMMA SettledIs ==
  ASSUME NEW d, Sized(d), NEW c, IsConf(c)
  PROVE  IsConf(Settled(d, c))
<1>1. {"width", "height", "fourcc"} \subseteq Fields /\ DOMAIN c = Fields
  BY DEF Fields, IsConf
<1> QED
  BY <1>1 DEF IsConf, Sized, Settled

(* A device that is given a size is given a number.                           *)
LEMMA OwnConfIs ==
  ASSUME GivenOK, file \in Files, options \in CommandLine, NEW k \in DOMAIN chain, Exists(k)
  PROVE  IsConf(OwnConf(k))
<1> DEFINE o == OptionsOf(k)
           n == Entry(file, chain[k]).definition
           v == chain[k] \in V4l2Kinds
           g == FromOptions(v, o)
<1>1. OwnConf(k) = [f \in Fields |-> IF g[f] = Nothing(f) /\ Given(n, f) THEN n[f].value ELSE g[f]]
  BY DEF OwnConf, Loaded, FromFile
<1>2. ASSUME NEW f \in {"width", "height"}
      PROVE  g[f] \in Nat
  <2>1. f \in DOMAIN options.in => options.in[f] \in Nat
    BY SizesAssumption
  <2>2. f \in DOMAIN options.out => options.out[f] \in Nat
    BY SizesAssumption
  <2>3. DOMAIN <<>> = {}
    OBVIOUS
  <2>4. f \in DOMAIN o => o[f] \in Nat
    <3>1. o = options.in \/ o = options.out \/ o = <<>>
      BY DEF OptionsOf
    <3> HIDE DEF o
    <3> QED
      BY <2>1, <2>2, <2>3, <3>1
  <2>5. f \in Fields /\ CreateConfig(v)[f] = 0
    BY DEF Fields, CreateConfig, Cleared, Zero
  <2> HIDE DEF o, v
  <2> QED
    BY <2>4, <2>5 DEF FromOptions
<1>3. ASSUME NEW f \in {"width", "height"}, Given(n, f)
      PROVE  n[f].value \in Nat
  <2>1. chain[k] \in Kinds /\ Found(file, chain[k], Kinds)
    BY ChainsAssumption DEF GivenOK, Exists
  <2>2. f \in DOMAIN n
    BY <1>3 DEF Given
  <2> QED
    BY <2>1, <2>2, SizesAssumption
<1> HIDE DEF g, n
<1>4. "width" \in Fields /\ "height" \in Fields
  BY DEF Fields
<1> QED
  BY <1>1, <1>2, <1>3, <1>4 DEF IsConf, Sized

LEMMA ChoiceSized ==
  ASSUME NEW in, Sized(in), NEW out, Sized(out)
  PROVE  IsConf(Choice(in, out).in) /\ IsConf(Choice(in, out).out)
<1>1. \A a, b : Sized(a) /\ Sized(b) => IsConf(Merged(a, b))
  BY DEF Merged, IsConf, Sized, Fields
<1>2. IsConf(Merged(out, in)) /\ IsConf(Merged(in, Merged(out, in)))
  BY <1>1 DEF IsConf
<1> QED
  BY <1>2 DEF Choice

(* What a transfer is configured with, and its duplicate.                     *)
LEMMA TransferSized ==
  ASSUME NEW k, NEW c, IsConf(c)
  PROVE  Sized(SinkConf(k, c)) /\ Sized(SourceConf(k, SinkConf(k, c)))
<1> DEFINE x == SinkConf(k, c)
<1>1. IsConf(x)
  <2>1. Sized(M2mSet(c))
    BY PreparedNat DEF M2mSet, IsConf, Sized
  <2>2. IsConf(Settled(M2mSet(c), c))
    BY <2>1, SettledIs
  <2> QED
    BY <2>2 DEF SinkConf
<1> HIDE DEF x
<1>2. IsConf(Duplicated(Cleared, x))
  <2>1. \A a, b : Sized(a) /\ Sized(b) => IsConf(Merged(a, b))
    BY DEF Merged, IsConf, Sized, Fields
  <2>2. Sized(Cleared)
    BY DEF Sized, Cleared, Fields, Zero
  <2> QED
    BY <1>1, <2>1, <2>2 DEF Duplicated, IsConf
<1>3. \A d : IsConf(d) => Sized([d EXCEPT !.fourcc = "RGB4"]) /\ Sized([d EXCEPT !.fourcc = "NMS", !.width = 0, !.height = 0])
  BY DEF IsConf, Sized, Fields
<1>4. GridOf(x).w \in Nat /\ GridOf(x).h \in Nat
  BY <1>1, GridIs DEF IsConf, Sized
<1>5. Sized([x EXCEPT !.width = GridOf(x).w, !.height = GridOf(x).h])
  BY <1>1, <1>4 DEF IsConf, Sized, Fields
<1>6. Sized(SourceConf(k, x))
  <2>1. Sized(x) /\ Sized(Duplicated(Cleared, x))
    BY <1>1, <1>2 DEF IsConf
  <2>2. /\ Sized([x EXCEPT !.fourcc = "NMS", !.width = 0, !.height = 0])
        /\ Sized([Duplicated(Cleared, x) EXCEPT !.fourcc = "RGB4"])
    BY <1>1, <1>2, <1>3
  <2> QED
    BY <1>5, <2>1, <2>2 DEF SourceConf
<1> QED
  BY <1>1, <1>6 DEF IsConf, x

LEMMA SizedWritten ==
  ASSUME NEW K, NEW g, AllSized(K, g), NEW j \in K, NEW side \in Sides, NEW c, Sized(c)
  PROVE  AllSized(K, Written(g, j, side, c))
<1> DEFINE h == Written(g, j, side, c)
<1>1. Whole(K, h) /\ h[j][side] = c /\ Others(K, g, h, j, side)
  BY OneSide DEF AllSized
<1> HIDE DEF h
<1>2. \A k \in K, s \in Sides : Sized(h[k][s])
  BY <1>1 DEF Others, AllSized
<1> QED
  BY <1>1, <1>2 DEF AllSized, h

-----------------------------------------------------------------------------
(* The steps of the creation *)

(* A device is told numbers.                                                  *)
LEMMA CreateSizes ==
  ASSUME SetupInv, NegotiationInv, pc = "create", Created, UNCHANGED given
  PROVE  SizesOK' /\ (CreateInput => drv'.min = drv.min)
<1> DEFINE K == DOMAIN chain
<1>0. /\ AllSized(K, conf) /\ chain' = chain /\ GivenOK /\ file \in Files /\ options \in CommandLine
      /\ dev \in 1 .. Len(chain) /\ Len(chain) \in Nat /\ Len(chain) > 1 /\ K = 1 .. Len(chain)
  BY ChainIs DEF SetupInv, CreateOK, ConfigOK, ConfOK, AllSized, Sized, NegotiationInv, SizesOK, given
<1> HIDE DEF K
<1>1. AllSized(K, conf') => SizesOK'
  BY <1>0 DEF AllSized, SizesOK, Sized, Sides, K
<1>2. ASSUME Exists(dev)
      PROVE  IsConf(OwnConf(dev))
  BY <1>0, <1>2, OwnConfIs DEF K
<1>3. CASE CreateInput
  <2> DEFINE c == Settled(drv', OwnConf(1))
  <2>1. drv \in Drivers /\ dev = 1 /\ drv' = Prepare(drv, CameraMode, FALSE, OwnConf(1)) /\ IsConf(OwnConf(1))
    BY <1>2, <1>3 DEF CreateInput, SetupInv, CreateOK
  <2>2. Sized(drv') /\ drv'.min = drv.min
    <3>1. drv \in Drivers \cup {M2mDriver} /\ Sized(OwnConf(1))
      BY <2>1 DEF IsConf
    <3>2. drv'.width \in Nat /\ drv'.height \in Nat /\ drv'.min = drv.min
      BY <2>1, <3>1, PreparedNat
    <3> QED
      BY <3>2 DEF Sized
  <2>3. Sized(c)
    BY <2>1, <2>2, SettledIs DEF IsConf
  <2>4. conf' = Written(conf, 1, "source", c)
    BY <1>3 DEF CreateInput, Written
  <2> HIDE DEF c
  <2>5. AllSized(K, conf')
    BY <1>0, <2>1, <2>3, <2>4, SizedWritten DEF Sides
  <2> QED
    BY <1>1, <2>2, <2>5
<1>4. CASE CreateTransfer \/ CreateOutput
  <2> DEFINE in == Chosen(dev).in
             sink == SinkConf(dev, Chosen(dev).out)
             source == SourceConf(dev, sink)
             e == Written(conf, dev - 1, "source", in)
             g == Written(e, dev, "sink", sink)
  <2>1. dev \in K /\ dev - 1 \in K /\ dev # 1
    BY <1>0, <1>4 DEF CreateTransfer, CreateOutput
  <2>2. Sized(conf[dev - 1]["source"]) /\ IsConf(OwnConf(dev))
    BY <1>0, <1>2, <1>4, <2>1 DEF CreateTransfer, CreateOutput, CreateSink, AllSized, Sides
  <2>3. IsConf(Chosen(dev).in) /\ IsConf(Chosen(dev).out)
    BY <2>2, ChoiceSized DEF Chosen, IsConf
  <2>4. Sized(in) /\ Sized(sink) /\ Sized(source)
    BY <2>3, TransferSized DEF IsConf
  <2>5. conf' = g \/ conf' = Written(g, dev, "source", source)
    BY <1>4 DEF CreateTransfer, CreateOutput, Written
  <2> HIDE DEF in, sink, source
  <2>6. AllSized(K, e)
    BY <1>0, <2>1, <2>4, SizedWritten DEF Sides
  <2> HIDE DEF e
  <2>7. AllSized(K, g)
    BY <2>1, <2>4, <2>6, SizedWritten DEF Sides
  <2> HIDE DEF g
  <2>8. AllSized(K, conf')
    BY <2>1, <2>4, <2>5, <2>7, SizedWritten DEF Sides
  <2> QED
    BY <1>1, <2>1, <2>8 DEF CreateInput
<1> QED
  BY <1>3, <1>4 DEF Created

(* The sides of the device at dev have no buffers, but for the ring of EGL, and *)
(* the ones before it are as they were.                                       *)
LEMMA CreateSides ==
  ASSUME SetupInv, NegotiationInv, pc = "create", Created, UNCHANGED given
  PROVE  /\ src' = [p \in Pipes |-> src'[p]] /\ snk' = [p \in Pipes |-> snk'[p]]
         /\ \A q \in Pipes : q < dev => src'[q] = src[q]
         /\ dev \in Pipes => src'[dev] = FirstSide(dev)
         /\ \A q \in Pipes : q < dev - 1 => snk'[q] = snk[q]
         /\ \A q \in Pipes : q = dev - 1 => SinkWaits(q, snk'[q])
<1>0. /\ Pipes = 1 .. Len(chain) - 1 /\ Len(chain) \in Nat /\ Len(chain) > 1 /\ dev \in 1 .. Len(chain)
      /\ src = [p \in Pipes |-> src[p]] /\ snk = [p \in Pipes |-> snk[p]] /\ chain[1] = "camera"
  BY ChainIs, ChainsAssumption DEF SetupInv, CreateOK, GivenOK, NegotiationInv, TypesOK, Pipes
<1> HIDE DEF Pipes
<1>1. CASE CreateInput
  <2>1. dev = 1 /\ src' = [src EXCEPT ![1] = NoBuffers] /\ snk' = snk /\ FirstSide(1) = NoBuffers
    BY <1>0, <1>1 DEF CreateInput, FirstSide
  <2>2. \A q \in Pipes : q \in Nat /\ q > 0
    BY <1>0
  <2>3. /\ \A q \in Pipes : ~ (q < dev) /\ ~ (q < dev - 1) /\ ~ (q = dev - 1)
    BY <2>1, <2>2
  <2> QED
    BY <1>0, <2>1, <2>3
<1>2. ASSUME CreateSink(dev), dev # 1
      PROVE  /\ snk' = [p \in Pipes |-> snk'[p]]
             /\ \A q \in Pipes : q < dev - 1 => snk'[q] = snk[q]
             /\ \A q \in Pipes : q = dev - 1 => SinkWaits(q, snk'[q])
  <2> DEFINE x == IF chain[dev] = "m2m" THEN NoBuffers ELSE NoSide
  <2>1. snk' = [snk EXCEPT ![dev - 1] = x] /\ dev - 1 + 1 = dev
    BY <1>0, <1>2 DEF CreateSink
  <2>2. \A q \in Pipes : q = dev - 1 => SinkWaits(q, x)
    BY <2>1 DEF SinkWaits
  <2> HIDE DEF x
  <2>3. \A q \in Pipes : q < dev - 1 => q # dev - 1
    BY <1>0
  <2>4. /\ snk' = [p \in Pipes |-> snk'[p]] /\ \A q \in Pipes : q # dev - 1 => snk'[q] = snk[q]
        /\ \A q \in Pipes : q = dev - 1 => snk'[q] = x
    BY <1>0, <2>1
  <2> QED
    BY <2>2, <2>3, <2>4
<1>3. CASE CreateTransfer
  <2>1. CreateSink(dev) /\ dev # 1 /\ src' = [src EXCEPT ![dev] = FirstSide(dev)]
    BY <1>0, <1>3 DEF CreateTransfer
  <2>2. /\ src' = [p \in Pipes |-> src'[p]] /\ \A q \in Pipes : q # dev => src'[q] = src[q]
        /\ dev \in Pipes => src'[dev] = FirstSide(dev)
    BY <1>0, <2>1
  <2>3. \A q \in Pipes : q < dev => q # dev
    BY <1>0
  <2> QED
    BY <1>2, <2>1, <2>2, <2>3
<1>4. CASE CreateOutput
  <2>1. CreateSink(dev) /\ dev # 1 /\ src' = src /\ dev \notin Pipes
    BY <1>0, <1>4 DEF CreateOutput
  <2> QED
    BY <1>0, <1>2, <2>1
<1> QED
  BY <1>1, <1>3, <1>4 DEF Created

LEMMA FirstSideWaits ==
  ASSUME GivenOK, MachineOK, NEW q \in Pipes
  PROVE  SourceWaits(q, FirstSide(q))
<1>1. Most \in Nat /\ MaxBuffers \in Nat /\ Most >= MaxBuffers
  BY MostIs
<1>2. CASE IsV4l2(q)
  BY <1>1, <1>2 DEF SourceWaits, SourceSmall, FirstSide, NoBuffers, IsV4l2
<1>3. CASE ~ IsV4l2(q) /\ chain[q] # "egl"
  <2>1. FirstSide(q) = NoSide
    BY <1>3 DEF FirstSide, SourceSide, IsV4l2
  <2> QED
    BY <1>1, <1>3, <2>1, NoBuffersIs DEF SourceWaits, SourceSmall, NoSide
<1>4. CASE ~ IsV4l2(q) /\ chain[q] = "egl"
  <2> DEFINE z == FirstSide(q)
             m == Me(q, "source")
  <2>1. z = [n |-> MaxBuffers, mem |-> m, dma |-> hw.eglExport, map |-> FALSE] /\ hw.eglExport \in BOOLEAN
    BY <1>4 DEF FirstSide, SourceSide, IsV4l2, MachineOK, Flags
  <2>2. m \in Memories
    BY PipeIs, MemoriesAre DEF Sides
  <2> HIDE DEF z, m
  <2>3. IsSide(z) /\ z.n = MaxBuffers
    BY <1>1, <2>1, <2>2 DEF IsSide
  <2> QED
    BY <1>1, <1>4, <2>3 DEF SourceWaits, SourceSmall, z
<1> QED
  BY <1>2, <1>3, <1>4

(* The sides of the devices that exist wait to be asked.                      *)
LEMMA CreateWaits ==
  ASSUME SetupInv, NegotiationInv, pc = "create", Created, UNCHANGED given, NEW q \in Pipes
  PROVE  /\ q <= dev => (SourceWaits(q, src[q]))'
         /\ q < dev => (SinkWaits(q, snk[q]))'
<1>0. /\ GivenOK /\ WaitingOK /\ chain' = chain /\ Len(chain) \in Nat /\ dev \in 1 .. Len(chain) /\ q \in Nat /\ q > 0
      /\ CreateInput \/ (drv' = drv /\ UNCHANGED <<given, drv>>)
      /\ MachineOK
  BY ChainIs, PipeIs DEF SetupInv, CreateOK, NegotiationInv, TypesOK, given, Created, CreateInput, CreateTransfer,
                         CreateOutput, CreateSink
<1>1. ASSUME q <= dev, drv' = drv
      PROVE  (SourceWaits(q, src[q]))'
  <2>1. SourceWaits(q, src'[q])
    <3>1. CASE q = dev
      BY <1>0, <3>1, CreateSides, FirstSideWaits DEF SetupInv
    <3>2. CASE q # dev
      <4>1. q < dev
        BY <1>0, <1>1, <3>2
      <4>2. SourceWaits(q, src[q]) /\ src'[q] = src[q]
        BY <1>0, <4>1, CreateSides DEF WaitingOK, Waiting
      <4> QED
        BY <4>2
    <3> QED
      BY <3>1, <3>2
  <2> QED
    BY <1>1, <2>1, WaitsKept
<1>2. ASSUME q <= dev, CreateInput
      PROVE  (SourceWaits(q, src[q]))'
  <2>1. q = 1 /\ src'[1] = NoBuffers /\ IsV4l2(q)
    <3>1. dev = 1
      BY <1>2 DEF CreateInput
    <3>2. q = 1 /\ dev \in Pipes
      BY <1>0, <1>2, <3>1
    <3> QED
      BY <1>0, <3>1, <3>2, CreateSides, PipeIs DEF FirstSide, IsV4l2
  <2>2. Most' = Most /\ Most \in Nat
    BY MostIs DEF Most
  <2> QED
    BY <1>0, <2>1, <2>2 DEF SourceWaits, SourceSmall, IsV4l2, NoBuffers
<1>3. ASSUME q < dev
      PROVE  (SinkWaits(q, snk[q]))'
  <2>1. SinkWaits(q, snk'[q])
    <3>1. CASE q = dev - 1
      BY <3>1, CreateSides
    <3>2. CASE q # dev - 1
      <4>1. q < dev - 1
        BY <1>0, <1>3, <3>2
      <4>2. SinkWaits(q, snk[q]) /\ snk'[q] = snk[q]
        BY <1>0, <4>1, CreateSides DEF WaitingOK, WaitingSink
      <4> QED
        BY <4>2
    <3> QED
      BY <3>1, <3>2
  <2> QED
    BY <1>0, <2>1 DEF SinkWaits
<1> QED
  BY <1>0, <1>1, <1>2, <1>3

LEMMA CreatedWaits ==
  ASSUME SetupInv, NegotiationInv, pc = "create", Created, UNCHANGED <<given, att, offer, how>>
  PROVE  NegotiationInv'
<1>0. /\ GivenOK /\ TypesOK /\ chain' = chain /\ Pipes' = Pipes /\ Pipes = 1 .. Len(chain) - 1
      /\ Len(chain) \in Nat /\ Len(chain) > 1 /\ dev \in 1 .. Len(chain) /\ att = 1 /\ att' = 1
      /\ file \in Files /\ options \in CommandLine /\ UNCHANGED given
  BY ChainIs DEF SetupInv, CreateOK, NegotiationInv, Pipes, given
<1>1. IF dev = Len(chain) THEN pc' = "negotiate" /\ dev' = 1 ELSE pc' = "create" /\ dev' = dev + 1
  BY DEF Created
<1>2. \A q \in Pipes : /\ q <= dev => (SourceWaits(q, src[q]))'
                       /\ q < dev => (SinkWaits(q, snk[q]))'
  BY <1>0, CreateWaits
<1>3. WaitingOK'
  <2>1. \A q \in Pipes : (Waiting(q)' => q <= dev) /\ (WaitingSink(q)' => q < dev)
    BY <1>0, <1>1 DEF Waiting, WaitingSink
  <2> QED
    BY <1>0, <1>2, <2>1 DEF WaitingOK
<1>4. MachineOK'
  <2>1. drv'.min = drv.min
    <3>1. CASE CreateInput
      BY <1>0, <3>1, CreateSizes
    <3>2. CASE CreateTransfer \/ CreateOutput
      BY <3>2 DEF CreateTransfer, CreateOutput, CreateSink
    <3> QED
      BY <3>1, <3>2 DEF Created
  <2> QED
    BY <1>0, <2>1 DEF TypesOK, MachineOK, given
<1>5. TypesOK'
  <2>1. src' = [p \in Pipes |-> src'[p]] /\ snk' = [p \in Pipes |-> snk'[p]]
    BY <1>0, CreateSides
  <2>2. how' \in [Pipes -> 0 .. 4] /\ IsOffer(offer)'
    BY <1>0 DEF TypesOK, IsOffer, Memories, Sides
  <2>3. ASSUME pc' # "create", NEW p \in Pipes
        PROVE  (SourceTyped(p, src[p]))' /\ (SinkTyped(p, snk[p]))'
    <3>1. p <= dev /\ p < dev
      BY <1>0, <1>1, <2>3
    <3>2. (SourceWaits(p, src[p]))' /\ (SinkWaits(p, snk[p]))'
      BY <1>2, <3>1
    <3> QED
      BY <3>2, NoBuffersIs DEF SourceWaits, SinkWaits, SourceTyped, SinkTyped, IsTable, IsSide, Memories, Sides
  <2> QED
    BY <1>0, <1>4, <2>1, <2>2, <2>3 DEF TypesOK
<1>6. TriedOK'
  <2>1. (dev' \in Pipes /\ (Tried(dev, att, src[dev], snk[dev]))') \/ pc' = "create"
    <3>1. (Tried(dev, att, src[dev], snk[dev]))'
      BY <1>0 DEF Tried, SourceTried, SinkTried
    <3> QED
      BY <1>0, <1>1, <3>1
  <2>2. pc' = "create" \/ pc' = "negotiate"
    BY <1>1
  <2> QED
    BY <1>0, <2>1, <2>2 DEF TriedOK
<1>7. AgreedOK'
  <2>1. \A q \in Pipes : ~ Agreed(q)'
    BY <1>0, <1>1 DEF Agreed
  <2>2. ~ Agreed(1)'
    BY <1>0, <1>1 DEF Agreed
  <2> QED
    BY <1>0, <2>1, <2>2 DEF AgreedOK
<1>8. SizesOK'
  BY <1>0, CreateSizes
<1>9. pc' # "running" /\ file' \in Files /\ options' \in CommandLine
  BY <1>0, <1>1 DEF given
<1> QED
  BY <1>0, <1>3, <1>5, <1>6, <1>7, <1>8, <1>9 DEF NegotiationInv

LEMMA NegotiationInit ==
  ASSUME Init
  PROVE  NegotiationInv
<1>0. /\ GivenOK /\ pc = "create" /\ dev = 1 /\ att = 1 /\ chain \in Chains
  BY DEF Init, GivenOK, Display
<1>1. MachineOK
  BY DEF Init, MachineOK, Hardware
<1>2. TypesOK
  <2>1. IsOffer(offer)
    BY DEF Init, NoOffer, Own, IsOffer, Memories
  <2> QED
    BY <1>0, <1>1, <2>1 DEF Init, TypesOK
<1>3. SizesOK
  BY DEF Init, SizesOK, Cleared, Zero, Fields
<1>4. WaitingOK
  <2>1. \A q \in Pipes : ~ Waiting(q) /\ ~ WaitingSink(q)
    BY <1>0, PipeIs DEF Waiting, WaitingSink
  <2> QED
    BY <2>1 DEF WaitingOK
<1>5. TriedOK /\ AgreedOK
  BY <1>0 DEF TriedOK, AgreedOK, Agreed
<1> QED
  BY <1>0, <1>2, <1>3, <1>4, <1>5 DEF Init, NegotiationInv

LEMMA StartLoopOK ==
  ASSUME NegotiationInv, StartLoop, UNCHANGED <<given, drv, dev, conf, att, offer, how>>
  PROVE  NegotiationInv'
<1>0. /\ pc = "ready" /\ pc' = "running" /\ CanQueue(src[1]) /\ UNCHANGED <<given, drv>>
      /\ chain' = chain /\ hw' = hw /\ count' = count /\ drv' = drv /\ conf' = conf /\ how' = how
      /\ src' = src /\ snk' = snk /\ Pipes' = Pipes /\ offer' = offer
  BY DEF StartLoop, given, Pipes
<1>1. TypesOK /\ SizesOK /\ AgreedOK
  BY <1>0 DEF NegotiationInv
<1>2. TypesOK'
  <2>1. MachineOK' /\ IsOffer(offer)'
    BY <1>0, <1>1 DEF TypesOK, MachineOK, IsOffer, Memories, Sides
  <2>2. \A p \in Pipes : (SourceTyped(p, src[p]))' /\ (SinkTyped(p, snk[p]))'
    BY <1>0, <1>1, TypedKept DEF TypesOK
  <2> QED
    BY <1>0, <1>1, <2>1, <2>2 DEF TypesOK
<1>3. SizesOK'
  BY <1>0, <1>1 DEF SizesOK, Sides
<1>4. WaitingOK' /\ TriedOK'
  BY <1>0 DEF WaitingOK, Waiting, WaitingSink, TriedOK
<1>5. AgreedOK'
  BY <1>0, <1>1 DEF AgreedOK, Agreed, CanQueue, Deaf, Same, Stuck
<1>6. CanQueue(src[1])'
  BY <1>0 DEF CanQueue
<1> QED
  BY <1>0, <1>2, <1>3, <1>4, <1>5, <1>6 DEF NegotiationInv

LEMMA NegotiationStep ==
  ASSUME SetupInv, NegotiationInv, NumbersAgree, Next
  PROVE  NegotiationInv'
<1>1. CASE Create
  <2>1. CASE Created
    BY <1>1, <2>1, CreatedWaits DEF Create
  <2>2. CASE CannotCreate
    BY <2>2 DEF CannotCreate, NegotiationInv
  <2> QED
    BY <1>1, <2>1, <2>2 DEF Create
<1>2. CASE Negotiate
  BY <1>2, NegotiateOK DEF SetupInv
<1>3. CASE StartLoop /\ UNCHANGED <<given, drv, dev, conf, att, offer, how>>
  BY <1>3, StartLoopOK
<1>4. CASE Destroy
  BY <1>4 DEF Destroy, NegotiationInv
<1>5. \/ Create \/ Negotiate \/ Destroy
      \/ StartLoop /\ UNCHANGED <<given, drv, dev, conf, att, offer, how>>
  BY DEF Next
<1> HIDE DEF Next
<1> QED
  BY <1>1, <1>2, <1>3, <1>4, <1>5

LEMMA NegotiationStutters ==
  ASSUME NegotiationInv, UNCHANGED vars
  PROVE  NegotiationInv'
<1> USE DEF vars, given
<1>1. /\ UNCHANGED <<given, drv>> /\ UNCHANGED <<pc, dev, conf, src, snk, att, offer, how>>
      /\ chain' = chain /\ hw' = hw /\ count' = count /\ drv' = drv /\ file' = file /\ options' = options
  OBVIOUS
<1>2. Pipes' = Pipes
  BY <1>1 DEF Pipes
<1> SUFFICES ASSUME pc \in {"create", "negotiate", "ready", "running"}
             PROVE  NegotiationInv'
  BY <1>1 DEF NegotiationInv
<1>3. /\ TypesOK /\ SizesOK /\ WaitingOK /\ TriedOK /\ AgreedOK
  BY DEF NegotiationInv
<1>4. TypesOK'
  <2>1. MachineOK' /\ IsOffer(offer)'
    BY <1>1, <1>3 DEF TypesOK, MachineOK, IsOffer, Memories, Sides
  <2>2. \A p \in Pipes : /\ SourceTyped(p, src[p]) => (SourceTyped(p, src[p]))'
                         /\ SinkTyped(p, snk[p]) => (SinkTyped(p, snk[p]))'
    BY <1>1, TypedKept
  <2> QED
    BY <1>1, <1>2, <1>3, <2>1, <2>2 DEF TypesOK
<1>5. SizesOK'
  BY <1>1, <1>3 DEF SizesOK, Sides
<1>6. WaitingOK'
  <2>1. \A q \in Pipes : /\ SourceWaits(q, src[q]) => (SourceWaits(q, src[q]))'
                         /\ SinkWaits(q, snk[q]) => (SinkWaits(q, snk[q]))'
    BY <1>1, WaitsKept
  <2> QED
    BY <1>1, <1>2, <1>3, <2>1 DEF WaitingOK, Waiting, WaitingSink
<1>7. TriedOK'
  BY <1>1, <1>2, <1>3, TriedKept DEF TriedOK
<1>8. AgreedOK'
  BY <1>1, <1>2, <1>3 DEF AgreedOK, Agreed, CanQueue, Deaf, Same, Stuck
<1>9. (pc = "create" => att = 1 /\ file \in Files /\ options \in CommandLine)' /\ (pc = "running" => CanQueue(src[1]))'
  BY <1>1 DEF NegotiationInv, CanQueue
<1> QED
  BY <1>4, <1>5, <1>6, <1>7, <1>8, <1>9 DEF NegotiationInv

(* The command line and what the driver needs are given.                      *)
LEMMA PreparedMin ==
  ASSUME NEW d \in Drivers, NEW mode, NEW c, NEW r, r = Prepare(d, mode, FALSE, c)
  PROVE  r.min = d.min
<1> DEFINE type == BufType(mode, FALSE)
           size == IF "meta" \in mode THEN [w |-> d.width, h |-> d.height]
                   ELSE SetFrameSize(d, c.width, c.height)
           fourcc == SetPixFormat(d, type, GetFourcc(d, c.fourcc))
           e == [d EXCEPT !.fourcc = fourcc, !.width = size.w, !.height = size.h]
<1>1. r = Fps(e, size.w, size.h, c.fps)
  BY DEF Prepare
<1> HIDE DEF size, fourcc, type
<1>2. "min" \in DOMAIN e /\ e.min = d.min
  BY DriversAssumption
<1> HIDE DEF e
<1> QED
  BY <1>1, <1>2 DEF Fps

LEMMA NumbersKept ==
  ASSUME SetupInv, [Next]_vars
  PROVE  NumbersAgree' => NumbersAgree
<1>1. UNCHANGED given /\ drv'.min = drv.min
  <2>1. CASE Create
    <3>1. CASE CreateInput
      <4>1. drv \in Drivers /\ drv' = Prepare(drv, CameraMode, FALSE, OwnConf(1))
        BY <2>1, <3>1 DEF SetupInv, CreateOK, Create, CreateInput
      <4>2. drv'.min = drv.min
        BY <4>1, PreparedMin
      <4> QED
        BY <2>1, <4>2 DEF Create
    <3>2. CASE CreateTransfer \/ CreateOutput \/ CannotCreate
      BY <2>1, <3>2 DEF Create, CreateTransfer, CreateOutput, CreateSink, CannotCreate
    <3> QED
      BY <2>1, <3>1, <3>2 DEF Create, Created
  <2>2. CASE Negotiate
    BY <2>2 DEF Negotiate
  <2>3. CASE UNCHANGED <<given, drv, dev, conf, att, offer, how>>
    BY <2>3
  <2>4. CASE UNCHANGED vars
    BY <2>4 DEF vars
  <2>5. Create \/ Negotiate \/ UNCHANGED <<given, drv, dev, conf, att, offer, how>> \/ UNCHANGED vars
    BY DEF Next
  <2> QED
    BY <2>1, <2>2, <2>3, <2>4, <2>5
<1>2. chain' = chain /\ count' = count
  BY <1>1 DEF given
<1> QED
  BY <1>1, <1>2 DEF NumbersAgree

THEOREM NegotiationInvariant == Spec => [](NumbersAgree => NegotiationInv)
<1> DEFINE I == NumbersAgree => NegotiationInv
<1>1. Init => I
  BY NegotiationInit
<1>2. SetupInv /\ I /\ [Next]_vars => I'
  BY NumbersKept, NegotiationStep, NegotiationStutters
<1> QED
  BY <1>1, <1>2, SetupInvariant, PTL DEF Spec

(* Whatever the kernel refused to export, import or map before, once the       *)
(* requestbuffer() calls of fastvideo.c:517 have been accepted on every pipe    *)
(* and the camera queues a buffer, each source has no more buffers than its     *)
(* sink knows and they are the same memory, for every command line, number of   *)
(* buffers, driver and hardware that FramesShared is about.                   *)
THEOREM FramesCorrect == Spec => []FramesShared
<1>1. (NumbersAgree => NegotiationInv) => FramesShared
  <2> SUFFICES ASSUME NegotiationInv, pc = "running", NEW p \in Pipes, ~ Deaf(p), src[p].n > 0
               PROVE  src[p].n <= snk[p].n /\ src[p].mem = snk[p].mem
    BY DEF FramesShared
  <2>1. AgreedOK /\ CanQueue(src[1]) /\ Agreed(p)
    BY DEF NegotiationInv, Agreed
  <2> QED
    BY <2>1 DEF AgreedOK, Same
<1> QED
  BY <1>1, NegotiationInvariant, PTL
=============================================================================
