------------------------------- MODULE Display -------------------------------
(***************************************************************************)
(* What sdrm_create() of src/sdrm.c chooses on a DRM card: a connector, an      *)
(* encoder, a CRTC, a mode and a plane.  A card is a record of sequences, in     *)
(* the order of the resources; an encoder or a CRTC that is not bound is 0.      *)
(***************************************************************************)
EXTENDS Naturals, Sequences, SequencesExt

(* sdrm_ids(), a free encoder: each encoder replaces the one before, so that it  *)
(* is the last one, unless a connector has it.                                  *)
FreeEncoder(card) ==
    LET last == Last(card.encoders).id
    IN  IF \E i \in DOMAIN card.connectors : card.connectors[i].encoder = last THEN 0 ELSE last

(* The first connected connector, of writeback for a transfer and not of          *)
(* writeback otherwise; like the others below its place is 0 when there is none.  *)
Usable(card, transfer) ==
    SelectInSeq(card.connectors, LAMBDA c : c.connected /\ c.writeback = transfer)
Connector(card, transfer) == card.connectors[Usable(card, transfer)]

(* Its encoder: the free one unless the connector has another; one that the        *)
(* connector cannot drive is replaced by the first that it can.                    *)
Guessed(card, c) ==
    IF FreeEncoder(card) = 0 \/ c.encoder \notin {0, FreeEncoder(card)} THEN c.encoder ELSE FreeEncoder(card)
(* Mutant of Driven: the guess is kept.                                          *)
AsGuessed(c, encoder) == encoder
Driven(c, encoder) ==
    IF encoder \notin ToSet(c.encoders) /\ c.encoders # <<>> THEN c.encoders[1] ELSE encoder
EncoderOf(card, c) == Driven(c, Guessed(card, c))

(* The CRTC that the encoder has, or the first one possible.                       *)
EncoderAt(card, id) == card.encoders[SelectInSeq(card.encoders, LAMBDA e : e.id = id)]
Possible(card, e) == SelectInSeq(card.crtcs, LAMBDA c : c \in e.possible)
CrtcOf(card, e) ==
    IF e.crtc # 0 THEN e.crtc ELSE IF Possible(card, e) = 0 THEN 0 ELSE card.crtcs[Possible(card, e)]

(* The mode: the last of the size asked for or of the preferred mode; the first    *)
(* of the connector when there is none.                                            *)
Preferred(c) == SelectSeq(c.modes, LAMBDA m : m.preferred)
SameSize(c, w, h) == SelectSeq(c.modes, LAMBDA m : m.w = w /\ m.h = h)
ModeFor(c, w, h) ==
    LET wanted == IF w > 0 /\ h > 0 THEN SameSize(c, w, h)
                  ELSE IF Preferred(c) = <<>> THEN <<>>
                  ELSE SameSize(c, Preferred(c)[1].w, Preferred(c)[1].h)
    IN  IF wanted = <<>> THEN c.modes[1] ELSE Last(wanted)

(* sdrm_plane(): the first primary plane of the CRTC with the fourcc, or any.      *)
PlaneFor(card, crtc, fourcc) ==
    SelectInSeq(card.planes, LAMBDA p : /\ p.primary /\ crtc \in p.crtcs
                                        /\ fourcc = "" \/ fourcc \in ToSet(p.formats))

(* sdrm_create2(): what the display uses, when all of it is found.                 *)
HasConnector(card, transfer) ==
    /\ Usable(card, transfer) # 0
    /\ EncoderOf(card, Connector(card, transfer)) # 0
Scanout(card, transfer, conf) ==
    LET c == Connector(card, transfer)
        e == EncoderAt(card, EncoderOf(card, c))
        crtc == CrtcOf(card, e)
        plane == PlaneFor(card, crtc, conf.fourcc)
    IN  [connector |-> c, encoder |-> e, crtc |-> crtc, mode |-> ModeFor(c, conf.width, conf.height),
         plane |-> IF plane = 0 THEN <<>> ELSE <<card.planes[plane]>>]
Displays(card, transfer, conf) ==
    /\ HasConnector(card, transfer)
    /\ Scanout(card, transfer, conf).crtc # 0
    /\ Scanout(card, transfer, conf).plane # <<>>

(* The encoder can drive the connector, the CRTC the encoder and the plane the CRTC. *)
Fits(s) ==
    /\ s.encoder.id \in ToSet(s.connector.encoders)
    /\ s.crtc = s.encoder.crtc \/ s.crtc \in s.encoder.possible
    /\ s.crtc \in s.plane[1].crtcs
=============================================================================
