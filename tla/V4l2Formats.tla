----------------------------- MODULE V4l2Formats -----------------------------
(***************************************************************************)
(* What sv4l2_create() of src/sv4l2.c chooses with a driver before any       *)
(* buffer exists: the direction and type of the stream, the fourcc, the size  *)
(* and the rate.  A driver is a record: its capabilities (caps), its formats   *)
(* in their order, its sizes (stepwise: the smallest and the largest), what it *)
(* is set to, and which of the two ways to set the rate it has.               *)
(***************************************************************************)
EXTENDS Integers, Sequences, SequencesExt

(* The fourccs of formats[], which are looked for when none is asked for.     *)
Known == {"YUYV"}

MetaCaps == {"meta_capture", "meta_output"}
CaptureCaps == {"capture", "meta_capture", "capture_mplane"}
OutputCaps == {"output", "meta_output", "output_mplane"}
M2mCaps == {"m2m", "m2m_mplane"}
PlaneCaps == {"capture_mplane", "output_mplane", "m2m_mplane"}

(* _v4l2_devicecapabilities(): the mode, from the one the configuration gives *)
(* and the kind of device asked for.  A device with metadata and neither of    *)
(* the single-planar capabilities is taken for a metadata device.              *)
OnlyMeta(drv) == drv.caps \cap MetaCaps # {} /\ drv.caps \cap {"capture", "output"} = {}
Mode(drv, mode, dtype) ==
    mode
    \cup (IF OnlyMeta(drv) THEN {"meta"} ELSE {})
    \cup (IF drv.caps \cap CaptureCaps # {} /\ dtype \in {"input", "control"} THEN {"capture"} ELSE {})
    \cup (IF drv.caps \cap M2mCaps # {} THEN {"capture", "output"} ELSE {})
    \cup (IF drv.caps \cap OutputCaps # {} /\ dtype \in {"output", "control"} THEN {"output"} ELSE {})
    \cup (IF drv.caps \cap PlaneCaps # {} THEN {"mplane"} ELSE {})
Capable(drv, mode, dtype) ==
    /\ "meta" \in mode => drv.caps \cap MetaCaps # {}
    /\ Mode(drv, mode, dtype) \cap {"capture", "output"} # {}
    /\ "streaming" \in drv.caps

(* _v4l2_getbuftype(): the direction of a device that has both is the output   *)
(* for the device (type 0) and the capture for its duplicate (type -1).        *)
Direction(mode, dup) ==
    IF "output" \in mode /\ (~ dup \/ "capture" \notin mode) THEN "output" ELSE "capture"
BufType(mode, dup) ==
    IF "meta" \in mode THEN [dir |-> Direction(mode, dup), of |-> "meta"]
    ELSE [dir |-> Direction(mode, dup), of |-> IF "mplane" \in mode THEN "mplane" ELSE "splane"]

-----------------------------------------------------------------------------
(* _sv4l2_getfourcc(): a fourcc that the driver does not offer is replaced by  *)
(* the next of its kind, and the last of them is kept whatever it is.          *)
NextOfKind == [XB24 |-> "AB24", AB24 |-> "RGB4", XR24 |-> "AB24", AR24 |-> "BGR4"]
Offered(drv, fourcc) == fourcc \in ToSet(drv.formats)
Closer(drv, fourcc) ==
    IF Offered(drv, fourcc) \/ fourcc \notin DOMAIN NextOfKind THEN fourcc ELSE NextOfKind[fourcc]
GetFourcc(drv, fourcc) == Closer(drv, Closer(drv, Closer(drv, fourcc)))

(* _v4l2_setpixformat(): the fourcc asked for when it is offered; without one, *)
(* the first offered that the program knows; else the driver keeps its own, as  *)
(* does a metadata device.                                                     *)
FirstKnown(drv) == SelectInSeq(drv.formats, LAMBDA f : f \in Known)
SetPixFormat(drv, type, fourcc) ==
    IF fourcc # "" THEN IF Offered(drv, fourcc) THEN fourcc ELSE drv.fourcc
    ELSE IF type.of = "meta" \/ FirstKnown(drv) = 0 THEN drv.fourcc
    ELSE drv.formats[FirstKnown(drv)]

(* _v4l2_checkframesize(): between the bounds of a stepwise driver.  Of a list, *)
(* each size at least as high as the last one taken is taken in its turn, until *)
(* one has exactly as many pixels as the size asked for.                        *)
Clamp(x, lo, hi) == IF x > hi THEN hi ELSE IF x < lo THEN lo ELSE x
TakeSize(asked, taken, size) ==
    IF taken.done \/ taken.h > size.h THEN taken
    ELSE [w |-> size.w, h |-> size.h, done |-> asked > 0 /\ asked = size.w * size.h]
CheckFrameSize(drv, w, h) ==
    IF drv.stepwise
    THEN [w |-> Clamp(w, drv.sizes[1].w, drv.sizes[2].w), h |-> Clamp(h, drv.sizes[1].h, drv.sizes[2].h)]
    ELSE LET taken == FoldLeft(LAMBDA t, size : TakeSize(w * h, t, size),
                               [w |-> w, h |-> h, done |-> FALSE], drv.sizes)
         IN  [w |-> taken.w, h |-> taken.h]

(* _v4l2_setframesize(): 16/9 for a height alone, nothing set for a width alone. *)
(* A size that is in no list is the driver's to replace: it keeps its own.      *)
Width(w, h) == IF h > 0 /\ w = 0 THEN (h * 16) \div 9 ELSE w
Adjusted(drv, size) ==
    IF drv.stepwise \/ size \in ToSet(drv.sizes) THEN size ELSE [w |-> drv.width, h |-> drv.height]
SetFrameSize(drv, w, h) ==
    IF Width(w, h) > 0 /\ h > 0 THEN Adjusted(drv, CheckFrameSize(drv, Width(w, h), h))
    ELSE [w |-> drv.width, h |-> drv.height]

-----------------------------------------------------------------------------
(* _v4l2_setfps_param(): the rate of the driver, set when it is another one;    *)
(* -1 asks for it.                                                             *)
Unset == -1
ParamRate(drv, fps) == IF fps = Unset THEN drv.rate ELSE fps

(* _v4l2_setfps_vblank(), for a sensor without that parameter: the blank lines   *)
(* of the rate asked for, or the rate of its blank lines.  A rate so high that   *)
(* no blank line is left gives a negative number, and the driver its smallest.  *)
Lines(drv, width, fps) == (drv.pixelrate \div fps) \div (width + drv.hblank)
Vblank(drv, width, height, fps) ==
    IF fps = Unset THEN drv.vblank ELSE Clamp(Lines(drv, width, fps) - height, 0, drv.vmax)
VblankRate(drv, width, height, vblank) ==
    LET pixels == (vblank + height) * (width + drv.hblank)
    IN  IF pixels = 0 THEN 0 ELSE drv.pixelrate \div pixels

(* sv4l2_fps(): the parameter first, then the blank lines; what it returns is   *)
(* the rate asked for, whatever the driver does of it.                          *)
Fps(drv, width, height, fps) ==
    IF drv.parm THEN [drv EXCEPT !.rate = ParamRate(drv, fps)]
    ELSE IF drv.pixelrate = 0 THEN drv
    ELSE LET vblank == Vblank(drv, width, height, fps)
         IN  [drv EXCEPT !.vblank = vblank, !.rate = VblankRate(drv, width, height, vblank)]

(* _sv4l2_prepare(): the fourcc, then a size of that fourcc except for metadata, *)
(* then the rate; the driver is set to what comes out of it.                    *)
Prepare(drv, mode, dup, conf) ==
    LET type == BufType(mode, dup)
        size == IF "meta" \in mode THEN [w |-> drv.width, h |-> drv.height]
                ELSE SetFrameSize(drv, conf.width, conf.height)
        fourcc == SetPixFormat(drv, type, GetFourcc(drv, conf.fourcc))
    IN  Fps([drv EXCEPT !.fourcc = fourcc, !.width = size.w, !.height = size.h],
            size.w, size.h, conf.fps)

(* Mutant of Settled: the configuration keeps what was asked for.              *)
AsAsked(drv, conf) == conf
(* sv4l2_create2() and sv4l2_getpixformat(): the device has what the driver is   *)
(* set to, and sv4l2_create() writes it in the configuration.  What it reads as   *)
(* the size of a metadata device are other members of its format.               *)
Settled(drv, conf) ==
    [conf EXCEPT !.width = drv.width, !.height = drv.height, !.fourcc = drv.fourcc]
=============================================================================
