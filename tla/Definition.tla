----------------------------- MODULE Definition -----------------------------
(***************************************************************************)
(* The configuration of a device, src/sconfig.c and the device part of        *)
(* src/fastvideo.c: the entry of the JSON file is found by its name, the       *)
(* options of the name on the command line come before the definition of the   *)
(* entry, and what neither gives comes from the device at the other end.       *)
(***************************************************************************)
EXTENDS Integers, Sequences, SequencesExt

(* The members of DeviceConf_t that the properties tell apart.                  *)
Fields == {"width", "height", "fourcc", "fps"}
Zero(f) == IF f = "fourcc" THEN "" ELSE 0
Cleared == [f \in Fields |-> Zero(f)]

(* createconfig(): cleared memory, but for the rate of a V4L2 device.           *)
CreateConfig(v4l2) == [Cleared EXCEPT !.fps = IF v4l2 THEN -1 ELSE @]

(* main_parseconfigdevice() and scommon_loaddevice(): the first entry with the  *)
(* name that is not disabled.                                                  *)
Has(entry, name) == ~ entry.disabled /\ name \in entry.names
Entries(file, name) == SelectSeq(file, LAMBDA e : Has(e, name))

(* _config_createdevice(): the entry stops the search even when no device has   *)
(* its type, and there is no device then.                                      *)
Found(file, name, types) ==
    Entries(file, name) # <<>> /\ Head(Entries(file, name)).type \in types
Entry(file, name) == Head(Entries(file, name))

(* config_create(): the options of the name.                                   *)
FromOptions(v4l2, options) ==
    [f \in Fields |-> IF f \in DOMAIN options THEN options[f] ELSE CreateConfig(v4l2)[f]]

(* sconfig_loaddefinition(): what the options leave unset, which for the rate   *)
(* is only -1; a rate given as an object is looked for in the fourcc, and so    *)
(* is not read.                                                                *)
Nothing(f) == IF f = "fps" THEN -1 ELSE Zero(f)
Given(definition, f) ==
    f \in DOMAIN definition /\ ~ (f = "fps" /\ definition[f].object)
FromFile(conf, definition) ==
    [f \in Fields |-> IF conf[f] = Nothing(f) /\ Given(definition, f)
                      THEN definition[f].value ELSE conf[f]]
Loaded(v4l2, options, definition) == FromFile(FromOptions(v4l2, options), definition)

(* sconfig_mergedefinition(): what is zero; a rate of -1 stays, and is merged   *)
(* like a rate into a device that has none.                                    *)
Merged(dest, source) == [f \in Fields |-> IF dest[f] = Zero(f) THEN source[f] ELSE dest[f]]

(* choice_config(): both ends of a pipe, the output first.                      *)
Choice(in, out) == [out |-> Merged(out, in), in |-> Merged(in, Merged(out, in))]

(* The configuration of a duplicate: that of its transfer, then of the device.  *)
Duplicated(transfer, conf) == Merged(Merged(Cleared, transfer), conf)
=============================================================================
