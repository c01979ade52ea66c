------------------------------ MODULE Transport ------------------------------
(***************************************************************************)
(* The interface Proto_t (src/fastvideo.h) between a device that sends or   *)
(* receives and its transport.  A device makes one call at a time and goes  *)
(* on with the answer.  A packet of an MPEG transport stream, 188 bytes, is  *)
(* counted as Packet units.                                                  *)
(***************************************************************************)
EXTENDS Naturals, Sequences

Packet == 4

VARIABLES
    call,    \* the call under way, NoCall when the transport has answered
    reply    \* the answer: "ok", "again" (EAGAIN) or "error"

NoCall == [op |-> "none", len |-> 0, more |-> FALSE, started |-> FALSE]
Calls == {"none", "connect", "send", "recv", "flush", "close"}

Call(op) == call' = [NoCall EXCEPT !.op = op] /\ UNCHANGED reply
Send(n, more, started) ==
    /\ call' = [op |-> "send", len |-> n, more |-> more, started |-> started]
    /\ UNCHANGED reply
Answer(r) == call' = NoCall /\ reply' = r

Answered(r) == call = NoCall /\ reply = r
==============================================================================
