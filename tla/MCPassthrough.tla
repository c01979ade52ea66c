--------------------------- MODULE MCPassthrough ---------------------------
(* Passthrough with its two sides driven by any sequence of calls.          *)
EXTENDS Passthrough
=============================================================================
