----------------------------- MODULE MCProtoTcp -----------------------------
(* A small ring, two clients that may connect one after the other and get   *)
(* the same descriptor.                                                     *)
EXTENDS ProtoTcp, TLC

Symmetry == Permutations(Conns) \cup Permutations(Fds)
=============================================================================
