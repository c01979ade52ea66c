------------------------------- MODULE MCSinks -------------------------------
(* The two sinks over their transports, with small packets.  The peers differ *)
(* by their names only.                                                       *)
EXTENDS Sinks, TLC
PeerSymmetry == Permutations(Peers)

(* PoolIsFree promises nothing once the two threads of the unix transport were *)
(* in a call for the same list at once, which `ucrossed' keeps: no later state  *)
(* need be searched.  One client is enough for the metadata, which only make    *)
(* frames longer.                                                              *)
NotCrossed == ~ ucrossed
OneClientWithMeta ==
    proto = "unix" /\ meta => \A p, q \in Peers : "away" \in {peers[p], peers[q]} \/ p = q
==============================================================================
