------------------------------- MODULE ProtoUdp -------------------------------
(***************************************************************************)
(* The "udp" transport (src/sproto_udp.c): data sent with MSG_MORE are kept   *)
(* by the kernel until a send without it makes one datagram.                  *)
(***************************************************************************)
EXTENDS Transport

CONSTANT UdpMtu
ASSUME UdpMtuAssumption == UdpMtu \in Nat /\ UdpMtu > Packet

VARIABLES
    bound,     \* proto_bindinterface() has found an interface
    socket,    \* serverfd leads to a socket
    corked     \* units the kernel keeps for the next datagram

udpVars == <<bound, socket, corked>>

UdpInit == bound = FALSE /\ socket = TRUE /\ corked = 0

(* proto_bindinterface(), in proto_create(): a turn each second until an       *)
(* interface that suits is up; no other call is made before.                   *)
BindInterface ==
    /\ ~ bound
    /\ bound' = TRUE
    /\ UNCHANGED <<socket, corked, call, reply>>

(* proto_connect() only looks at serverfd, which close() does not clear.       *)
UdpConnect ==
    /\ bound /\ call.op = "connect"
    /\ Answer("ok")
    /\ UNCHANGED udpVars

(* proto_send(): EAGAIN is tried again at once, until the kernel has room;      *)
(* another error is returned, with errno 0, and the kernel drops what it kept. *)
UdpSend ==
    /\ bound /\ call.op = "send"
    /\ \/ /\ socket
          /\ corked' = IF call.more THEN corked + call.len ELSE 0
          /\ Answer("ok")
       \/ corked' = 0 /\ Answer("error")
    /\ UNCHANGED <<bound, socket>>

(* proto_flush() does nothing in the default build.                            *)
UdpFlush ==
    /\ bound /\ call.op = "flush"
    /\ Answer("ok")
    /\ UNCHANGED udpVars

(* proto_close() ends the socket; nothing opens another.                       *)
UdpClose ==
    /\ bound /\ call.op = "close"
    /\ socket' = FALSE /\ corked' = 0
    /\ Answer("ok")
    /\ UNCHANGED bound

UdpNext == BindInterface \/ UdpConnect \/ UdpSend \/ UdpFlush \/ UdpClose
==============================================================================
