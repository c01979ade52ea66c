------------------------------ MODULE ProtoUnix ------------------------------
(***************************************************************************)
(* The "unix" transport (src/sproto_unix.c): a local socket with several     *)
(* clients.  What the device sends is gathered in one packet; a packet that  *)
(* ends goes to the clients of a list.  A thread accepts the clients: it     *)
(* takes an entry of a pool and puts it on that list, while the device puts a *)
(* client that is lost back in the pool, and no lock protects either of them. *)
(***************************************************************************)
EXTENDS VideoList, Transport, SequencesExt

CONSTANTS UnixMtu, Peers, NoPeer
ASSUME PeersAssumption == NoPeer \notin Peers
(* 7 * 188 + 1 bytes: whole packets and a rest. *)
ASSUME UnixMtuAssumption ==
    UnixMtu \in Nat /\ UnixMtu > Packet /\ UnixMtu % Packet # 0

VARIABLES
    clients, pool,   \* proto->clients and proto->clientspool
    fd,       \* the peer an entry's descriptor leads to, NoPeer for none
    started,  \* the entries in state e_started
    offset,   \* proto->offset: units gathered in the packet
    walk,     \* the call whose packet is being sent, NoCall when none is
    errno,    \* EAGAIN was the last error of that call
    sock,     \* what accept() gave
    peers,    \* what the programs at the other end do
    ubroken,  \* "segv" or "spin" when a thread is lost
    ucrossed  \* both threads were in push() or pop() for the same list at once

Threads == {"device", "accept"}
listVars == <<heap, task, clients, pool, fd>>
unixVars == <<listVars, started, offset, walk, errno, sock, peers, ubroken, ucrossed>>

(* proto_create(): one entry per client, appended to the pool.               *)
PoolOfAll == Appended(SetToSeq(Entries))
UnixInit ==
    /\ heap = PoolOfAll.heap /\ pool = PoolOfAll.head /\ clients = Nil
    /\ task = [t \in Threads |-> Free("absent")]
    /\ fd = [e \in Entries |-> NoPeer]
    /\ started = {} /\ offset = 0 /\ walk = NoCall /\ errno = FALSE
    /\ sock = NoPeer
    /\ peers = [p \in Peers |-> "away"]
    /\ ubroken = "no" /\ ucrossed = FALSE

-----------------------------------------------------------------------------
(* The end of a call of push() or pop(): its result is stored.               *)
Store(t, at) ==
    /\ task[t].at = "return"
    /\ clients' = IF task[t].of = "clients" THEN task[t].head ELSE clients
    /\ pool' = IF task[t].of = "pool" THEN task[t].head ELSE pool
    /\ task' = [task EXCEPT ![t] = [Free(at) EXCEPT !.entry = task[t].entry]]
    /\ UNCHANGED heap

-----------------------------------------------------------------------------
(* The thread of the device *)

(* proto_connect(): listen and start the thread that accepts.                *)
UnixConnect ==
    /\ call.op = "connect"
    /\ task' = [task EXCEPT !["accept"] = Free("accept")]
    /\ Answer("ok")
    /\ UNCHANGED <<heap, clients, pool, fd, started, offset, walk, errno, sock, peers, ubroken>>

(* proto_send() up to the loop on the clients: data that do not fit are cut. *)
(* flush() is a send of nothing.                                             *)
UnixSend ==
    /\ call.op \in {"send", "flush"} /\ walk = NoCall
    /\ LET full == offset + call.len >= UnixMtu
           more == call.more /\ ~ full
       IN  /\ offset' = IF full THEN UnixMtu ELSE offset + call.len
           /\ IF more
              THEN /\ Answer("ok")
                   /\ UNCHANGED <<heap, task, walk, errno>>
              ELSE /\ walk' = call
                   /\ errno' = FALSE
                   /\ heap' = ListFirst(heap, clients)
                   /\ task' = [task EXCEPT !["device"] = Free("loop")]
                   /\ UNCHANGED <<call, reply>>
    /\ UNCHANGED <<clients, pool, fd, started, sock, peers, ubroken>>

Device(at) == task["device"].at = at
Loops == task' = [task EXCEPT !["device"] = Free("loop")]

(* The next client of the loop.                                              *)
NextClient ==
    /\ Device("loop")
    /\ ListNext(heap, clients) # Nil /\ offset > 0
    /\ heap' = ListAdvance(heap, clients)
    /\ task' = [task EXCEPT !["device"] = [Free("send") EXCEPT !.entry = ListNext(heap, clients)]]
    /\ UNCHANGED <<clients, pool, fd, started, offset, walk, errno, sock, peers, ubroken, call, reply>>

(* What send() may answer: a full socket gives EAGAIN, a closed one an error. *)
Outcomes(c) ==
    IF fd[c] # NoPeer /\ peers[fd[c]] = "open" THEN {"ok", "again"} ELSE {"error"}

(* One that cannot be written any more goes back to the pool, its descriptor  *)
(* is forgotten and, at the end, `errno' reset.                               *)
SendTo(c) ==
    /\ Device("send") /\ c = task["device"].entry
    /\ IF c \notin started /\ walk.started
       THEN Loops /\ UNCHANGED <<started, errno, fd>>
       ELSE \E o \in Outcomes(c) :
            /\ started' = started \cup {c}
            /\ errno' = CASE o = "again" -> TRUE
                          [] o = "error" -> FALSE
                          [] OTHER       -> errno
            /\ fd' = IF o = "error" THEN [fd EXCEPT ![c] = NoPeer] ELSE fd
            /\ IF o = "error" THEN Goto("device", "lost") ELSE Loops
    /\ UNCHANGED <<heap, clients, pool, offset, walk, sock, peers, ubroken, call, reply>>
LoseClient ==
    /\ \/ Device("lost") /\ Pop("device", "clients", clients, "pick") /\ UNCHANGED <<clients, pool, heap>>
       \/ task["device"].of = "clients" /\ Store("device", "free")
       \/ Device("free") /\ Push("device", "pool", pool) /\ UNCHANGED <<clients, pool, heap>>
       \/ /\ Device("return") /\ task["device"].of = "pool"
          /\ pool' = task["device"].head /\ Loops /\ UNCHANGED <<clients, heap>>
    /\ UNCHANGED <<fd, started, offset, walk, errno, sock, peers, ubroken, call, reply>>

(* Mutant of Emptied: a packet refused by a slow client is kept.             *)
KeptWhenRefused == IF errno THEN offset ELSE 0
Emptied == 0

(* The end of the loop.  What one slow client answered is the answer for all. *)
WalkEnd ==
    /\ walk # NoCall /\ Device("loop")
    /\ ListNext(heap, clients) = Nil \/ offset = 0
    /\ heap' = ListAdvance(heap, clients)
    /\ task' = [task EXCEPT !["device"] = Free("absent")]
    /\ offset' = Emptied
    /\ walk' = NoCall
    /\ Answer(IF errno THEN "again" ELSE "ok")
    /\ UNCHANGED <<clients, pool, fd, started, errno, sock, peers, ubroken>>

(* proto_close(): every client is taken by the tail.  On an empty list        *)
(* poplast() leaves `client' as it was: the loop has no other end than the    *)
(* first turn.                                                                *)
UnixClose ==
    /\ call.op = "close"
    /\ IF clients = Nil
       THEN Answer("ok") /\ UNCHANGED ubroken
       ELSE /\ ubroken' = IF heap[clients].last = Nil THEN "segv" ELSE "spin"
            /\ UNCHANGED <<call, reply>>
    /\ UNCHANGED <<listVars, started, offset, walk, errno, sock, peers>>

-----------------------------------------------------------------------------
(* The thread that accepts, proto_thread() *)

Accepting(at) == task["accept"].at = at
(* accept() gives a socket; when the pool is empty the socket is forgotten.    *)
Accept(p) ==
    /\ Accepting("accept") /\ peers[p] = "waiting"
    /\ peers' = [peers EXCEPT ![p] = "open"]
    /\ sock' = p
    /\ Pop("accept", "pool", pool, "tail")
    /\ UNCHANGED <<heap, clients, pool, fd, started, offset, walk, errno, ubroken, call, reply>>
TakeEntry ==
    /\ task["accept"].of = "pool"
    /\ Store("accept", IF task["accept"].entry = Nil THEN "accept" ELSE "taken")
    /\ UNCHANGED <<fd, started, offset, walk, errno, sock, peers, ubroken, call, reply>>
AddClient ==
    /\ \/ /\ Accepting("taken") /\ fd' = [fd EXCEPT ![task["accept"].entry] = sock]
          /\ Push("accept", "clients", clients)
          /\ UNCHANGED <<heap, clients, pool, sock>>
       \/ /\ Accepting("return") /\ task["accept"].of = "clients"
          /\ clients' = task["accept"].head
          /\ task' = [task EXCEPT !["accept"] = Free("accept")] /\ sock' = NoPeer
          /\ UNCHANGED <<heap, pool, fd>>
    /\ UNCHANGED <<started, offset, walk, errno, peers, ubroken, call, reply>>

(* The programs at the other end connect, leave, and come again once nothing   *)
(* is left of the connection they had.                                         *)
PeerStep(p) ==
    /\ \/ peers[p] = "away" /\ peers' = [peers EXCEPT ![p] = "waiting"]
       \/ peers[p] = "open" /\ peers' = [peers EXCEPT ![p] = "gone"]
       \/ /\ peers[p] = "gone" /\ (\A e \in Entries : fd[e] # p) /\ sock # p
          /\ peers' = [peers EXCEPT ![p] = "away"]
    /\ UNCHANGED <<listVars, started, offset, walk, errno, sock, ubroken, call, reply>>

(* In a call of push() or pop(), of either thread.                             *)
InList ==
    /\ \E t \in Threads : ListStep(t)
    /\ UNCHANGED <<clients, pool, fd, started, offset, walk, errno, sock, peers, ubroken, call, reply>>
Segv ==
    /\ \E t \in Threads : FollowsNull(t)
    /\ ubroken' = "segv"
    /\ UNCHANGED <<listVars, started, offset, walk, errno, sock, peers, call, reply>>

SameList == task["device"].of = task["accept"].of /\ task["accept"].of # "none"
UnixNext ==
    /\ ubroken = "no"
    /\ \/ UnixConnect \/ UnixSend \/ NextClient \/ SendTo(task["device"].entry) \/ LoseClient
       \/ WalkEnd \/ UnixClose
       \/ \E p \in Peers : Accept(p) \/ PeerStep(p)
       \/ TakeEntry \/ AddClient
       \/ InList \/ Segv
    /\ ucrossed' = (ucrossed \/ SameList')
==============================================================================
