------------------------------ MODULE ProtoTcp ------------------------------
(***************************************************************************)
(* The tcp transport of the "file" and "mpegts" sinks                      *)
(* (src/sproto_tcp.c).  The thread of the main loop, the PRODUCER, calls   *)
(* proto_send(), proto_close() and proto_destroy(); it fills a ring of     *)
(* buffers.  A SENDER thread empties the ring into the socket of the       *)
(* client.  They share the ring, `clientfd' and `error' under a mutex; the *)
(* sender waits on a condition variable, and calls send(), which may block,*)
(* without the mutex.                                                      *)
(*                                                                         *)
(* A critical section is one step.  A connection is an object of the       *)
(* kernel; a file descriptor is a number that close() frees and accept()   *)
(* gives again.                                                            *)
(***************************************************************************)
EXTENDS Naturals, Sequences, FiniteSets

CONSTANTS
    NBuffers,   \* PROTO_TCP_MAX_BUFFERS, 64 in the code
    Mtu,        \* proto->mtu
    Lengths,    \* the lengths of the messages
    StartFlags, \* whether the owner marks the starts of frames: "mpegts" sends
                \* with Proto_Started or without, "file" always without
    Conns,      \* the clients that may connect
    Fds,        \* the numbers that descriptors can have
    Server,     \* tcpserver, or tcpclient which has one connection from the start
    HttpModes   \* whether the server may be configured with mode "http"

NoFd   == "no fd"
NoConn == "no conn"

ASSUME RingAssumption == NBuffers \in Nat \ {0}
ASSUME MtuAssumption  == Mtu \in Nat \ {0} /\ Lengths \subseteq Nat \ {0}
ASSUME ConnAssumption == NoConn \notin Conns /\ NoFd \notin Fds
ASSUME ModeAssumption == /\ Server \in BOOLEAN /\ HttpModes \subseteq BOOLEAN
                         /\ StartFlags \subseteq BOOLEAN

Buffers == 0 .. NBuffers - 1
After(b) == (b + 1) % NBuffers       \* buff->next

(* A call of proto_send(): a length and the flags Proto_More and           *)
(* Proto_Started.                                                          *)
Messages == [len : Lengths, more : BOOLEAN, started : StartFlags]
Tag(m) == m.started                  \* what tells messages apart
(* The HTTP response, a message of the transport itself.                   *)
HttpResponse == [len |-> 1, more |-> FALSE, started |-> TRUE]

VARIABLES
    \* the ring
    state,     \* buffers[b].state
    len,       \* buffers[b].len
    data,      \* what was copied in buffers[b], one tag per message
    out,       \* proto->out, the producer's buffer
    in,        \* proto->in, the sender's buffer
    \* shared
    clientfd, error, running,
    \* the producer
    ppc,       \* where it is, "idle" out of the transport
    msg, own,  \* the message of the call, TRUE when it is the HTTP response
    cfd,       \* the local `fd' of proto_close()
    dropping,  \* proto->dropping
    broken,    \* history: the producer was told of a loss, or nothing was
               \* sent yet, and no Proto_Started message was accepted since
    \* the sender
    tpc,       \* where it is
    sfd,       \* its local `fd'
    sconn,     \* the connection send() is working on
    sok,       \* what send() answered
    http,      \* the mode is "http"; never changes
    \* the kernel
    conn,      \* conn[c]: "new", "pending", "open", "stalled", "dead"
    fdconn     \* the connection behind each descriptor

ringVars  == <<state, len, data, out, in>>
callVars  == <<ppc, msg, own, broken>>
prodVars  == <<callVars, cfd, dropping>>
sendVars  == <<tpc, sfd, sconn, sok>>
netVars   == <<conn, fdconn>>
shareVars == <<clientfd, error, running>>
vars == <<ringVars, prodVars, sendVars, netVars, shareVars, http>>

NoMsg == [len |-> 0, more |-> FALSE, started |-> FALSE]

(* _proto_create(), then proto_create_server() or proto_create_client().   *)
Init ==
    /\ state = [b \in Buffers |-> "dequeued"]
    /\ len = [b \in Buffers |-> 0]
    /\ data = [b \in Buffers |-> << >>]
    /\ out = 0 /\ in = 0
    /\ error = FALSE /\ running = TRUE /\ http \in HttpModes
    /\ ppc = "idle" /\ msg = NoMsg /\ own = FALSE /\ cfd = NoFd
    /\ dropping = TRUE /\ broken = TRUE
    /\ tpc = "check" /\ sfd = NoFd /\ sconn = NoConn /\ sok = TRUE
    /\ IF Server
       THEN /\ clientfd = NoFd
            /\ conn = [c \in Conns |-> "new"]
            /\ fdconn = [d \in Fds |-> NoConn]
       ELSE \E c \in Conns, d \in Fds :
            /\ clientfd = d
            /\ conn = [x \in Conns |-> IF x = c THEN "open" ELSE "new"]
            /\ fdconn = [x \in Fds |-> IF x = d THEN c ELSE NoConn]

-----------------------------------------------------------------------------
(* What both threads and the kernel do *)

(* Mutant of Signal: the condition is not signalled.                       *)
SignalNobody == tpc' = tpc
(* pthread_cond_signal()                                                   *)
Signal == tpc' = IF tpc = "wait" THEN "check" ELSE tpc

(* Mutant of ShutDown: nothing is done before close().                     *)
ShutDownNothing(d) == conn
(* shutdown(): the connection is dead, send() on it returns.               *)
ShutDown(d) == IF d = NoFd THEN conn ELSE [conn EXCEPT ![fdconn[d]] = "dead"]

(* Mutant of CloseFd: the descriptor is not closed.                        *)
CloseFdNot(d) == fdconn
(* close(): the number is free.                                            *)
CloseFd(d) == IF d = NoFd THEN fdconn ELSE [fdconn EXCEPT ![d] = NoConn]

-----------------------------------------------------------------------------
(* The producer: proto_send() *)

(* The call returns; `broken' is what the caller knows of the stream.      *)
Return(lost) ==
    /\ ppc' = "idle"
    /\ msg' = NoMsg
    /\ own' = FALSE
    /\ broken' = (broken \/ (lost /\ ~ own))

(* With a client the message goes to _proto_send(); a tcpclient that has   *)
(* lost its connection answers an error.                                   *)
Send(m) ==
    /\ ppc = "idle" /\ running
    /\ IF clientfd # NoFd
       THEN ppc' = "send" /\ msg' = m /\ own' = FALSE /\ UNCHANGED broken
       ELSE ~ Server /\ Return(TRUE)
    /\ UNCHANGED <<ringVars, cfd, dropping, sendVars, netVars, shareVars>>

(* proto_connect_server(), from proto_send() without a client: the message *)
(* is not sent.  In "http" mode the response is.                           *)
Accept(c, d) ==
    /\ ppc = "idle" /\ running /\ Server /\ clientfd = NoFd
    /\ conn[c] = "pending" /\ fdconn[d] = NoConn
    /\ conn' = [conn EXCEPT ![c] = "open"]
    /\ fdconn' = [fdconn EXCEPT ![d] = c]
    /\ clientfd' = d
    /\ error' = FALSE
    /\ broken' = TRUE
    /\ IF http
       THEN ppc' = "send" /\ msg' = HttpResponse /\ own' = TRUE
       ELSE UNCHANGED <<ppc, msg, own>>
    /\ UNCHANGED <<ringVars, cfd, dropping, sendVars, running>>

(* No client is pending: the message is lost, the call returns 0.          *)
AcceptNone ==
    /\ ppc = "idle" /\ running /\ Server /\ clientfd = NoFd
    /\ \A c \in Conns : conn[c] # "pending"
    /\ Return(TRUE)
    /\ UNCHANGED <<ringVars, cfd, dropping, sendVars, netVars, shareVars>>

(* _proto_send(): an error left by the sender ends the connection, unless  *)
(* the message is the HTTP response.                                       *)
SendStarts ==
    /\ ppc = "send"
    /\ IF error
       THEN IF own THEN Return(TRUE)
                   ELSE ppc' = "close" /\ UNCHANGED <<msg, own, broken>>
       ELSE /\ ppc' = IF state[out] # "queued" THEN "gate"
                      ELSE IF len[out] + msg.len > Mtu THEN "overflow" ELSE "copy"
            /\ UNCHANGED <<msg, own, broken>>
    /\ UNCHANGED <<ringVars, cfd, dropping, sendVars, netVars, shareVars>>

(* The critical section of _proto_push(): the buffer is the sender's.      *)
PushBuffer ==
    /\ state' = [state EXCEPT ![out] = "ready"]
    /\ Signal
    /\ UNCHANGED <<len, data, out, in, msg, own, broken, cfd, dropping,
                   sfd, sconn, sok, netVars, shareVars>>

(* The message does not fit: what was gathered is pushed first.            *)
Overflow == ppc = "overflow" /\ PushBuffer /\ ppc' = "overflowed"

Overflowed ==
    /\ ppc = "overflowed"
    /\ out' = After(out)
    /\ ppc' = "gate"
    /\ UNCHANGED <<state, len, data, in, msg, own, broken, cfd, dropping,
                   sendVars, netVars, shareVars>>

(* Mutant of Skipped: no message is.                                       *)
SkippedNever == FALSE
Skipped == dropping /\ ~ msg.started

(* After a loss only the start of a frame gets a buffer.                   *)
Gate ==
    /\ ppc = "gate"
    /\ IF Skipped
       THEN Return(TRUE)
       ELSE ppc' = "reserve" /\ UNCHANGED <<msg, own, broken>>
    /\ UNCHANGED <<ringVars, cfd, dropping, sendVars, netVars, shareVars>>

(* Mutant of Refused: the sender may still have the buffer.                *)
RefusedBySize == msg.len > Mtu
Refused == state[out] # "dequeued" \/ msg.len > Mtu

(* The buffer is taken when the sender has given it back.                  *)
Reserve ==
    /\ ppc = "reserve"
    /\ IF Refused
       THEN /\ dropping' = TRUE
            /\ Return(TRUE)
            /\ UNCHANGED <<state, len, data>>
       ELSE /\ dropping' = FALSE
            /\ ppc' = "copy"
            /\ state' = [state EXCEPT ![out] = "queued"]
            /\ len' = [len EXCEPT ![out] = 0]
            /\ data' = [data EXCEPT ![out] = << >>]
            /\ UNCHANGED <<msg, own, broken>>
    /\ UNCHANGED <<out, in, cfd, sendVars, netVars, shareVars>>

(* memcpy(); the last message of a chunk pushes it.                        *)
Copy ==
    /\ ppc = "copy"
    /\ len' = [len EXCEPT ![out] = @ + msg.len]
    /\ data' = [data EXCEPT ![out] = Append(@, Tag(msg))]
    /\ broken' = (broken /\ (own \/ ~ msg.started))
    /\ IF msg.more
       THEN ppc' = "idle" /\ msg' = NoMsg /\ own' = FALSE
       ELSE ppc' = "push" /\ UNCHANGED <<msg, own>>
    /\ UNCHANGED <<state, out, in, cfd, dropping, sendVars, netVars, shareVars>>

Push == ppc = "push" /\ PushBuffer /\ ppc' = "pushed"

Pushed ==
    /\ ppc = "pushed"
    /\ out' = After(out)
    /\ Return(FALSE)
    /\ UNCHANGED <<state, len, data, in, cfd, dropping, sendVars, netVars, shareVars>>

-----------------------------------------------------------------------------
(* The producer: proto_close() and proto_destroy() *)

(* Called by the owner of the transport.                                   *)
Close ==
    /\ ppc = "idle" /\ running
    /\ ppc' = "close"
    /\ UNCHANGED <<ringVars, msg, own, broken, cfd, dropping, sendVars, netVars,
                   shareVars>>

(* The critical section of proto_close().                                  *)
CloseClient ==
    /\ ppc = "close"
    /\ ppc' = "shut"
    /\ cfd' = clientfd
    /\ clientfd' = NoFd
    /\ error' = FALSE
    /\ UNCHANGED <<ringVars, msg, own, broken, dropping, sendVars, netVars, running>>

(* shutdown() wakes the sender, close() frees the number; the chunk that   *)
(* was being gathered is given up.                                         *)
CloseShut ==
    /\ ppc = "shut"
    /\ conn' = ShutDown(cfd)
    /\ fdconn' = CloseFd(cfd)
    /\ IF state[out] = "queued"
       THEN /\ state' = [state EXCEPT ![out] = "dequeued"]
            /\ len' = [len EXCEPT ![out] = 0]
            /\ data' = [data EXCEPT ![out] = << >>]
       ELSE UNCHANGED <<state, len, data>>
    /\ dropping' = TRUE
    /\ cfd' = NoFd
    /\ Return(TRUE)
    /\ UNCHANGED <<out, in, sendVars, shareVars>>

(* proto_destroy(): stop the thread, ...                                   *)
Destroy ==
    /\ ppc = "idle" /\ running
    /\ ppc' = "destroy"
    /\ running' = FALSE
    /\ Signal
    /\ UNCHANGED <<ringVars, msg, own, broken, cfd, dropping, sfd, sconn, sok,
                   netVars, clientfd, error>>

(* ... wake it if it is blocked in send(), ...                             *)
DestroyShut ==
    /\ ppc = "destroy"
    /\ ppc' = "join"
    /\ conn' = ShutDown(clientfd)
    /\ UNCHANGED <<ringVars, msg, own, broken, cfd, dropping, sendVars, fdconn,
                   shareVars>>

(* ... wait for it and free everything.                                    *)
Join ==
    /\ ppc = "join" /\ tpc = "exit"
    /\ ppc' = "end"
    /\ fdconn' = CloseFd(clientfd)
    /\ UNCHANGED <<ringVars, msg, own, broken, cfd, dropping, sendVars, conn,
                   shareVars>>

-----------------------------------------------------------------------------
(* The sender: _proto_send_thread() *)

(* Mutant of Release: the sender stays on the buffer.                      *)
ReleaseInPlace ==
    /\ state' = [state EXCEPT ![in] = "dequeued"]
    /\ len' = [len EXCEPT ![in] = 0]
    /\ data' = [data EXCEPT ![in] = << >>]
    /\ UNCHANGED <<in, out>>
(* The buffer goes back to the producer.                                   *)
Release ==
    /\ state' = [state EXCEPT ![in] = "dequeued"]
    /\ len' = [len EXCEPT ![in] = 0]
    /\ data' = [data EXCEPT ![in] = << >>]
    /\ in' = After(in)
    /\ UNCHANGED out

SendNow == running /\ state[in] = "ready" /\ clientfd # NoFd /\ ~ error

(* With the mutex: the head of the loop.  Without a client, or after an    *)
(* error, chunks are thrown away.                                          *)
ThreadExits ==
    /\ tpc = "check" /\ ~ running
    /\ tpc' = "exit"
    /\ UNCHANGED <<ringVars, prodVars, sfd, sconn, sok, netVars, shareVars>>

ThreadWaits ==
    /\ tpc = "check" /\ running /\ state[in] # "ready"
    /\ tpc' = "wait"
    /\ UNCHANGED <<ringVars, prodVars, sfd, sconn, sok, netVars, shareVars>>

ThreadTakes ==
    /\ tpc = "check" /\ SendNow
    /\ tpc' = "send"
    /\ sfd' = clientfd
    /\ UNCHANGED <<ringVars, prodVars, sconn, sok, netVars, shareVars>>

ThreadDiscards ==
    /\ tpc = "check" /\ running /\ state[in] = "ready" /\ ~ SendNow
    /\ Release
    /\ UNCHANGED <<prodVars, sendVars, netVars, shareVars>>

(* pthread_cond_wait() may return for no reason.                           *)
SpuriousWakeup ==
    /\ tpc = "wait"
    /\ tpc' = "check"
    /\ UNCHANGED <<ringVars, prodVars, sfd, sconn, sok, netVars, shareVars>>

(* Without the mutex: send() finds the connection behind the number.       *)
ThreadSends ==
    /\ tpc = "send"
    /\ IF fdconn[sfd] = NoConn
       THEN tpc' = "record" /\ sok' = FALSE /\ UNCHANGED sconn
       ELSE tpc' = "insend" /\ sconn' = fdconn[sfd] /\ UNCHANGED sok
    /\ UNCHANGED <<ringVars, prodVars, sfd, netVars, shareVars>>

(* send() returns, with the whole chunk or an error.                       *)
SendReturns ==
    /\ tpc = "insend"
    /\ conn[sconn] \in {"open", "dead"}
    /\ sok' = (conn[sconn] = "open")
    /\ tpc' = "record"
    /\ UNCHANGED <<ringVars, prodVars, sfd, sconn, netVars, shareVars>>

(* With the mutex: an error is recorded if the descriptor is still the     *)
(* client's.                                                               *)
ThreadRecords ==
    /\ tpc = "record"
    /\ error' = (error \/ (~ sok /\ clientfd = sfd))
    /\ Release
    /\ tpc' = "check"
    /\ sfd' = NoFd /\ sconn' = NoConn /\ sok' = TRUE
    /\ UNCHANGED <<prodVars, netVars, clientfd, running>>

-----------------------------------------------------------------------------
(* The clients *)

ClientConnects(c) ==
    /\ Server /\ conn[c] = "new" /\ running
    /\ conn' = [conn EXCEPT ![c] = "pending"]
    /\ UNCHANGED <<ringVars, prodVars, sendVars, fdconn, shareVars>>

(* The client reads nothing more, and send() blocks; or it reads again.    *)
ClientStalls(c) ==
    /\ conn[c] = "open"
    /\ conn' = [conn EXCEPT ![c] = "stalled"]
    /\ UNCHANGED <<ringVars, prodVars, sendVars, fdconn, shareVars>>

ClientReads(c) ==
    /\ conn[c] = "stalled"
    /\ conn' = [conn EXCEPT ![c] = "open"]
    /\ UNCHANGED <<ringVars, prodVars, sendVars, fdconn, shareVars>>

ClientLeaves(c) ==
    /\ conn[c] \in {"open", "stalled"}
    /\ conn' = [conn EXCEPT ![c] = "dead"]
    /\ UNCHANGED <<ringVars, prodVars, sendVars, fdconn, shareVars>>

Calls ==
    /\ \/ \E m \in Messages : Send(m)
       \/ \E c \in Conns, d \in Fds : Accept(c, d)
       \/ AcceptNone \/ Close \/ Destroy
    /\ UNCHANGED http

(* The steps of a call that has begun.                                     *)
Producer ==
    /\ \/ SendStarts \/ Overflow \/ Overflowed \/ Gate \/ Reserve \/ Copy
       \/ Push \/ Pushed \/ CloseClient \/ CloseShut \/ DestroyShut \/ Join
    /\ UNCHANGED http

Sender ==
    /\ \/ ThreadExits \/ ThreadWaits \/ ThreadTakes \/ ThreadDiscards
       \/ ThreadSends \/ SendReturns \/ ThreadRecords
    /\ UNCHANGED http

Clients ==
    \E c \in Conns : \/ ClientConnects(c) \/ ClientStalls(c)
                    \/ ClientReads(c) \/ ClientLeaves(c)

Next ==
    \/ Calls \/ Producer \/ Sender
    \/ (SpuriousWakeup \/ Clients) /\ UNCHANGED http

Spec == Init /\ [][Next]_vars

(* Both threads are scheduled; nobody has to call, connect or read.        *)
FairSpec == Spec /\ WF_vars(Producer) /\ WF_vars(Sender)

-----------------------------------------------------------------------------
(* Properties *)

(* Every variable has its type.                                            *)
TypeOK ==
    /\ state \in [Buffers -> {"dequeued", "queued", "ready"}]
    /\ len \in [Buffers -> 0 .. Mtu]
    /\ data \in [Buffers -> Seq(BOOLEAN)]
    /\ out \in Buffers /\ in \in Buffers
    /\ clientfd \in Fds \cup {NoFd} /\ cfd \in Fds \cup {NoFd}
    /\ error \in BOOLEAN /\ running \in BOOLEAN
    /\ ppc \in {"idle", "send", "gate", "overflow", "overflowed", "reserve",
                "copy", "push", "pushed", "close", "shut", "destroy", "join", "end"}
    /\ msg \in Messages \cup {NoMsg, HttpResponse}
    /\ own \in BOOLEAN /\ dropping \in BOOLEAN /\ broken \in BOOLEAN
    /\ tpc \in {"check", "wait", "send", "insend", "record", "exit"}
    /\ sfd \in Fds \cup {NoFd} /\ sconn \in Conns \cup {NoConn}
    /\ sok \in BOOLEAN
    /\ conn \in [Conns -> {"new", "pending", "open", "stalled", "dead"}]
    /\ fdconn \in [Fds -> Conns \cup {NoConn}]

(* proto->out as the ring sees it: between the critical section of a push  *)
(* and `proto->out = buff->next' the buffer is already the sender's.       *)
NextOut == IF ppc \in {"overflowed", "pushed"} THEN After(out) ELSE out

(* The buffers that wait for the sender are the ones from `in' up to       *)
(* `out', none missing: no chunk is overtaken, skipped or sent twice.  The *)
(* only buffer being filled is the producer's.                             *)
RingExact ==
    /\ \E n \in 0 .. NBuffers :
          /\ \A k \in 0 .. NBuffers - 1 :
                state[(in + k) % NBuffers] = "ready" <=> k < n
          /\ NextOut = (in + n) % NBuffers
    /\ \A b \in Buffers : state[b] = "queued" => b = out

(* The producer never writes the chunk that send() is reading without the  *)
(* mutex.                                                                  *)
SenderOwnsChunk ==
    tpc \in {"send", "insend", "record"} =>
        state[in] = "ready" /\ ~ (ppc = "copy" /\ out = in)

(* Every descriptor that accept() gave is the client's or is being closed: *)
(* none is leaked when an error, a close and a new client meet.            *)
NoFdLeak ==
    \A d \in Fds :
        fdconn[d] # NoConn => \/ d = clientfd
                              \/ ppc = "shut" /\ d = cfd

(* After a message was refused or a connection closed, the first message   *)
(* that enters a buffer starts a frame: the stream never resumes in the    *)
(* middle of one, whatever the sender has freed meanwhile.  (In "http"     *)
(* mode the response counts as a start, and the stream does not.)          *)
ResumesOnStart ==
    [][ppc = "copy" /\ ppc' # "copy" /\ ~ own /\ broken /\ ~ http
            => msg.started]_vars

(* A chunk leaves the ring: it is sent or thrown away, as long as the      *)
(* client reads.                                                           *)
ChunksLeave ==
    \A b \in Buffers :
        state[b] = "ready" ~> \/ state[b] # "ready"
                              \/ ~ running
                              \/ \E c \in Conns : conn[c] = "stalled"

(* proto_destroy() ends, even when the thread is blocked in send() to a    *)
(* client that reads nothing ("wake up the thread blocked into send()").   *)
DestroyEnds == ~ running ~> ppc = "end"

(* The ring implements the queue of chunks.                                *)
Waiting == Cardinality({ b \in Buffers : state[b] = "ready" })
ChunkView == IF state[out] = "queued" THEN data[out] ELSE << >>
QueueView == [n \in 1 .. Waiting |-> data[(in + n - 1) % NBuffers]]

Chunks == INSTANCE ChunkQueue WITH
            Messages <- BOOLEAN, Capacity <- NBuffers,
            chunk <- ChunkView, queue <- QueueView

ImplementsQueue == Chunks!Spec
=============================================================================
