----------------------------- MODULE SettingServer -----------------------------
(***************************************************************************)
(* server.c with the commands of fastsetting.c, one server in each process   *)
(* that runs one, and client.c on the other side of the sockets.  A socket   *)
(* is a stream: what is sent in two calls may be received in one.            *)
(***************************************************************************)
EXTENDS Integers, Sequences

CONSTANTS
    Servers,    \* the processes that may run a server
    Clients,    \* the connections
    Nil,        \* NULL, and no process
    Requests,   \* the commands: "setting", "silent", "reset"
    NFiles      \* the settings files given with -J

ASSUME ServerAssumption == /\ Nil \notin Servers \cup Clients
                           /\ NFiles \in Nat

VARIABLES
    spath,      \* the process whose socket the path names
    state,      \* server->state of each process: "none", "running", "stopping"
    spc,        \* its thread: "select", "accept", "walk"
    rfds,       \* what the turn has still to look at of the set that select() gave,
                \* with Nil for the server's socket
    head,       \* server->clients
    walk,       \* the client that the loop looks at next
    file,       \* the iterator of _settings
    files,      \* what is in the settings files: "objects", "silent", "bad"
    backlog,    \* the connections that wait for accept(), in their order
    next, prev, \* of each client_t
    conn,       \* each connection: "free", "pending", "open", "closed" by the server
    owner,      \* the process at its other end
    left,       \* the client has closed it
    asked,      \* the request in the socket, or "none"
    answered,   \* whether answers are in the socket
    waits       \* the client is in client_wait() for that request, "no" if none

serverVars == <<spath, state, spc, rfds, head, walk, file, next, prev>>
connVars == <<conn, owner, backlog, left, asked, answered, waits>>
controlVars == <<serverVars, connVars, files>>

ControlInit ==
    /\ spath = Nil
    /\ state = [p \in Servers |-> "none"] /\ spc = [p \in Servers |-> "select"]
    /\ rfds = [p \in Servers |-> {}]
    /\ head = [p \in Servers |-> Nil] /\ walk = [p \in Servers |-> Nil]
    /\ backlog = [p \in Servers |-> << >>]
    /\ file = [p \in Servers |-> 0] /\ files \in [1 .. NFiles -> {"objects", "silent", "bad"}]
    /\ next = [c \in Clients |-> Nil] /\ prev = [c \in Clients |-> Nil]
    /\ conn = [c \in Clients |-> "free"] /\ owner = [c \in Clients |-> Nil]
    /\ left = [c \in Clients |-> FALSE]
    /\ asked = [c \in Clients |-> "none"] /\ answered = [c \in Clients |-> FALSE]
    /\ waits = [c \in Clients |-> "no"]

At(p, s) == spc' = [spc EXCEPT ![p] = s]

(* The clients in the list of p: those that are met from its head on.         *)
FollowsFrom(p, S) ==
    /\ head[p] \in S \cup {Nil}
    /\ \A c \in S : next[c] \in S \cup {Nil}
InList(p) == { c \in Clients : \A S \in SUBSET Clients : FollowsFrom(p, S) => c \in S }

-----------------------------------------------------------------------------
(* _loadsetting() answers once for each object that it finds.  There is none in  *)
(* a "silent" command or file: no data, neither an object nor an array, or an     *)
(* array without objects.                                                        *)

(* _reset(): the files after the iterator, up to the first that cannot be read,   *)
(* each one a setting.                                                          *)
Bad(i) == files[i] = "bad"
FirstBad(f) == CHOOSE i \in f + 1 .. NFiles + 1 :
                   /\ i <= NFiles => Bad(i)
                   /\ \A j \in f + 1 .. i - 1 : ~ Bad(j)
AfterReset(f) == IF FirstBad(f) > NFiles THEN 0 ELSE FirstBad(f)
(* Mutant of ResetAnswers: without the client, like the first time.              *)
ResetQuietly(f) == FALSE
ResetAnswers(f) == \E i \in f + 1 .. FirstBad(f) - 1 : files[i] = "objects"

(* server_create() and the loop of server_run(): the path is taken over from   *)
(* whoever has it.  main() has applied the settings files once before.         *)
ServerCreate(p) ==
    /\ state[p] = "none"
    /\ spath' = p
    /\ state' = [state EXCEPT ![p] = "running"] /\ At(p, "select")
    /\ head' = [head EXCEPT ![p] = Nil]
    /\ file' = [file EXCEPT ![p] = AfterReset(0)]
    /\ UNCHANGED <<rfds, walk, next, prev, connVars, files>>

Readable(c) == asked[c] # "none" \/ left[c]
Watched(p) == { c \in InList(p) : Readable(c) }
              \cup (IF backlog[p] # << >> THEN {Nil} ELSE {})
Select(p) ==
    /\ state[p] = "running" /\ spc[p] = "select"
    /\ Watched(p) # {}
    /\ rfds' = [rfds EXCEPT ![p] = Watched(p)]
    /\ At(p, "accept")
    /\ UNCHANGED <<spath, state, head, walk, file, next, prev, connVars, files>>

(* _server_connect(): the new client is the first of the list.                 *)
(* Mutant of LinkedBack: the former first one is not told.                     *)
NotLinkedBack(p, c) == [prev EXCEPT ![c] = Nil]
LinkedBack(p, c) ==
    [d \in Clients |-> IF d = c THEN Nil ELSE IF d = head[p] THEN c ELSE prev[d]]
Accept(p) ==
    /\ spc[p] = "accept" /\ Nil \in rfds[p]
    /\ LET c == Head(backlog[p]) IN
       /\ conn' = [conn EXCEPT ![c] = "open"]
       /\ next' = [next EXCEPT ![c] = head[p]]
       /\ prev' = LinkedBack(p, c)
       /\ head' = [head EXCEPT ![p] = c]
       /\ walk' = [walk EXCEPT ![p] = c]
    /\ backlog' = [backlog EXCEPT ![p] = Tail(@)]
    /\ At(p, "walk") /\ rfds' = [rfds EXCEPT ![p] = @ \ {Nil}]
    /\ UNCHANGED <<spath, state, file, owner, left, asked, answered, waits, files>>

(* accept() fails (too many files): the server will stop after this turn.      *)
AcceptFails(p) ==
    /\ spc[p] = "accept" /\ Nil \in rfds[p]
    /\ state' = [state EXCEPT ![p] = "stopping"]
    /\ walk' = [walk EXCEPT ![p] = head[p]]
    /\ At(p, "walk") /\ rfds' = [rfds EXCEPT ![p] = @ \ {Nil}]
    /\ UNCHANGED <<spath, head, file, next, prev, connVars, files>>
AcceptNone(p) ==
    /\ spc[p] = "accept" /\ Nil \notin rfds[p]
    /\ walk' = [walk EXCEPT ![p] = head[p]]
    /\ At(p, "walk")
    /\ UNCHANGED <<spath, state, rfds, head, file, next, prev, connVars, files>>

(* The walk over the list; `next' is read before the message is handled.       *)
WalkEnd(p) ==
    /\ spc[p] = "walk" /\ walk[p] = Nil
    /\ At(p, "select") /\ rfds' = [rfds EXCEPT ![p] = {}]
    /\ UNCHANGED <<spath, state, head, walk, file, next, prev, connVars, files>>
WalkOver(p) ==
    /\ spc[p] = "walk" /\ walk[p] # Nil /\ walk[p] \notin rfds[p]
    /\ walk' = [walk EXCEPT ![p] = next[walk[p]]]
    /\ UNCHANGED <<spath, state, spc, rfds, head, file, next, prev, connVars, files>>

(* client_receive() takes all that is in the socket: several requests at once   *)
(* are no JSON, and have the one answer of a setting.                           *)
HasAnswer(p, request) ==
    /\ request # "silent"
    /\ request = "reset" => ResetAnswers(file[p])
Message(p) ==
    LET c == walk[p] IN
    /\ spc[p] = "walk" /\ c # Nil /\ c \in rfds[p] /\ asked[c] # "none"
    /\ ~ left[c] \/ ~ HasAnswer(p, asked[c])
    /\ answered' = [answered EXCEPT ![c] = @ \/ HasAnswer(p, asked[c])]
    /\ file' = IF asked[c] = "reset"
               THEN [file EXCEPT ![p] = AfterReset(@)] ELSE file
    /\ asked' = [asked EXCEPT ![c] = "none"]
    /\ walk' = [walk EXCEPT ![p] = next[c]] /\ rfds' = [rfds EXCEPT ![p] = @ \ {c}]
    /\ UNCHANGED <<spath, state, spc, head, next, prev, conn, owner, backlog, left, waits, files>>

(* An answer to a client that has left: send() without MSG_NOSIGNAL.            *)
SigPipe(p) ==
    LET c == walk[p] IN
    /\ spc[p] = "walk" /\ c # Nil /\ c \in rfds[p] /\ asked[c] # "none"
    /\ left[c] /\ HasAnswer(p, asked[c])

(* recvmsg() answers 0: the client is taken out of the list, which is linked    *)
(* both ways, and destroyed.                                                    *)
ClientGone(p) ==
    LET c == walk[p] IN
    /\ spc[p] = "walk" /\ c # Nil /\ c \in rfds[p] /\ asked[c] = "none" /\ left[c]
    /\ head' = [head EXCEPT ![p] = IF @ = c THEN next[c] ELSE @]
    /\ prev' = [d \in Clients |-> IF d = c THEN Nil ELSE IF d = next[c] THEN prev[c] ELSE prev[d]]
    /\ next' = [d \in Clients |-> IF d = c THEN Nil ELSE IF d = prev[c] THEN next[c] ELSE next[d]]
    /\ walk' = [walk EXCEPT ![p] = next[c]] /\ rfds' = [rfds EXCEPT ![p] = @ \ {c}]
    /\ conn' = [conn EXCEPT ![c] = "free"] /\ owner' = [owner EXCEPT ![c] = Nil]
    /\ left' = [left EXCEPT ![c] = FALSE]
    /\ answered' = [answered EXCEPT ![c] = FALSE] /\ waits' = [waits EXCEPT ![c] = "no"]
    /\ UNCHANGED <<spath, state, spc, file, backlog, asked, files>>

Serve(p) ==
    \/ Select(p) \/ Accept(p) \/ AcceptFails(p) \/ AcceptNone(p)
    \/ WalkEnd(p) \/ WalkOver(p) \/ Message(p) \/ ClientGone(p)

(* A signal interrupts select(), and nothing else.                              *)
Interrupted(p) == IF state[p] = "running" /\ spc[p] = "select"
                  THEN [state EXCEPT ![p] = "stopping"] ELSE state
Served(p) == state[p] = "stopping" /\ spc[p] = "select"

(* The sockets of p are closed, by server_destroy() or the kernel; a client     *)
(* that waits reads the end of the stream again and again.                      *)
Closed(p) ==
    /\ state' = [state EXCEPT ![p] = "none"] /\ At(p, "select")
    /\ rfds' = [rfds EXCEPT ![p] = {}]
    /\ head' = [head EXCEPT ![p] = Nil] /\ walk' = [walk EXCEPT ![p] = Nil]
    /\ LET mine == { c \in Clients : owner[c] = p } IN
       /\ next' = [c \in Clients |-> IF c \in mine THEN Nil ELSE next[c]]
       /\ prev' = [c \in Clients |-> IF c \in mine THEN Nil ELSE prev[c]]
       /\ conn' = [c \in Clients |-> IF c \notin mine THEN conn[c]
                                     ELSE IF left[c] THEN "free" ELSE "closed"]
       /\ owner' = [c \in Clients |-> IF c \in mine THEN Nil ELSE owner[c]]
       /\ left' = [c \in Clients |-> IF c \in mine THEN FALSE ELSE left[c]]
       /\ asked' = [c \in Clients |-> IF c \in mine THEN "none" ELSE asked[c]]
       /\ waits' = [c \in Clients |-> IF c \in mine /\ left[c] THEN "no" ELSE waits[c]]
       /\ answered' = [c \in Clients |-> IF c \in mine /\ left[c] THEN FALSE ELSE answered[c]]
    /\ backlog' = [backlog EXCEPT ![p] = << >>]
    /\ UNCHANGED <<file, files>>
ServerDestroy(p) == Closed(p) /\ spath' = Nil
ServerKilled(p) == Closed(p) /\ UNCHANGED spath

-----------------------------------------------------------------------------
(* The clients: client_create() reaches the server whose socket has the path.   *)
ClientCreate(c) ==
    /\ conn[c] = "free" /\ spath # Nil /\ state[spath] # "none"
    /\ conn' = [conn EXCEPT ![c] = "pending"]
    /\ owner' = [owner EXCEPT ![c] = spath]
    /\ backlog' = [backlog EXCEPT ![spath] = Append(@, c)]
    /\ UNCHANGED <<serverVars, left, asked, answered, waits, files>>

(* client_send(), then client_wait() for client_request().                      *)
ClientSend(c, request, wait) ==
    /\ conn[c] \in {"pending", "open"} /\ ~ left[c] /\ waits[c] = "no"
    /\ asked' = [asked EXCEPT ![c] = IF @ = "none" THEN request ELSE "setting"]
    /\ waits' = [waits EXCEPT ![c] = IF wait THEN request ELSE "no"]
    /\ UNCHANGED <<serverVars, conn, owner, backlog, left, answered, files>>
ClientRequest(c) == \E r \in Requests : ClientSend(c, r, TRUE)
ClientTells(c) == \E r \in Requests : ClientSend(c, r, FALSE)

(* client_receive() in client_wait().                                           *)
ClientReceive(c) ==
    /\ waits[c] # "no" /\ answered[c]
    /\ answered' = [answered EXCEPT ![c] = FALSE]
    /\ waits' = [waits EXCEPT ![c] = "no"]
    /\ UNCHANGED <<serverVars, conn, owner, backlog, left, asked, files>>

(* client_destroy(), or the end of the client.                                  *)
ClientDestroy(c) ==
    /\ conn[c] \in {"pending", "open", "closed"} /\ ~ left[c]
    /\ IF conn[c] = "closed"
       THEN /\ conn' = [conn EXCEPT ![c] = "free"] /\ UNCHANGED <<left, asked>>
       ELSE /\ left' = [left EXCEPT ![c] = TRUE] /\ UNCHANGED <<conn, asked>>
    /\ answered' = [answered EXCEPT ![c] = FALSE]
    /\ waits' = [waits EXCEPT ![c] = "no"]
    /\ UNCHANGED <<serverVars, owner, backlog, files>>

ClientStep(c) == ClientCreate(c) \/ ClientRequest(c) \/ ClientTells(c)
                 \/ ClientReceive(c) \/ ClientDestroy(c)

-----------------------------------------------------------------------------
(* Whatever the clients do, the list of a server is that of its open sockets,   *)
(* each once, and its links agree in both directions; and its only thread never *)
(* reads from a socket where nothing is, which would block it.                  *)
ServerSound ==
    \A p \in Servers :
        /\ spc[p] = "walk" /\ walk[p] # Nil /\ walk[p] \in rfds[p] => Readable(walk[p])
        /\ InList(p) = { c \in Clients : conn[c] = "open" /\ owner[c] = p }
        /\ \A c \in InList(p) : prev[c] = Nil <=> head[p] = c
        /\ \A c, d \in InList(p) : next[c] = d <=> prev[d] = c

(* A client that waits for the answer of a command has one, or its server is    *)
(* gone, whatever the others send, also when its requests are read together.    *)
(* Of the commands that the code answers: a setting in which there is no object  *)
(* has no answer at all (fastsetting.c:82-105), nor a reset that finds none      *)
(* before the first file that cannot be read, and those clients wait for ever    *)
(* (client.c:101).                                                              *)
Promised(request) ==
    \/ request = "setting"
    \/ request = "reset" /\ (\A i \in 1 .. NFiles : ~ Bad(i))
                         /\ \E i \in 1 .. NFiles : files[i] = "objects"
RequestsAnswered ==
    \A c \in Clients :
        (waits[c] # "no" /\ Promised(waits[c])) ~> (waits[c] = "no" \/ conn[c] = "closed")
===============================================================================
