----------------------------- MODULE ChunkQueue -----------------------------
(***************************************************************************)
(* What the tcp transport promises to the thread that feeds it: messages   *)
(* are gathered in chunks, a chunk is transmitted (or given up) only when  *)
(* it is complete, and chunks leave in the order in which they were        *)
(* completed, each once, at most Capacity of them waiting.  Nothing is     *)
(* said of threads, locks, buffers or sockets.                             *)
(***************************************************************************)
EXTENDS Naturals, Sequences

CONSTANTS Messages, Capacity

VARIABLES
    chunk,   \* the messages of the chunk under construction
    queue    \* the complete chunks, oldest first

Init == chunk = << >> /\ queue = << >>

(* One message more in the chunk under construction.                       *)
Add(m) == chunk' = Append(chunk, m) /\ UNCHANGED queue

(* The chunk is complete.                                                  *)
Commit ==
    /\ chunk # << >>
    /\ Len(queue) < Capacity
    /\ queue' = Append(queue, chunk)
    /\ chunk' = << >>

(* The chunk is given up before it is complete.                            *)
Abandon == chunk' = << >> /\ UNCHANGED queue

(* The oldest chunk has been transmitted, or given up.                     *)
Remove == queue # << >> /\ queue' = Tail(queue) /\ UNCHANGED chunk

Next == (\E m \in Messages : Add(m)) \/ Commit \/ Abandon \/ Remove

Spec == Init /\ [][Next]_<<chunk, queue>>
=============================================================================
