-------------------------------- MODULE Hailo --------------------------------
(***************************************************************************)
(* The accelerator src/shailo.c.  Its main side submits the frames of the    *)
(* device upstream to HailoRT; a thread of the library tells each write that *)
(* is completed to _shailo_write_cb(), which runs beside the main loop.  The *)
(* dup side reads one result for each completed write.                       *)
(***************************************************************************)
EXTENDS FrameBuffers, FiniteSets

CONSTANTS
    MaxFlying,   \* what the queue of the input stream takes
    MaxResults,  \* what its output stream keeps: the accelerator waits then
    MaxFailures  \* bounds the writes that fail
ASSUME MaxFlyingAssumption == MaxFlying \in Nat \ {0}

VARIABLES
    hstate,    \* main side: the state of each buffer
    hcur,      \* main side: curbuffer
    hevent,    \* what completion_fd counts
    hstatus,   \* async_status, of the last completion only
    hpending,  \* dup side: pending
    dcur,      \* dup side: curbuffer
    flying,    \* the writes that the library has
    results,   \* the results that wait in the output stream
    failures,  \* the writes that failed
    cb         \* the callback: its step, its buffer and its status

hailoVars == <<hstate, hcur, hevent, hstatus, hpending, dcur, flying, results, failures, cb>>
mainSide == <<hstate, hcur, hevent>>

CbIdle == [step |-> "idle", buffer |-> NoBuffer, status |-> "ok"]

(* shailo_start() on both sides.                                             *)
HailoInit ==
    /\ hstate = [b \in Buffers |-> "invalid"] /\ hcur = 0 /\ hevent = 0 /\ hstatus = "ok"
    /\ hpending = 0 /\ dcur = 0
    /\ flying = {} /\ results = 0 /\ failures = 0 /\ cb = CbIdle

-----------------------------------------------------------------------------
(* shailo_queue() on the main side: the state is set before the write, and    *)
(* stays when the queue of the stream is full and the frame is refused.       *)
HailoQueue(b) ==
    /\ Cardinality(flying) < MaxFlying
    /\ flying' = flying \cup {b}
    /\ hstate' = [hstate EXCEPT ![b] = "queued"]
    /\ UNCHANGED <<hcur, hevent, hstatus, hpending, dcur, results, failures, cb>>
HailoRefuse(b) ==
    /\ Cardinality(flying) >= MaxFlying
    /\ hstate' = [hstate EXCEPT ![b] = "queued"]
    /\ UNCHANGED <<hcur, hevent, hstatus, hpending, dcur, flying, results, failures, cb>>

(* The thread of the library: a write ends, with a result or without, then    *)
(* the callback stores the status, the state, the count and the event.        *)
Completes ==
    \E b \in flying, s \in {"ok", "failed"} :
        /\ cb = CbIdle /\ results < MaxResults
        /\ s = "failed" => failures < MaxFailures
        /\ cb' = [step |-> "state", buffer |-> b, status |-> s]
        /\ flying' = flying \ {b}
        /\ hstatus' = s
        /\ results' = IF s = "ok" THEN results + 1 ELSE results
        /\ failures' = IF s = "ok" THEN failures ELSE failures + 1
        /\ UNCHANGED <<hstate, hcur, hevent, hpending, dcur>>
CallbackReady ==
    /\ cb.step = "state"
    /\ hstate' = [hstate EXCEPT ![cb.buffer] = "ready"]
    /\ cb' = [cb EXCEPT !.step = "pending"]
    /\ UNCHANGED <<hcur, hevent, hstatus, hpending, dcur, flying, results, failures>>
CallbackCounts ==
    /\ cb.step = "pending"
    /\ hpending' = hpending + 1
    /\ cb' = [cb EXCEPT !.step = "event"]
    /\ UNCHANGED <<mainSide, hstatus, dcur, flying, results, failures>>
CallbackTells ==
    /\ cb.step = "event"
    /\ hevent' = hevent + 1
    /\ cb' = CbIdle
    /\ UNCHANGED <<hstate, hcur, hstatus, hpending, dcur, flying, results, failures>>
Library == Completes \/ CallbackReady \/ CallbackCounts \/ CallbackTells

(* shailo_dequeue() on the main side: the whole count is read.  When the last *)
(* completion failed it answers an error without setting errno, so that the   *)
(* loop ends, or, errno being a former EAGAIN, forgets the buffer.            *)
Answers == hstatus = "ok"
HailoDequeue ==
    /\ hstate[hcur] = "ready"
    /\ hstate' = [hstate EXCEPT ![hcur] = "dequeued"]
    /\ hcur' = (hcur + 1) % NBuffers
    /\ hevent' = 0
    /\ UNCHANGED <<hstatus, hpending, dcur, flying, results, failures, cb>>

(* The dup side reads in curbuffer, whatever its state, which nothing reads;  *)
(* with no result to read it waits and answers EAGAIN.                        *)
HasResult == hpending > 0 /\ results > 0
TakeResult ==
    /\ HasResult
    /\ results' = results - 1
    /\ hpending' = hpending - 1
    /\ dcur' = (dcur + 1) % NBuffers
    /\ UNCHANGED <<mainSide, hstatus, flying, failures, cb>>

-----------------------------------------------------------------------------
(* The dup side expects a result for each completed write, those that failed  *)
(* too, and for nothing else.                                                 *)
ResultsExact ==
    hpending + (IF cb.step \in {"state", "pending"} THEN 1 ELSE 0) = results + failures
==============================================================================
