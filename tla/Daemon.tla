-------------------------------- MODULE Daemon --------------------------------
(***************************************************************************)
(* daemonize.c in several processes that are given the same pid file: the   *)
(* start of a daemon, the lock that keeps a second one away, SIGTERM, and   *)
(* killdaemon().  A process is started again and again, may be killed at    *)
(* any moment, and may be a child of init.  Each system call on the pid     *)
(* file is a step; the rest of main() is in Control.                        *)
(***************************************************************************)
EXTENDS Integers, FiniteSets, Sequences, TLC

CONSTANTS
    Procs,    \* the processes
    Nobody,   \* no process, no file
    Inodes    \* the files that the path of the pid file may name

ASSUME DaemonAssumption == /\ IsFiniteSet(Procs) /\ IsFiniteSet(Inodes)
                           /\ Cardinality(Inodes) > Cardinality(Procs)
                           /\ Nobody \notin Procs \cup Inodes

Stages == {"off", "log", "open", "lock", "root", "handlers", "running", "main",
           "close", "reopen", "getlock", "unlink", "end"}

VARIABLES
    stage,     \* where each process is
    handled,   \* the handlers of the process are installed
    runs,      \* _run: "none", "r", "k" or "s"
    pidfd,     \* the file that _pidfd has open
    locked,    \* the process that holds the lock of each file
    path,      \* the file that the pid file's path names
    crossed    \* a start and a stop have crossed each other on the path

daemonVars == <<stage, handled, runs, pidfd, locked, path, crossed>>

DaemonInit ==
    /\ stage = [p \in Procs |-> "off"]
    /\ handled = [p \in Procs |-> FALSE]
    /\ runs = [p \in Procs |-> "none"]
    /\ pidfd = [p \in Procs |-> Nobody]
    /\ locked = [i \in Inodes |-> Nobody]
    /\ path = Nobody /\ crossed = FALSE

To(p, s) == stage' = [stage EXCEPT ![p] = s]

(* close() of a descriptor of the file drops every lock that the process has.  *)
Unlocked(p) == [i \in Inodes |-> IF locked[i] = p THEN Nobody ELSE locked[i]]

(* The process is gone, the path stays.                                        *)
Dead(p) ==
    /\ To(p, "off")
    /\ handled' = [handled EXCEPT ![p] = FALSE]
    /\ runs' = [runs EXCEPT ![p] = "none"]
    /\ pidfd' = [pidfd EXCEPT ![p] = Nobody]
    /\ locked' = Unlocked(p)

Holds(p) == \E i \in Inodes : locked[i] = p

(* A daemon at work, and a process in killdaemon().                            *)
Working(p) == stage[p] \in {"root", "handlers", "running", "main"} /\ pidfd[p] # Nobody
Stopping(p) == \/ stage[p] \in {"reopen", "getlock", "unlink"}
               \/ stage[p] = "close" /\ runs[p] = "s"

-----------------------------------------------------------------------------
(* daemonize(): its callers do not look at the answer, and main() goes on.     *)
Fork(p) == stage[p] = "off" /\ To(p, "log")
           /\ UNCHANGED <<handled, runs, pidfd, locked, path, crossed>>

(* The parent is init, or the log file cannot be opened.                       *)
NotDaemonized(p) == stage[p] = "log" /\ To(p, "main")
                    /\ UNCHANGED <<handled, runs, pidfd, locked, path, crossed>>
SetLogFile(p) == stage[p] = "log" /\ To(p, "open")
                 /\ UNCHANGED <<handled, runs, pidfd, locked, path, crossed>>

(* _setpidfile(): open with O_CREAT.                                           *)
Unused == { i \in Inodes : i # path /\ \A q \in Procs : pidfd[q] # i }
OpenPidFile(p) ==
    /\ stage[p] = "open"
    /\ path' = IF path = Nobody THEN CHOOSE i \in Unused : TRUE ELSE path
    /\ pidfd' = [pidfd EXCEPT ![p] = path']
    /\ crossed' = (crossed \/ \E q \in Procs : Stopping(q))
    /\ To(p, "lock")
    /\ UNCHANGED <<handled, runs, locked>>

(* F_SETLK; "server already running" ends the process.  The descriptor stays   *)
(* open after that: "the file must be open while the process is running".      *)
(* Mutant of KeepPidFile: it is closed, as in the line that was taken out.     *)
ClosePidFile(p) == UNCHANGED locked
KeepPidFile(p) == locked' = [locked EXCEPT ![pidfd[p]] = p]
LockPidFile(p) ==
    /\ stage[p] = "lock"
    /\ IF locked[pidfd[p]] = Nobody
       THEN KeepPidFile(p) /\ To(p, "root") /\ UNCHANGED <<handled, runs, pidfd>>
       ELSE Dead(p)
    /\ UNCHANGED <<path, crossed>>

(* The root directory and the owner; a failure leaves the rest out.            *)
Settle(p) ==
    /\ stage[p] = "root"
    /\ To(p, "handlers") \/ To(p, "main")
    /\ UNCHANGED <<handled, runs, pidfd, locked, path, crossed>>

(* sigaction(), then _run = 'r': a signal in between is forgotten.             *)
InstallHandlers(p) ==
    /\ stage[p] = "handlers" /\ To(p, "running")
    /\ handled' = [handled EXCEPT ![p] = TRUE]
    /\ UNCHANGED <<runs, pidfd, locked, path, crossed>>
SetRunning(p) ==
    /\ stage[p] = "running" /\ To(p, "main")
    /\ runs' = [runs EXCEPT ![p] = "r"]
    /\ UNCHANGED <<handled, pidfd, locked, path, crossed>>

Daemonize(p) ==
    \/ Fork(p) \/ NotDaemonized(p) \/ SetLogFile(p) \/ OpenPidFile(p)
    \/ LockPidFile(p) \/ Settle(p) \/ InstallHandlers(p) \/ SetRunning(p)

-----------------------------------------------------------------------------
(* killdaemon(): the daemon's own descriptor is closed, and the lock with it;  *)
(* without one the path is opened again, to stop the process that has the lock. *)
(* A start that is between its open() and its lock is crossed, and so is a      *)
(* daemon that is stopped by a process that never had the lock.                 *)
CloseOwn(p) ==
    /\ runs' = [runs EXCEPT ![p] = "s"]
    /\ pidfd' = [pidfd EXCEPT ![p] = Nobody]
    /\ locked' = Unlocked(p)
    /\ crossed' = (crossed \/ \E q \in Procs \ {p} :
                        stage[q] = "lock" \/ (pidfd[p] = Nobody /\ Holds(q)))
    /\ UNCHANGED <<handled, path>>

Kill(p) ==
    /\ stage[p] = "close"
    /\ To(p, IF pidfd[p] # Nobody THEN "unlink" ELSE "reopen")
    /\ CloseOwn(p)

(* killdaemon(NULL), which main_loop() calls when a device fails.              *)
KillNoPath(p) == stage[p] = "main" /\ To(p, "close") /\ CloseOwn(p)

Reopen(p) ==
    /\ stage[p] = "reopen"
    /\ IF path = Nobody THEN To(p, "unlink") /\ UNCHANGED pidfd
       ELSE To(p, "getlock") /\ pidfd' = [pidfd EXCEPT ![p] = path]
    /\ UNCHANGED <<handled, runs, locked, path, crossed>>

(* SIGTERM ends a process without handlers; with them it sets _run, which the   *)
(* start may still set to 'r' afterwards.  st and fds are the other effects of  *)
(* the step.                                                                    *)
Sigterm(q, st, fds) ==
    /\ IF handled[q]
       THEN /\ stage' = st /\ pidfd' = fds
            /\ runs' = [runs EXCEPT ![q] = "k"] /\ UNCHANGED locked
       ELSE /\ stage' = [st EXCEPT ![q] = "off"] /\ pidfd' = [fds EXCEPT ![q] = Nobody]
            /\ runs' = [runs EXCEPT ![q] = "none"] /\ locked' = Unlocked(q)
    /\ UNCHANGED <<handled, path, crossed>>

(* F_GETLK, kill() and close(): the process that has the lock is terminated.    *)
Holder(p) == locked[pidfd[p]]
Ask(p) ==
    /\ stage[p] = "getlock" /\ Holder(p) = Nobody
    /\ To(p, "unlink") /\ pidfd' = [pidfd EXCEPT ![p] = Nobody]
    /\ UNCHANGED <<handled, runs, locked, path, crossed>>
Stop(p, q) ==
    /\ stage[p] = "getlock" /\ q = Holder(p)
    /\ Sigterm(q, [stage EXCEPT ![p] = "unlink"], [pidfd EXCEPT ![p] = Nobody])

Unlink(p) ==
    /\ stage[p] = "unlink" /\ To(p, "end")
    /\ path' = Nobody
    /\ UNCHANGED <<handled, runs, pidfd, locked, crossed>>

Killing(p) == Kill(p) \/ Reopen(p) \/ Ask(p) \/ Unlink(p)

(* At most one daemon works at a time: any number of starts, stops and crashes, *)
(* as long as none of them starts while another is in killdaemon(), and none    *)
(* is stopped by the killdaemon() of a process that never had the lock.         *)
Alone == ~ crossed => Cardinality({ p \in Procs : Working(p) }) <= 1
===============================================================================
