-------------------------------- MODULE Control --------------------------------
(***************************************************************************)
(* main() of fastvideo and of fastsetting after the start, in processes that *)
(* share a pid file, and for fastsetting the path of the control socket.     *)
(***************************************************************************)
EXTENDS Daemon, SettingServer

CONSTANT SettingProcs    \* the processes that are started as fastsetting

ASSUME ControlAssumption == Procs = Servers /\ SettingProcs \subseteq Procs

VARIABLE program    \* "fastvideo" or "fastsetting"; all processes run the same

vars == <<daemonVars, controlVars, program>>

Init ==
    /\ DaemonInit /\ ControlInit
    /\ program \in {"fastvideo", "fastsetting"}

-----------------------------------------------------------------------------
Starts(p) ==
    /\ program = "fastsetting" => p \in SettingProcs
    /\ Daemonize(p) /\ UNCHANGED controlVars

(* fastvideo: main_loop() ends on isrunning(), or after a device failed.        *)
LoopEnds(p) ==
    /\ program = "fastvideo" /\ stage[p] = "main"
    /\ \/ runs[p] # "r" /\ To(p, "close") /\ UNCHANGED <<handled, runs, pidfd, locked, path, crossed>>
       \/ KillNoPath(p)
    /\ UNCHANGED controlVars

(* fastsetting: the server, until server_run() returns.                         *)
Setting(p) ==
    /\ program = "fastsetting" /\ stage[p] = "main"
    /\ \/ ServerCreate(p) /\ UNCHANGED daemonVars
       \/ Serve(p) /\ UNCHANGED daemonVars
       \/ /\ Served(p) /\ To(p, "close")
          /\ UNCHANGED <<handled, runs, pidfd, locked, path, crossed, controlVars>>

(* killdaemon(pidfile), then server_destroy() and the end of main().            *)
Ends(p) ==
    \/ Killing(p) /\ UNCHANGED controlVars
    \/ /\ stage[p] = "end" /\ Dead(p) /\ UNCHANGED <<path, crossed>>
       /\ IF program = "fastsetting" THEN ServerDestroy(p) ELSE UNCHANGED controlVars
Stops(p) ==
    \E q \in Procs \ {p} :
        /\ Stop(p, q)
        /\ IF handled[q]
           THEN state' = Interrupted(q) /\ UNCHANGED <<spath, spc, rfds, head, walk, file, next, prev, connVars, files>>
           ELSE ServerKilled(q)

(* The process ends without killdaemon(): a crash, an error in main(), an       *)
(* answer to a client that has left.                                            *)
Crash(p) ==
    /\ stage[p] # "off" /\ Dead(p) /\ UNCHANGED <<path, crossed>>
    /\ ServerKilled(p)
BrokenPipe(p) == SigPipe(p) /\ Dead(p) /\ UNCHANGED <<path, crossed>> /\ ServerKilled(p)

(* SIGTERM from an administrator.                                               *)
Terminate(q) ==
    /\ stage[q] # "off"
    /\ Sigterm(q, stage, pidfd)
    /\ IF handled[q]
       THEN state' = Interrupted(q) /\ UNCHANGED <<spath, spc, rfds, head, walk, file, next, prev, connVars, files>>
       ELSE ServerKilled(q)

(* Bound: clients come to a server whose start as a daemon went well.           *)
ClientActs(c) ==
    /\ conn[c] = "free" => spath # Nil /\ runs[spath] # "none"
    /\ ClientStep(c) /\ UNCHANGED daemonVars

Process(p) == Starts(p) \/ LoopEnds(p) \/ Setting(p) \/ Ends(p) \/ Stops(p) \/ BrokenPipe(p)
Outside ==
    \/ \E p \in Procs : Crash(p) \/ Terminate(p)
    \/ \E c \in Clients : ClientActs(c)
Next == (Outside \/ \E p \in Procs : Process(p)) /\ UNCHANGED program

Spec == Init /\ [][Next]_vars

(* The processes are scheduled once they run, and a client reads its answers;   *)
(* nobody has to start a process, to connect or to ask.                         *)
FairSpec ==
    /\ Spec
    /\ \A p \in Procs :
          WF_vars((Setting(p) \/ Ends(p) \/ Stops(p) \/ BrokenPipe(p)) /\ UNCHANGED program)
    /\ \A c \in Clients : WF_vars(ClientReceive(c) /\ UNCHANGED <<daemonVars, program>>)
===============================================================================
