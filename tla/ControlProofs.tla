---------------------------- MODULE ControlProofs ----------------------------
(***************************************************************************)
(* Proofs about Control: however many processes are started as daemons with *)
(* one pid file, and whatever ends them, one of them works; and the control *)
(* server of each keeps its list of clients, whoever comes and leaves.      *)
(***************************************************************************)
EXTENDS Control, FiniteSetTheorems, TLAPS

(* A daemon with the file of its path open, until it has closed it.         *)
Owner(p) == /\ pidfd[p] # Nobody
            /\ stage[p] \in {"root", "handlers", "running", "main", "close"}

DaemonTypes ==
    /\ stage \in [Procs -> Stages]
    /\ handled \in [Procs -> BOOLEAN]
    /\ runs \in [Procs -> {"none", "r", "k", "s"}]
    /\ pidfd \in [Procs -> Inodes \cup {Nobody}]
    /\ locked \in [Inodes -> Procs \cup {Nobody}]
    /\ path \in Inodes \cup {Nobody}
    /\ crossed \in BOOLEAN

(* Before the start there is no file, and _run is 's' from killdaemon() on. *)
Stageful ==
    \A p \in Procs :
        /\ stage[p] \in {"off", "log", "open"} => pidfd[p] = Nobody
        /\ runs[p] = "s" => stage[p] \in {"close", "reopen", "getlock", "unlink", "end"}

(* The lock of an owner is on the file that the path names.                 *)
OwnersLock == \A p \in Procs : Owner(p) => path = pidfd[p] /\ locked[pidfd[p]] = p
(* So will be the lock of a process that has just opened the path, ...      *)
OpenedPath == \A p \in Procs : stage[p] = "lock" => pidfd[p] # Nobody /\ pidfd[p] = path
(* ... because no one removes the path meanwhile: the process that does is  *)
(* alone.                                                                   *)
StoppingAlone ==
    \A p, q \in Procs :
        Stopping(q) /\ p # q => ~ Owner(p) /\ stage[p] # "lock"

(* The inductive invariant.                                                 *)
DSafe == OwnersLock /\ OpenedPath /\ StoppingAlone
DInv == DaemonTypes /\ Stageful /\ (~ crossed => DSafe)

LEMMA OneOwner == DInv => Alone
<1> SUFFICES ASSUME DInv, ~ crossed
             PROVE  Cardinality({ p \in Procs : Working(p) }) <= 1
  BY DEF Alone
<1>1. ASSUME NEW p \in Procs, NEW q \in Procs, Working(p), Working(q)
      PROVE  p = q
  BY <1>1 DEF DInv, DSafe, OwnersLock, Owner, Working
<1>2. CASE { p \in Procs : Working(p) } = {}
  BY <1>2, FS_EmptySet
<1>3. CASE { p \in Procs : Working(p) } # {}
  <2>1. PICK p \in Procs : Working(p)
    BY <1>3
  <2>2. { q \in Procs : Working(q) } = {p}
    BY <1>1, <2>1
  <2> QED
    BY <2>2, FS_Singleton
<1> QED
  BY <1>2, <1>3

-----------------------------------------------------------------------------
(* Steps of one process.                                                    *)

(* More files than processes: one is unused.                                *)
LEMMA SomeUnused ==
  ASSUME DaemonTypes, path = Nobody
  PROVE  \E i \in Inodes : i \in Unused
<1> SUFFICES ASSUME \A i \in Inodes : \E q \in Procs : pidfd[q] = i
             PROVE  FALSE
  BY DaemonAssumption DEF Unused
<1> DEFINE opener == [i \in Inodes |-> CHOOSE q \in Procs : pidfd[q] = i]
<1>1. ASSUME NEW i \in Inodes
      PROVE  opener[i] \in Procs /\ pidfd[opener[i]] = i
  OBVIOUS
<1>2. opener \in [Inodes -> Procs]
  BY <1>1
<1>3. Cardinality(Procs) < Cardinality(Inodes)
  <2>1. Cardinality(Procs) \in Nat /\ Cardinality(Inodes) \in Nat
    BY DaemonAssumption, FS_CardinalityType
  <2> QED
    BY <2>1, DaemonAssumption
<1>4. PICK i \in Inodes, j \in Inodes : i # j /\ opener[i] = opener[j]
  <2> HIDE DEF opener
  <2> QED
    BY <1>2, <1>3, FS_PigeonHole, DaemonAssumption
<1> QED
  BY <1>1, <1>4

(* A step that leaves the files alone and moves p between stages at which   *)
(* it owns what it owned, and neither starts nor stops.                     *)
LEMMA MovesKeep ==
  ASSUME DInv, NEW p \in Procs,
         \/ Fork(p) \/ NotDaemonized(p) \/ SetLogFile(p) \/ Settle(p)
         \/ InstallHandlers(p) \/ SetRunning(p)
  PROVE  DInv'
<1>1. DaemonTypes'
  BY DEF DInv, DaemonTypes, Stages, To, Fork, NotDaemonized, SetLogFile, Settle, InstallHandlers, SetRunning
<1>2. Stageful'
  BY DEF DInv, DaemonTypes, Stageful, Stages, To, Fork, NotDaemonized, SetLogFile, Settle, InstallHandlers, SetRunning
<1>3. ASSUME ~ crossed'  PROVE DSafe'
  <2>1. DSafe /\ UNCHANGED <<pidfd, locked, path>>
    BY <1>3 DEF DInv, Fork, NotDaemonized, SetLogFile, Settle, InstallHandlers, SetRunning
  <2>2. \A q \in Procs : Owner(q)' => Owner(q)
    BY <2>1 DEF DInv, DaemonTypes, Stageful, Stages, Owner, To, Fork, NotDaemonized, SetLogFile, Settle, InstallHandlers, SetRunning
  <2>3. \A q \in Procs : Stopping(q)' => Stopping(q)
    BY DEF DInv, DaemonTypes, Stages, Stopping, To, Fork, NotDaemonized, SetLogFile, Settle, InstallHandlers, SetRunning
  <2>4. \A q \in Procs : stage'[q] = "lock" => stage[q] = "lock"
    BY DEF DInv, DaemonTypes, Stages, To, Fork, NotDaemonized, SetLogFile, Settle, InstallHandlers, SetRunning
  <2> QED
    BY <2>1, <2>2, <2>3, <2>4 DEF DSafe, OwnersLock, OpenedPath, StoppingAlone
<1> QED
  BY <1>1, <1>2, <1>3 DEF DInv

LEMMA OpenKeeps ==
  ASSUME DInv, NEW p \in Procs, OpenPidFile(p)
  PROVE  DInv'
<1> USE DEF OpenPidFile, To
<1>1. path' \in Inodes
  <2>1. CASE path = Nobody
    BY <2>1, SomeUnused DEF DInv, Unused
  <2>2. CASE path # Nobody
    BY <2>2 DEF DInv, DaemonTypes
  <2> QED
    BY <2>1, <2>2
<1>2. DaemonTypes' /\ Stageful'
  BY <1>1 DEF DInv, DaemonTypes, Stages, Stageful
<1>3. ASSUME ~ crossed'  PROVE DSafe'
  <2>1. DSafe /\ \A q \in Procs : ~ Stopping(q)
    BY <1>3 DEF DInv, DaemonTypes
  <2>2. \A q \in Procs : q # p => (Owner(q)' <=> Owner(q)) /\ stage'[q] = stage[q] /\ pidfd'[q] = pidfd[q]
    BY DEF DInv, DaemonTypes, Owner
  <2>3. ~ Owner(p)' /\ stage'[p] = "lock" /\ pidfd'[p] = path'
    BY DEF DInv, DaemonTypes, Owner
  <2>4. ~ \E q \in Procs : Stopping(q)'
    BY <2>1, <2>2, <2>3 DEF Stopping
  <2>5. path # Nobody => path' = path
    OBVIOUS
  <2>6. \A q \in Procs : Owner(q) => path # Nobody
    BY <2>1 DEF DSafe, OwnersLock, Owner
  <2>7. \A q \in Procs : stage[q] = "lock" => path # Nobody
    BY <2>1 DEF DSafe, OpenedPath
  <2>8. OwnersLock'
    BY <2>1, <2>2, <2>3, <2>5, <2>6 DEF DSafe, OwnersLock
  <2>9. OpenedPath'
    BY <1>1, <2>1, <2>2, <2>3, <2>5, <2>7, DaemonAssumption DEF DSafe, OpenedPath
  <2> QED
    BY <2>4, <2>8, <2>9 DEF DSafe, StoppingAlone
<1> QED
  BY <1>2, <1>3 DEF DInv

(* The process is gone, and only its own locks with it.                     *)
LEMMA DeadKeeps ==
  ASSUME DInv, NEW p \in Procs, Dead(p), UNCHANGED <<path, crossed>>
  PROVE  DInv'
<1> USE DEF Dead, To
<1>1. DaemonTypes' /\ Stageful'
  BY DEF DInv, DaemonTypes, Stages, Stageful, Unlocked
<1>2. ASSUME ~ crossed'  PROVE DSafe'
  <2>1. DSafe
    BY <1>2 DEF DInv
  <2>2. ~ Owner(p)' /\ ~ Stopping(p)' /\ stage'[p] # "lock"
    BY DEF DInv, DaemonTypes, Owner, Stopping
  <2>3. \A q \in Procs : q # p => /\ stage'[q] = stage[q] /\ pidfd'[q] = pidfd[q]
                                 /\ runs'[q] = runs[q]
    BY DEF DInv, DaemonTypes
  <2>4. \A q \in Procs, i \in Inodes : q # p /\ locked[i] = q => locked'[i] = q
    BY DEF Unlocked
  <2>5. OwnersLock'
    BY <2>1, <2>2, <2>3, <2>4 DEF DInv, DaemonTypes, DSafe, OwnersLock, Owner
  <2> QED
    BY <2>1, <2>2, <2>3, <2>5 DEF DSafe, OpenedPath, StoppingAlone, Owner, Stopping
<1> QED
  BY <1>1, <1>2 DEF DInv

LEMMA LockKeeps ==
  ASSUME DInv, NEW p \in Procs, LockPidFile(p)
  PROVE  DInv'
<1>1. CASE locked[pidfd[p]] = Nobody
  <2> USE <1>1 DEF LockPidFile, KeepPidFile, To
  <2>1. DaemonTypes' /\ Stageful'
    BY DEF DInv, DaemonTypes, Stages, Stageful
  <2>2. ASSUME ~ crossed'  PROVE DSafe'
    <3>1. DSafe
      BY <2>2 DEF DInv
    <3>2. pidfd[p] \in Inodes /\ pidfd[p] = path
      BY <3>1 DEF DInv, DaemonTypes, DSafe, OpenedPath
    <3>3. \A q \in Procs : ~ Owner(q)
      BY <1>1, <3>1, <3>2, DaemonAssumption DEF DSafe, OwnersLock
    <3>4. \A q \in Procs : q # p => ~ Owner(q)' /\ stage'[q] = stage[q]
      BY <3>3 DEF DInv, DaemonTypes, Owner
    <3>5. locked'[pidfd[p]] = p /\ stage'[p] = "root"
      BY <3>2 DEF DInv, DaemonTypes
    <3>6. \A q \in Procs : ~ Stopping(q)'
      BY <3>1, <3>4, <3>5 DEF DSafe, StoppingAlone, Stopping
    <3> QED
      BY <3>1, <3>2, <3>4, <3>5, <3>6 DEF DSafe, OwnersLock, OpenedPath, StoppingAlone
  <2> QED
    BY <2>1, <2>2 DEF DInv
<1>2. CASE locked[pidfd[p]] # Nobody
  BY <1>2, DeadKeeps DEF LockPidFile
<1> QED
  BY <1>1, <1>2

(* main() comes to killdaemon() by itself.                                  *)
LEMMA LeavesKeeps ==
  ASSUME DInv, NEW p \in Procs, stage[p] = "main", To(p, "close"),
         UNCHANGED <<handled, runs, pidfd, locked, path, crossed>>
  PROVE  DInv'
<1> USE DEF To
<1>1. DaemonTypes' /\ Stageful'
  BY DEF DInv, DaemonTypes, Stages, Stageful
<1>2. ASSUME ~ crossed'  PROVE DSafe'
  <2>1. DSafe
    BY <1>2 DEF DInv
  <2>2. \A q \in Procs : (Owner(q)' <=> Owner(q)) /\ (stage'[q] = "lock" <=> stage[q] = "lock")
    BY DEF DInv, DaemonTypes, Owner
  <2>3. \A q \in Procs : Stopping(q)' => Stopping(q)
    BY DEF DInv, DaemonTypes, Stageful, Stopping
  <2> QED
    BY <2>1, <2>2, <2>3 DEF DSafe, OwnersLock, OpenedPath, StoppingAlone
<1> QED
  BY <1>1, <1>2 DEF DInv

(* killdaemon() closes the file: nobody else owns one or is about to.       *)
LEMMA CloseKeeps ==
  ASSUME DInv, NEW p \in Procs, CloseOwn(p),
         \/ stage[p] = "close" /\ (To(p, "unlink") \/ To(p, "reopen"))
         \/ stage[p] = "main" /\ To(p, "close")
  PROVE  DInv'
<1> USE DEF CloseOwn, To
<1>1. DaemonTypes' /\ Stageful'
  <2>1. DaemonTypes'
    BY DEF DInv, DaemonTypes, Stages, Unlocked
  <2>2. Stageful'
    BY DEF DInv, DaemonTypes, Stageful
  <2> QED
    BY <2>1, <2>2
<1>2. ASSUME ~ crossed'  PROVE DSafe'
  <2>1. DSafe /\ \A q \in Procs \ {p} : stage[q] # "lock" /\ (pidfd[p] = Nobody => ~ Holds(q))
    BY <1>2 DEF DInv, DaemonTypes
  <2>2. \A q \in Procs : q # p => ~ Owner(q)
    <3> SUFFICES ASSUME NEW q \in Procs, q # p, Owner(q)
                 PROVE  FALSE
      OBVIOUS
    <3>1. pidfd[q] \in Inodes /\ path = pidfd[q] /\ locked[path] = q
      BY <2>1 DEF DInv, DaemonTypes, Owner, DSafe, OwnersLock
    <3>2. CASE pidfd[p] = Nobody
      BY <2>1, <3>1, <3>2 DEF Holds
    <3>3. CASE pidfd[p] # Nobody
      BY <2>1, <3>1, <3>3 DEF Owner, DSafe, OwnersLock
    <3> QED
      BY <3>2, <3>3
  <2>3. \A q \in Procs : ~ Owner(q)' /\ stage'[q] # "lock"
    BY <2>1, <2>2 DEF DInv, DaemonTypes, Owner
  <2> QED
    BY <2>3 DEF DSafe, OwnersLock, OpenedPath, StoppingAlone
<1> QED
  BY <1>1, <1>2 DEF DInv

LEMMA ReopenKeeps ==
  ASSUME DInv, NEW p \in Procs, Reopen(p) \/ Ask(p)
  PROVE  DInv'
<1> USE DEF Reopen, Ask, To
<1>1. DaemonTypes' /\ Stageful'
  <2>1. DaemonTypes'
    BY DEF DInv, DaemonTypes, Stages
  <2>2. Stageful'
    BY DEF DInv, DaemonTypes, Stageful
  <2> QED
    BY <2>1, <2>2
<1>2. ASSUME ~ crossed'  PROVE DSafe'
  <2>1. DSafe /\ UNCHANGED <<locked, path>>
    BY <1>2 DEF DInv
  <2>2. ~ Owner(p)' /\ Stopping(p) /\ stage'[p] # "lock"
    BY DEF DInv, DaemonTypes, Owner, Stopping
  <2>3. \A q \in Procs : q # p => /\ stage'[q] = stage[q] /\ pidfd'[q] = pidfd[q]
                                 /\ runs'[q] = runs[q]
    BY DEF DInv, DaemonTypes
  <2> QED
    BY <2>1, <2>2, <2>3 DEF DSafe, OwnersLock, OpenedPath, StoppingAlone, Owner, Stopping
<1> QED
  BY <1>1, <1>2 DEF DInv

(* The path is removed by the only process that could own it.               *)
LEMMA UnlinkKeeps ==
  ASSUME DInv, NEW p \in Procs, Unlink(p)
  PROVE  DInv'
<1> USE DEF Unlink, To
<1>1. DaemonTypes' /\ Stageful'
  BY DEF DInv, DaemonTypes, Stages, Stageful
<1>2. ASSUME ~ crossed'  PROVE DSafe'
  <2>1. DSafe /\ Stopping(p)
    BY <1>2 DEF DInv, Stopping
  <2>2. \A q \in Procs : ~ Owner(q)' /\ stage'[q] # "lock"
    BY <2>1 DEF DInv, DaemonTypes, DSafe, StoppingAlone, Owner
  <2> QED
    BY <2>2 DEF DSafe, OwnersLock, OpenedPath, StoppingAlone
<1> QED
  BY <1>1, <1>2 DEF DInv

LEMMA SigtermKeeps ==
  ASSUME DInv, NEW q \in Procs, Sigterm(q, stage, pidfd)
  PROVE  DInv'
<1>1. CASE handled[q]
  <2> USE <1>1 DEF Sigterm
  <2>1. DaemonTypes' /\ Stageful'
    BY DEF DInv, DaemonTypes, Stageful
  <2>2. \A r \in Procs : Stopping(r)' => Stopping(r)
    BY DEF DInv, DaemonTypes, Stopping
  <2> QED
    BY <2>1, <2>2 DEF DInv, DSafe, OwnersLock, OpenedPath, StoppingAlone, Owner
<1>2. CASE ~ handled[q]
  <2>1. UNCHANGED <<path, crossed>> /\ Dead(q)
    BY <1>2 DEF Sigterm, Dead, To, DInv, DaemonTypes
  <2> QED
    BY <2>1, DeadKeeps
<1> QED
  BY <1>1, <1>2

(* killdaemon() in p ends q: both move.                                     *)
LEMMA StopKeeps ==
  ASSUME DInv, NEW p \in Procs, NEW q \in Procs \ {p}, Stop(p, q)
  PROVE  DInv'
<1> USE DEF Stop, Sigterm
<1>1. DaemonTypes'
  BY DEF DInv, DaemonTypes, Stages, Unlocked
<1>2. Stageful'
  BY DEF DInv, DaemonTypes, Stageful
<1>3. ASSUME ~ crossed'  PROVE DSafe'
  <2>1. DSafe /\ Stopping(p) /\ UNCHANGED path
    BY <1>3 DEF DInv, Stopping
  <2>2. \A r \in Procs : ~ Owner(r)' /\ stage'[r] # "lock"
    BY <2>1 DEF DInv, DaemonTypes, DSafe, StoppingAlone, Owner
  <2> QED
    BY <2>2 DEF DSafe, OwnersLock, OpenedPath, StoppingAlone
<1> QED
  BY <1>1, <1>2, <1>3 DEF DInv

(* The server and its clients do nothing to the pid file.                   *)
LEMMA OthersKeep ==
  ASSUME DInv, UNCHANGED daemonVars
  PROVE  DInv'
BY DEF DInv, daemonVars, DaemonTypes, Stageful, DSafe, OwnersLock, OpenedPath,
       StoppingAlone, Owner, Stopping

-----------------------------------------------------------------------------
LEMMA Invariance == Spec => []DInv
<1>1. Init => DInv
  <2> SUFFICES ASSUME DaemonInit
               PROVE  DInv
    BY DEF Init
  <2>1. DaemonTypes
    BY DEF DaemonInit, DaemonTypes, Stages
  <2>2. \A p \in Procs : stage[p] = "off" /\ pidfd[p] = Nobody /\ runs[p] = "none"
    BY DEF DaemonInit
  <2> QED
    BY <2>1, <2>2 DEF DInv, Stageful, DSafe, OwnersLock, OpenedPath, StoppingAlone,
                      Owner, Stopping
<1>2. DInv /\ [Next]_vars => DInv'
  <2> SUFFICES ASSUME DInv, [Next]_vars
               PROVE  DInv'
    OBVIOUS
  <2>1. ASSUME NEW p \in Procs, Starts(p)
        PROVE  DInv'
    BY <2>1, MovesKeep, OpenKeeps, LockKeeps DEF Starts, Daemonize
  <2>2. ASSUME NEW p \in Procs, LoopEnds(p)
        PROVE  DInv'
    BY <2>2, LeavesKeeps, CloseKeeps DEF LoopEnds, KillNoPath
  <2>3. ASSUME NEW p \in Procs, Setting(p)
        PROVE  DInv'
    BY <2>3, LeavesKeeps, OthersKeep DEF Setting
  <2>4. ASSUME NEW p \in Procs, Ends(p)
        PROVE  DInv'
    <3>1. CASE Kill(p)
      BY <3>1, CloseKeeps DEF Kill
    <3>2. CASE ~ Kill(p)
      BY <2>4, <3>2, ReopenKeeps, UnlinkKeeps, DeadKeeps DEF Ends, Killing
    <3> QED
      BY <3>1, <3>2
  <2>5. ASSUME NEW p \in Procs, Stops(p)
        PROVE  DInv'
    BY <2>5, StopKeeps DEF Stops
  <2>6. ASSUME NEW p \in Procs, BrokenPipe(p) \/ Crash(p)
        PROVE  DInv'
    BY <2>6, DeadKeeps DEF BrokenPipe, Crash
  <2>7. ASSUME NEW q \in Procs, Terminate(q)
        PROVE  DInv'
    BY <2>7, SigtermKeeps DEF Terminate
  <2>8. ASSUME NEW c \in Clients, ClientActs(c)
        PROVE  DInv'
    BY <2>8, OthersKeep DEF ClientActs
  <2>9. CASE UNCHANGED vars
    BY <2>9, OthersKeep DEF vars
  <2> QED
    BY <2>1, <2>2, <2>3, <2>4, <2>5, <2>6, <2>7, <2>8, <2>9 DEF Next, Outside, Process
<1> QED
  BY <1>1, <1>2, PTL DEF Spec

(* However many processes are started with one pid file, and whenever they  *)
(* are stopped, terminated or crash, one daemon works, as long as no start  *)
(* crosses a killdaemon() (daemonize.c).                                    *)
THEOREM DaemonAlone == Spec => []Alone
<1>1. DInv => Alone
  BY OneOwner
<1> QED
  BY <1>1, Invariance, PTL

-----------------------------------------------------------------------------
(* The control server: its list of clients and its walk over it              *)

(* The sockets that are open at the server p.                                *)
Mine(p) == { c \in Clients : conn[c] = "open" /\ owner[c] = p }

ServerTypes ==
    /\ spath \in Servers \cup {Nil}
    /\ state \in [Servers -> {"none", "running", "stopping"}]
    /\ spc \in [Servers -> {"select", "accept", "walk"}]
    /\ rfds \in [Servers -> SUBSET (Clients \cup {Nil})]
    /\ head \in [Servers -> Clients \cup {Nil}] /\ walk \in [Servers -> Clients \cup {Nil}]
    /\ next \in [Clients -> Clients \cup {Nil}] /\ prev \in [Clients -> Clients \cup {Nil}]
    /\ backlog \in [Servers -> Seq(Clients)]
    /\ conn \in [Clients -> {"free", "pending", "open", "closed"}]
    /\ owner \in [Clients -> Servers \cup {Nil}]
    /\ left \in [Clients -> BOOLEAN]
    /\ asked \in [Clients -> Requests \cup {"none", "setting"}]

(* The links stay among the open sockets and agree, and nothing less than    *)
(* all of these is met from the head on.                                     *)
ListOK(p) ==
    /\ head[p] \in Mine(p) \cup {Nil}
    /\ \A c \in Mine(p) : next[c] \in Mine(p) \cup {Nil} /\ prev[c] \in Mine(p) \cup {Nil}
    /\ \A c \in Mine(p) : prev[c] = Nil <=> head[p] = c
    /\ \A c, d \in Mine(p) : next[c] = d <=> prev[d] = c
    /\ \A S \in SUBSET Clients : FollowsFrom(p, S) => Mine(p) \subseteq S

(* The connections that wait are pending ones of this server, each once; a   *)
(* process without a server has none, and no socket.                         *)
BacklogOK(p) ==
    /\ \A n \in 1 .. Len(backlog[p]) : /\ conn[backlog[p][n]] = "pending"
                                        /\ owner[backlog[p][n]] = p
    /\ \A n, m \in 1 .. Len(backlog[p]) : backlog[p][n] = backlog[p][m] => n = m
    /\ state[p] = "none" => Mine(p) = {} /\ backlog[p] = << >> /\ spc[p] = "select"

(* What select() has seen is still there, but for the clients that the walk  *)
(* has behind it: those are the part of the list before the walk.            *)
SeenOK(p) ==
    spc[p] = "accept" => /\ Nil \in rfds[p] => backlog[p] # << >>
                         /\ \A c \in rfds[p] \ {Nil} : c \in Mine(p) /\ Readable(c)
Behind(p, D) ==
    /\ walk[p] \notin D
    /\ walk[p] # Nil => prev[walk[p]] \in D \cup {Nil}
    /\ \A d \in D \cap Mine(p) : prev[d] \in D \cup {Nil}
    /\ \A c \in rfds[p] \ (D \cup {Nil}) : c \in Mine(p) /\ Readable(c)
WalkOK(p) ==
    spc[p] = "walk" => /\ walk[p] \in Mine(p) \cup {Nil}
                       /\ \E D \in SUBSET Clients : Behind(p, D)

Sound(p) == ListOK(p) /\ BacklogOK(p) /\ SeenOK(p) /\ WalkOK(p)
SInv == ServerTypes /\ \A p \in Servers : Sound(p)

(* The list of a server holds its open sockets.                              *)
LEMMA ListIsMine ==
  ASSUME NEW p \in Servers, ListOK(p)
  PROVE  InList(p) = Mine(p)
<1>1. Mine(p) \in SUBSET Clients /\ FollowsFrom(p, Mine(p))
  BY DEF Mine, ListOK, FollowsFrom
<1>2. InList(p) \subseteq Mine(p)
  BY <1>1 DEF InList
<1>3. Mine(p) \subseteq InList(p)
  BY <1>1 DEF InList, ListOK
<1> QED
  BY <1>2, <1>3

LEMMA SoundServers == SInv => ServerSound
<1> SUFFICES ASSUME SInv, NEW p \in Servers
             PROVE  /\ spc[p] = "walk" /\ walk[p] # Nil /\ walk[p] \in rfds[p] => Readable(walk[p])
                    /\ InList(p) = { c \in Clients : conn[c] = "open" /\ owner[c] = p }
                    /\ \A c \in InList(p) : prev[c] = Nil <=> head[p] = c
                    /\ \A c, d \in InList(p) : next[c] = d <=> prev[d] = c
  BY DEF ServerSound
<1>1. ListOK(p) /\ WalkOK(p) /\ InList(p) = Mine(p)
  BY ListIsMine DEF SInv, Sound
<1>2. spc[p] = "walk" /\ walk[p] # Nil /\ walk[p] \in rfds[p] => Readable(walk[p])
  BY <1>1 DEF WalkOK, Behind
<1> QED
  BY <1>1, <1>2 DEF ListOK, Mine

(* A server whose sockets, links and walk a step leaves alone.                *)
LEMMA ListFrame ==
  ASSUME NEW p \in Servers, ListOK(p), Mine(p)' = Mine(p), head'[p] = head[p],
         \A c \in Mine(p) : next'[c] = next[c] /\ prev'[c] = prev[c]
  PROVE  ListOK(p)'
<1>1. ASSUME NEW S \in SUBSET Clients, FollowsFrom(p, S)'
      PROVE  Mine(p) \subseteq S
  <2> DEFINE T == S \cap Mine(p)
  <2>1. FollowsFrom(p, T)
    BY <1>1 DEF FollowsFrom, ListOK
  <2>2. T \in SUBSET Clients
    OBVIOUS
  <2> QED
    BY <2>1, <2>2 DEF ListOK
<1> QED
  BY <1>1 DEF ListOK

LEMMA SoundFrame ==
  ASSUME NEW p \in Servers, ServerTypes, Sound(p), Mine(p)' = Mine(p), head'[p] = head[p],
         \A c \in Mine(p) : /\ next'[c] = next[c] /\ prev'[c] = prev[c]
                            /\ Readable(c) => Readable(c)',
         state'[p] = "none" => state[p] = "none",
         spc'[p] = spc[p], rfds'[p] = rfds[p], walk'[p] = walk[p], backlog'[p] = backlog[p],
         \A c \in Clients : conn[c] = "pending" /\ owner[c] = p
                              => conn'[c] = "pending" /\ owner'[c] = p
  PROVE  Sound(p)'
<1>1. ListOK(p)'
  BY ListFrame DEF Sound
<1>2. BacklogOK(p)'
  BY DEF Sound, BacklogOK, ServerTypes
<1>3. SeenOK(p)'
  BY DEF Sound, SeenOK
<1>4. WalkOK(p)'
  <2> SUFFICES ASSUME spc[p] = "walk"
               PROVE  walk[p] \in Mine(p) \cup {Nil} /\ \E D \in SUBSET Clients : Behind(p, D)'
    BY DEF WalkOK
  <2>1. walk[p] \in Mine(p) \cup {Nil}
    BY DEF Sound, WalkOK
  <2>2. PICK D \in SUBSET Clients : Behind(p, D)
    BY DEF Sound, WalkOK
  <2>3. Behind(p, D)'
    BY <2>1, <2>2 DEF Behind
  <2> QED
    BY <2>1, <2>3
<1> QED
  BY <1>1, <1>2, <1>3, <1>4 DEF Sound

(* The other servers when p moves: its sockets are not theirs.               *)
LEMMA OthersSound ==
  ASSUME SInv, NEW p \in Servers, NEW q \in Servers \ {p},
         Mine(q)' = Mine(q), head'[q] = head[q],
         \A c \in Clients \ Mine(p) :
             /\ conn[c] = "open" => next'[c] = next[c] /\ prev'[c] = prev[c]
             /\ conn[c] = "open" => asked'[c] = asked[c] /\ left'[c] = left[c],
         state'[q] = state[q], spc'[q] = spc[q], rfds'[q] = rfds[q], walk'[q] = walk[q],
         backlog'[q] = backlog[q],
         \A c \in Clients : conn[c] = "pending" /\ owner[c] = q
                            => conn'[c] = "pending" /\ owner'[c] = q
  PROVE  Sound(q)'
<1>1. \A c \in Mine(q) : c \in Clients \ Mine(p) /\ conn[c] = "open"
  BY DEF Mine
<1>2. \A c \in Mine(q) : /\ next'[c] = next[c] /\ prev'[c] = prev[c]
                         /\ Readable(c) => Readable(c)'
  BY <1>1 DEF Readable
<1>3. ServerTypes /\ Sound(q)
  BY DEF SInv
<1> QED
  BY <1>2, <1>3, SoundFrame

LEMMA CreateSound ==
  ASSUME SInv, NEW p \in Servers, ServerCreate(p)
  PROVE  SInv'
<1> USE DEF ServerCreate, At, connVars
<1>1. ServerTypes'
  BY DEF SInv, ServerTypes
<1>2. \A q \in Servers : Mine(q)' = Mine(q)
  BY DEF Mine
<1>3. ASSUME NEW q \in Servers \ {p}  PROVE Sound(q)'
  <2>1. head'[q] = head[q] /\ state'[q] = state[q] /\ spc'[q] = spc[q]
    BY DEF SInv, ServerTypes
  <2> QED
    BY <1>2, <2>1, OthersSound
<1>4. Sound(p)'
  <2>1. Sound(p) /\ ServerTypes
    BY DEF SInv
  <2>2. Mine(p)' = {} /\ spc'[p] = "select" /\ state'[p] = "running" /\ head'[p] = Nil
    BY <1>2, <2>1 DEF Sound, BacklogOK, ServerTypes
  <2>3. ListOK(p)'
    BY <2>2 DEF ListOK
  <2>4. BacklogOK(p)'
    BY <2>1, <2>2 DEF Sound, BacklogOK
  <2> QED
    BY <2>2, <2>3, <2>4 DEF Sound, SeenOK, WalkOK
<1> QED
  BY <1>1, <1>3, <1>4 DEF SInv

LEMMA SelectSound ==
  ASSUME SInv, NEW p \in Servers, Select(p)
  PROVE  SInv'
<1> USE DEF Select, At, connVars
<1>1. InList(p) = Mine(p)
  BY ListIsMine DEF SInv, Sound
<1>2. Watched(p) \in SUBSET (Clients \cup {Nil})
  BY <1>1 DEF Watched, Mine
<1>3. ServerTypes'
  BY <1>2 DEF SInv, ServerTypes
<1>4. \A q \in Servers : Mine(q)' = Mine(q)
  BY DEF Mine
<1>5. ASSUME NEW q \in Servers \ {p}  PROVE Sound(q)'
  <2>1. spc'[q] = spc[q] /\ rfds'[q] = rfds[q]
    BY DEF SInv, ServerTypes
  <2> QED
    BY <1>4, <2>1, OthersSound
<1>6. Sound(p)'
  <2>1. Sound(p) /\ ServerTypes /\ Mine(p)' = Mine(p)
    BY <1>4 DEF SInv
  <2>2. spc'[p] = "accept" /\ rfds'[p] = Watched(p)
    BY <2>1 DEF ServerTypes
  <2>3. ListOK(p)'
    BY <2>1, ListFrame DEF Sound
  <2>4. BacklogOK(p)'
    BY <2>1, <2>2 DEF Sound, BacklogOK
  <2>5. SeenOK(p)'
    BY <1>1, <2>1, <2>2, ServerAssumption DEF SeenOK, Watched, Readable, Mine
  <2> QED
    BY <2>2, <2>3, <2>4, <2>5 DEF Sound, WalkOK
<1> QED
  BY <1>3, <1>5, <1>6 DEF SInv

(* The walk begins at the head of the list.                                  *)
LEMMA WalkBegins ==
  ASSUME NEW p \in Servers, Sound(p), spc[p] = "accept", Mine(p)' = Mine(p),
         UNCHANGED <<head, next, prev, left, asked>>, rfds'[p] \subseteq rfds[p],
         walk'[p] = head[p], spc'[p] = "walk"
  PROVE  WalkOK(p)'
<1>1. Behind(p, {})'
  BY ServerAssumption DEF Sound, SeenOK, ListOK, Behind, Readable
<1>2. walk'[p] \in Mine(p)' \cup {Nil}
  BY DEF Sound, ListOK
<1> QED
  BY <1>1, <1>2 DEF WalkOK

LEMMA NoneSound ==
  ASSUME SInv, NEW p \in Servers, AcceptFails(p) \/ AcceptNone(p)
  PROVE  SInv'
<1> USE DEF AcceptFails, AcceptNone, At, connVars
<1>1. ServerTypes'
  <2>1. ServerTypes /\ head[p] \in Clients \cup {Nil}
    BY DEF SInv, ServerTypes
  <2>2. spc' = [spc EXCEPT ![p] = "walk"] /\ walk' = [walk EXCEPT ![p] = head[p]]
    OBVIOUS
  <2>3. state' \in [Servers -> {"none", "running", "stopping"}]
    BY <2>1 DEF ServerTypes
  <2>4. rfds' \in [Servers -> SUBSET (Clients \cup {Nil})]
    <3>1. rfds \in [Servers -> SUBSET (Clients \cup {Nil})]
      BY <2>1 DEF ServerTypes
    <3>2. rfds' = [rfds EXCEPT ![p] = rfds[p] \ {Nil}] \/ rfds' = rfds
      OBVIOUS
    <3> HIDE DEF AcceptFails, AcceptNone, At, connVars
    <3> QED
      BY <3>1, <3>2
  <2>5. /\ spc' \in [Servers -> {"select", "accept", "walk"}]
        /\ walk' \in [Servers -> Clients \cup {Nil}]
    BY <2>1, <2>2 DEF ServerTypes
  <2> QED
    BY <2>1, <2>3, <2>4, <2>5 DEF ServerTypes
<1>2. \A q \in Servers : Mine(q)' = Mine(q)
  BY DEF Mine
<1>3. ASSUME NEW q \in Servers \ {p}  PROVE Sound(q)'
  <2>1. state'[q] = state[q] /\ spc'[q] = spc[q] /\ walk'[q] = walk[q] /\ rfds'[q] = rfds[q]
    BY DEF SInv, ServerTypes
  <2> QED
    BY <1>2, <2>1, OthersSound
<1>4. Sound(p)'
  <2>1. Sound(p) /\ ServerTypes /\ Mine(p)' = Mine(p)
    BY <1>2 DEF SInv
  <2>2. /\ spc'[p] = "walk" /\ walk'[p] = head[p] /\ spc[p] = "accept"
        /\ state'[p] = "none" => state[p] = "none"
        /\ rfds'[p] \subseteq rfds[p]
    BY <2>1 DEF ServerTypes
  <2>3. ListOK(p)'
    BY <2>1, ListFrame DEF Sound
  <2>4. BacklogOK(p)'
    BY <2>1, <2>2 DEF Sound, BacklogOK
  <2>5. WalkOK(p)'
    BY <2>1, <2>2, WalkBegins
  <2> QED
    BY <2>2, <2>3, <2>4, <2>5 DEF Sound, SeenOK
<1> QED
  BY <1>1, <1>3, <1>4 DEF SInv

(* A new client is linked before the first one.                              *)
LEMMA AcceptSound ==
  ASSUME SInv, NEW p \in Servers, Accept(p)
  PROVE  SInv'
<1> DEFINE c == Head(backlog[p])
<1>1. ServerTypes /\ Sound(p) /\ spc[p] = "accept" /\ Nil \in rfds[p]
  BY DEF SInv, Accept
<1>2. backlog[p] # << >> /\ backlog[p] \in Seq(Clients)
  BY <1>1 DEF Sound, SeenOK, ServerTypes
<1>3. /\ c \in Clients /\ c = backlog[p][1] /\ Len(backlog[p]) >= 1
      /\ Tail(backlog[p]) \in Seq(Clients) /\ Len(Tail(backlog[p])) = Len(backlog[p]) - 1
      /\ \A n \in 1 .. Len(backlog[p]) - 1 : Tail(backlog[p])[n] = backlog[p][n + 1]
  BY <1>2
<1>4. conn[c] = "pending" /\ owner[c] = p
  BY <1>1, <1>3 DEF Sound, BacklogOK
<1>5. /\ conn' = [conn EXCEPT ![c] = "open"] /\ next' = [next EXCEPT ![c] = head[p]]
      /\ prev' = [d \in Clients |-> IF d = c THEN Nil ELSE IF d = head[p] THEN c ELSE prev[d]]
      /\ head' = [head EXCEPT ![p] = c] /\ walk' = [walk EXCEPT ![p] = c]
      /\ backlog' = [backlog EXCEPT ![p] = Tail(@)] /\ spc' = [spc EXCEPT ![p] = "walk"]
      /\ rfds' = [rfds EXCEPT ![p] = @ \ {Nil}]
      /\ UNCHANGED <<spath, state, file, owner, left, asked, answered, waits, files>>
  BY DEF Accept, LinkedBack, At
<1> HIDE DEF c
<1>6. ServerTypes'
  BY <1>1, <1>3, <1>5 DEF ServerTypes
<1>7. Mine(p)' = Mine(p) \cup {c} /\ c \notin Mine(p)
  BY <1>1, <1>3, <1>4, <1>5 DEF Mine, ServerTypes
<1>8. \A q \in Servers \ {p} : Mine(q)' = Mine(q)
  BY <1>1, <1>4, <1>5 DEF Mine, ServerTypes
<1>9. ASSUME NEW q \in Servers \ {p}  PROVE Sound(q)'
  <2>1. head[p] \in Mine(p) \cup {Nil}
    BY <1>1 DEF Sound, ListOK
  <2>2. \A d \in Clients \ Mine(p) :
           conn[d] = "open" => next'[d] = next[d] /\ prev'[d] = prev[d]
    BY <1>1, <1>4, <1>5, <2>1, ServerAssumption DEF ServerTypes
  <2>3. \A d \in Clients : conn[d] = "pending" /\ owner[d] = q
                           => conn'[d] = "pending" /\ owner'[d] = q
    BY <1>1, <1>4, <1>5 DEF ServerTypes
  <2>4. /\ head'[q] = head[q] /\ state'[q] = state[q] /\ spc'[q] = spc[q]
        /\ rfds'[q] = rfds[q] /\ walk'[q] = walk[q] /\ backlog'[q] = backlog[q]
    BY <1>1, <1>5 DEF ServerTypes
  <2> QED
    BY <1>5, <1>8, <2>2, <2>3, <2>4, OthersSound
<1>10. ListOK(p)'
  <2>1. /\ head[p] \in Mine(p) \cup {Nil} /\ head'[p] = c /\ c \in Clients /\ Mine(p) \subseteq Clients
        /\ next'[c] = head[p] /\ prev'[c] = Nil
        /\ \A d \in Mine(p) : next'[d] = next[d] /\ prev'[d] = IF d = head[p] THEN c ELSE prev[d]
        /\ Nil \notin Clients
    BY <1>1, <1>3, <1>5, <1>7, ServerAssumption DEF ServerTypes, Sound, ListOK, Mine
  <2>2. \A d \in Mine(p)' : /\ next'[d] \in Mine(p)' \cup {Nil} /\ prev'[d] \in Mine(p)' \cup {Nil}
                            /\ prev'[d] = Nil <=> head'[p] = d
    BY <1>1, <1>7, <2>1 DEF Sound, ListOK
  <2>3. \A d, e \in Mine(p)' : next'[d] = e <=> prev'[e] = d
    BY <1>1, <1>7, <2>1 DEF Sound, ListOK
  <2>4. ASSUME NEW S \in SUBSET Clients, FollowsFrom(p, S)'
        PROVE  Mine(p)' \subseteq S
    <3> DEFINE T == S \cap Mine(p)
    <3>1. c \in S
      BY <2>1, <2>4 DEF FollowsFrom
    <3>2. FollowsFrom(p, T)
      <4>1. head[p] \in T \cup {Nil}
        BY <2>1, <2>4, <3>1 DEF FollowsFrom
      <4>2. \A d \in T : next[d] \in T \cup {Nil}
        BY <1>1, <2>1, <2>4 DEF FollowsFrom, Sound, ListOK
      <4> QED
        BY <4>1, <4>2 DEF FollowsFrom
    <3>3. T \in SUBSET Clients
      OBVIOUS
    <3> QED
      BY <1>1, <1>7, <3>1, <3>2, <3>3 DEF Sound, ListOK
  <2> QED
    BY <1>7, <2>1, <2>2, <2>3, <2>4 DEF ListOK
<1>11. BacklogOK(p)'
  <2>1. backlog'[p] = Tail(backlog[p]) /\ state'[p] = state[p] /\ state[p] # "none"
    BY <1>1, <1>2, <1>5 DEF ServerTypes, Sound, BacklogOK
  <2>2. ASSUME NEW n \in 1 .. Len(backlog'[p])
        PROVE  /\ conn'[backlog'[p][n]] = "pending" /\ owner'[backlog'[p][n]] = p
               /\ backlog'[p][n] = backlog[p][n + 1] /\ n + 1 \in 1 .. Len(backlog[p])
    <3>1. n + 1 \in 1 .. Len(backlog[p]) /\ 1 \in 1 .. Len(backlog[p]) /\ n + 1 # 1
          /\ backlog'[p][n] = backlog[p][n + 1]
      BY <1>3, <2>1
    <3>2. backlog[p][n + 1] # c /\ backlog[p][n + 1] \in Clients
      BY <1>1, <1>2, <1>3, <3>1 DEF Sound, BacklogOK
    <3> QED
      BY <1>1, <1>5, <3>1, <3>2 DEF ServerTypes, Sound, BacklogOK
  <2>3. \A n, m \in 1 .. Len(backlog'[p]) : backlog'[p][n] = backlog'[p][m] => n = m
    <3> SUFFICES ASSUME NEW n \in 1 .. Len(backlog'[p]), NEW m \in 1 .. Len(backlog'[p]),
                        backlog'[p][n] = backlog'[p][m]
                 PROVE  n = m
      OBVIOUS
    <3>1. /\ n + 1 \in 1 .. Len(backlog[p]) /\ backlog'[p][n] = backlog[p][n + 1]
          /\ m + 1 \in 1 .. Len(backlog[p]) /\ backlog'[p][m] = backlog[p][m + 1]
      BY <2>2
    <3>2. n + 1 = m + 1
      BY <1>1, <3>1 DEF Sound, BacklogOK
    <3> QED
      BY <3>2
  <2> QED
    BY <2>1, <2>2, <2>3 DEF BacklogOK
<1>12. WalkOK(p)'
  <2>1. Behind(p, {})'
    BY <1>1, <1>3, <1>5, <1>7, ServerAssumption DEF ServerTypes, Sound, SeenOK, Behind, Readable
  <2>2. walk'[p] \in Mine(p)'
    BY <1>1, <1>5, <1>7 DEF ServerTypes
  <2> QED
    BY <2>1, <2>2 DEF WalkOK
<1>13. SeenOK(p)'
  BY <1>1, <1>5 DEF ServerTypes, SeenOK
<1> QED
  BY <1>6, <1>9, <1>10, <1>11, <1>12, <1>13 DEF SInv, Sound

(* The client that the walk looks at is not behind it; the next one comes    *)
(* right after it.                                                           *)
LEMMA WalkAhead ==
  ASSUME SInv, NEW p \in Servers, spc[p] = "walk", walk[p] # Nil
  PROVE  \E c \in Clients, D \in SUBSET Clients :
           /\ c = walk[p] /\ Behind(p, D) /\ c \in Mine(p)
           /\ prev[c] \in D \cup {Nil} /\ prev[c] # c
           /\ next[c] \in Mine(p) \cup {Nil} /\ next[c] \notin D \cup {c}
           /\ next[c] # Nil => prev[next[c]] = c
<1>1. ListOK(p) /\ WalkOK(p)
  BY DEF SInv, Sound
<1>2. PICK D \in SUBSET Clients : Behind(p, D)
  BY <1>1 DEF WalkOK
<1> DEFINE c == walk[p]
           n == next[c]
<1>3. /\ c \in Mine(p) /\ c \in Clients /\ c \notin D /\ c # Nil /\ prev[c] \in D \cup {Nil}
      /\ n \in Mine(p) \cup {Nil}
  BY <1>1, <1>2 DEF WalkOK, ListOK, Behind, Mine
<1>4. n # Nil => prev[n] = c
  BY <1>1, <1>3 DEF ListOK
<1>5. Nil \notin D
  BY ServerAssumption
<1>6. n \notin D \cup {c}
  BY <1>1, <1>2, <1>3, <1>4, <1>5 DEF Behind
<1>7. prev[c] # c
  BY <1>3
<1> QED
  BY <1>2, <1>3, <1>4, <1>6, <1>7

LEMMA StepSound ==
  ASSUME SInv, NEW p \in Servers, WalkEnd(p) \/ WalkOver(p)
  PROVE  SInv'
<1> USE DEF WalkEnd, WalkOver, At, connVars
<1>1. ServerTypes'
  <2>1. /\ spc' \in [Servers -> {"select", "accept", "walk"}]
        /\ rfds' \in [Servers -> SUBSET (Clients \cup {Nil})]
    BY DEF SInv, ServerTypes
  <2>2. walk' \in [Servers -> Clients \cup {Nil}]
    BY DEF SInv, ServerTypes
  <2> QED
    BY <2>1, <2>2 DEF SInv, ServerTypes
<1>2. \A q \in Servers : Mine(q)' = Mine(q)
  BY DEF Mine
<1>3. ASSUME NEW q \in Servers \ {p}  PROVE Sound(q)'
  <2>1. rfds'[q] = rfds[q] /\ spc'[q] = spc[q] /\ walk'[q] = walk[q]
    BY DEF SInv, ServerTypes
  <2> QED
    BY <1>2, <2>1, OthersSound
<1>4. Sound(p)'
  <2>1. Sound(p) /\ ServerTypes /\ Mine(p)' = Mine(p)
    BY <1>2 DEF SInv
  <2>2. ListOK(p)'
    BY <2>1, ListFrame DEF Sound
  <2>3. CASE WalkEnd(p)
    <3>1. spc'[p] = "select"
      BY <2>1, <2>3 DEF ServerTypes
    <3> QED
      BY <2>1, <2>2, <2>3, <3>1 DEF Sound, BacklogOK, SeenOK, WalkOK
  <2>4. CASE WalkOver(p)
    <3>1. PICK c \in Clients, D \in SUBSET Clients :
             /\ c = walk[p] /\ Behind(p, D) /\ c \in Mine(p) /\ prev[c] \in D \cup {Nil}
             /\ next[c] \in Mine(p) \cup {Nil} /\ next[c] \notin D \cup {c}
             /\ next[c] # Nil => prev[next[c]] = c
      BY <2>4, WalkAhead
    <3>2. walk'[p] = next[c] /\ c \notin rfds[p]
      BY <2>1, <2>4, <3>1 DEF ServerTypes
    <3>3. Behind(p, D \cup {c})'
      BY <2>1, <2>4, <3>1, <3>2 DEF Behind, Readable
    <3>4. WalkOK(p)'
      BY <2>1, <2>4, <3>1, <3>2, <3>3 DEF WalkOK
    <3> QED
      BY <2>1, <2>2, <2>4, <3>4 DEF Sound, BacklogOK, SeenOK
  <2> QED
    BY <2>3, <2>4
<1> QED
  BY <1>1, <1>3, <1>4 DEF SInv

LEMMA MessageSound ==
  ASSUME SInv, NEW p \in Servers, Message(p)
  PROVE  SInv'
<1>1. PICK c \in Clients, D \in SUBSET Clients :
         /\ c = walk[p] /\ Behind(p, D) /\ c \in Mine(p) /\ prev[c] \in D \cup {Nil}
         /\ next[c] \in Mine(p) \cup {Nil} /\ next[c] \notin D \cup {c}
         /\ next[c] # Nil => prev[next[c]] = c
  BY WalkAhead DEF Message
<1>2. /\ spc[p] = "walk" /\ c # Nil
      /\ asked' = [asked EXCEPT ![c] = "none"] /\ walk' = [walk EXCEPT ![p] = next[c]]
      /\ rfds' = [rfds EXCEPT ![p] = @ \ {c}]
      /\ UNCHANGED <<spath, state, spc, head, next, prev, conn, owner, backlog, left>>
  BY <1>1 DEF Message
<1>3. ServerTypes /\ Sound(p)
  BY DEF SInv
<1>4. ServerTypes'
  <2>1. asked' \in [Clients -> Requests \cup {"none", "setting"}] /\ walk' \in [Servers -> Clients \cup {Nil}]
    BY <1>2, <1>1, <1>3 DEF ServerTypes
  <2> QED
    BY <1>2, <1>3, <2>1 DEF ServerTypes
<1>5. \A q \in Servers : Mine(q)' = Mine(q)
  BY <1>2 DEF Mine
<1>6. ASSUME NEW q \in Servers \ {p}  PROVE Sound(q)'
  <2>1. \A d \in Clients \ Mine(p) : asked'[d] = asked[d]
    BY <1>2, <1>1, <1>3 DEF ServerTypes
  <2>2. walk'[q] = walk[q] /\ rfds'[q] = rfds[q]
    BY <1>2, <1>3 DEF ServerTypes
  <2> QED
    BY <1>2, <1>5, <2>1, <2>2, OthersSound
<1>7. Sound(p)'
  <2>1. ListOK(p)'
    BY <1>2, <1>3, <1>5, ListFrame DEF Sound
  <2>2. /\ walk'[p] = next[c] /\ rfds'[p] = rfds[p] \ {c}
        /\ \A d \in Clients \ {c} : asked'[d] = asked[d]
    BY <1>2, <1>3 DEF ServerTypes
  <2>3. Behind(p, D \cup {c})'
    BY <1>2, <1>1, <1>5, <2>2 DEF Behind, Readable, Mine
  <2>4. WalkOK(p)'
    BY <1>1, <1>5, <2>2, <2>3 DEF WalkOK
  <2> QED
    BY <1>2, <1>3, <1>5, <2>1, <2>4 DEF Sound, BacklogOK, SeenOK
<1> QED
  BY <1>4, <1>6, <1>7 DEF SInv

(* A client that has gone is taken out between the one before and the next.  *)
LEMMA GoneSound ==
  ASSUME SInv, NEW p \in Servers, ClientGone(p)
  PROVE  SInv'
<1>1. PICK c \in Clients, n \in Clients \cup {Nil}, e \in Clients \cup {Nil}, D \in SUBSET Clients :
         /\ c = walk[p] /\ n = next[c] /\ e = prev[c]
         /\ Behind(p, D) /\ c \in Mine(p) /\ e \in D \cup {Nil} /\ e # c
         /\ n \in Mine(p) \cup {Nil} /\ n \notin D \cup {c}
         /\ n # Nil => prev[n] = c
  <2>1. \A d \in Clients : next[d] \in Clients \cup {Nil} /\ prev[d] \in Clients \cup {Nil}
    BY DEF SInv, ServerTypes
  <2> QED
    BY <2>1, WalkAhead DEF ClientGone
<1>2. /\ spc[p] = "walk" /\ c # Nil
      /\ head' = [head EXCEPT ![p] = IF @ = c THEN n ELSE @]
      /\ prev' = [d \in Clients |-> IF d = c THEN Nil ELSE IF d = n THEN e ELSE prev[d]]
      /\ next' = [d \in Clients |-> IF d = c THEN Nil ELSE IF d = e THEN n ELSE next[d]]
      /\ walk' = [walk EXCEPT ![p] = n]
      /\ conn' = [conn EXCEPT ![c] = "free"] /\ owner' = [owner EXCEPT ![c] = Nil]
      /\ left' = [left EXCEPT ![c] = FALSE]
      /\ rfds' = [rfds EXCEPT ![p] = @ \ {c}]
      /\ UNCHANGED <<spath, state, spc, backlog, asked>>
  BY <1>1 DEF ClientGone
<1>3. ServerTypes /\ Sound(p) /\ ListOK(p) /\ e \in Mine(p) \cup {Nil} /\ (e # Nil => next[e] = c)
  BY <1>1 DEF SInv, Sound, ListOK
<1>4. e = Nil <=> head[p] = c
  BY <1>1, <1>3 DEF ListOK
<1>5. ServerTypes'
  <2>1. /\ n \in Clients \cup {Nil} /\ e \in Clients \cup {Nil}
    BY <1>1, <1>3 DEF Mine
  <2>2. /\ head' \in [Servers -> Clients \cup {Nil}] /\ walk' \in [Servers -> Clients \cup {Nil}]
        /\ prev' \in [Clients -> Clients \cup {Nil}] /\ next' \in [Clients -> Clients \cup {Nil}]
    BY <1>2, <1>3, <2>1 DEF ServerTypes
  <2>3. /\ conn' \in [Clients -> {"free", "pending", "open", "closed"}]
        /\ owner' \in [Clients -> Servers \cup {Nil}] /\ left' \in [Clients -> BOOLEAN]
    BY <1>2, <1>3 DEF ServerTypes
  <2> QED
    BY <1>2, <1>3, <2>2, <2>3 DEF ServerTypes
<1>6. Mine(p)' = Mine(p) \ {c} /\ \A q \in Servers \ {p} : Mine(q)' = Mine(q)
  BY <1>2, <1>1, <1>3, ServerAssumption DEF Mine, ServerTypes
<1>7. ASSUME NEW q \in Servers \ {p}  PROVE Sound(q)'
  <2>1. \A d \in Clients \ Mine(p) :
           next'[d] = next[d] /\ prev'[d] = prev[d] /\ left'[d] = left[d]
    <3>1. \A d \in Clients \ Mine(p) : d # c /\ d # n /\ d # e
      BY <1>1, <1>3, ServerAssumption
    <3> QED
      BY <1>2, <1>3, <3>1 DEF ServerTypes
  <2>2. \A d \in Clients : conn[d] = "pending" /\ owner[d] = q
                           => conn'[d] = "pending" /\ owner'[d] = q
    BY <1>2, <1>1, <1>3 DEF ServerTypes, Mine
  <2>3. /\ head'[q] = head[q] /\ walk'[q] = walk[q] /\ rfds'[q] = rfds[q]
        /\ state' = state /\ spc' = spc /\ backlog' = backlog /\ asked' = asked
    BY <1>2, <1>3 DEF ServerTypes
  <2>4. Mine(q)' = Mine(q)
    BY <1>6
  <2> QED
    BY <2>1, <2>2, <2>3, <2>4, OthersSound
<1>8. /\ Nil \notin Mine(p) /\ Mine(p) \subseteq Clients
      /\ head'[p] = IF head[p] = c THEN n ELSE head[p]
      /\ walk'[p] = n /\ rfds'[p] = rfds[p] \ {c}
  BY <1>2, <1>3, ServerAssumption DEF ServerTypes, Mine
<1>9. \A d \in Clients : /\ prev'[d] = IF d = c THEN Nil ELSE IF d = n THEN e ELSE prev[d]
                         /\ next'[d] = IF d = c THEN Nil ELSE IF d = e THEN n ELSE next[d]
  BY <1>2
<1>10. ListOK(p)'
  <2>1. head'[p] \in Mine(p)' \cup {Nil}
    BY <1>1, <1>3, <1>6, <1>8 DEF ListOK
  <2>2. ASSUME NEW d \in Mine(p)'
        PROVE  /\ next'[d] \in Mine(p)' \cup {Nil} /\ prev'[d] \in Mine(p)' \cup {Nil}
               /\ prev'[d] = Nil <=> head'[p] = d
    <3>1. /\ d \in Mine(p) /\ d # c /\ next[d] \in Mine(p) \cup {Nil} /\ prev[d] \in Mine(p) \cup {Nil}
          /\ next[d] = c <=> e = d
          /\ prev[d] = c <=> n = d
          /\ prev[d] = Nil <=> head[p] = d
      BY <1>1, <1>3, <1>6 DEF ListOK
    <3> QED
      BY <1>1, <1>3, <1>4, <1>6, <1>8, <1>9, <3>1
  <2>3. ASSUME NEW d \in Mine(p)', NEW f \in Mine(p)'
        PROVE  next'[d] = f <=> prev'[f] = d
    <3>1. /\ d \in Mine(p) /\ d # c /\ f \in Mine(p) /\ f # c
          /\ next[d] = f <=> prev[f] = d
          /\ next[d] = c <=> e = d
          /\ prev[f] = c <=> n = f
      BY <1>1, <1>3, <1>6 DEF ListOK
    <3> QED
      BY <1>3, <1>8, <1>9, <3>1
  <2>4. ASSUME NEW S \in SUBSET Clients, FollowsFrom(p, S)'
        PROVE  Mine(p)' \subseteq S
    <3> DEFINE T == S \cap (Mine(p) \ {c})
    <3>1. /\ head'[p] \in S \cup {Nil} /\ \A d \in S : next'[d] \in S \cup {Nil}
      BY <2>4 DEF FollowsFrom
    <3>2. CASE e \in T \/ e = Nil
      <4>1. n \in S \cup {Nil}
        BY <1>1, <1>3, <1>4, <1>8, <1>9, <3>1, <3>2
      <4>2. head[p] \in T \cup {c, Nil}
        BY <1>3, <1>8, <3>1 DEF ListOK
      <4>3. \A d \in T \cup {c} : next[d] \in T \cup {c, Nil}
        <5> SUFFICES ASSUME NEW d \in T \cup {c}
                     PROVE  next[d] \in T \cup {c, Nil}
          OBVIOUS
        <5>1. CASE d = c
          BY <1>1, <4>1, <5>1
        <5>2. CASE d # c
          BY <1>3, <1>8, <1>9, <3>1, <5>2 DEF ListOK
        <5> QED
          BY <5>1, <5>2
      <4>4. FollowsFrom(p, T \cup {c})
        BY <4>2, <4>3 DEF FollowsFrom
      <4>5. T \cup {c} \in SUBSET Clients
        BY <1>1
      <4> QED
        BY <1>3, <1>6, <4>4, <4>5 DEF ListOK
    <3>3. CASE e \notin T /\ e # Nil
      <4>1. head[p] \in T \cup {Nil}
        BY <1>3, <1>4, <1>8, <3>1, <3>3 DEF ListOK
      <4>2. \A d \in T : next[d] # c
        BY <1>1, <1>3, <3>3 DEF ListOK
      <4>3. \A d \in T : next[d] \in T \cup {Nil}
        BY <1>3, <1>8, <1>9, <3>1, <3>3, <4>2 DEF ListOK
      <4>4. FollowsFrom(p, T) /\ T \in SUBSET Clients
        BY <4>1, <4>3 DEF FollowsFrom
      <4> QED
        BY <1>1, <1>3, <4>4 DEF ListOK
    <3> QED
      BY <3>2, <3>3
  <2> QED
    BY <2>1, <2>2, <2>3, <2>4 DEF ListOK
<1>11. BacklogOK(p)'
  <2>1. \A d \in Clients : conn[d] = "pending" /\ owner[d] = p
                           => conn'[d] = "pending" /\ owner'[d] = p
    BY <1>2, <1>1, <1>3 DEF ServerTypes, Mine
  <2> QED
    BY <1>2, <1>1, <1>3, <1>6, <2>1 DEF Sound, BacklogOK, ServerTypes
<1>12. WalkOK(p)'
  <2>1. \A d \in Clients \ {c} : asked'[d] = asked[d] /\ left'[d] = left[d]
    BY <1>2, <1>3 DEF ServerTypes
  <2>2. Behind(p, D \cup {c})'
    BY <1>2, <1>1, <1>6, <1>8, <1>9, <2>1, ServerAssumption DEF Behind, Readable
  <2> QED
    BY <1>1, <1>6, <1>8, <2>2 DEF WalkOK
<1>13. SeenOK(p)'
  BY <1>2 DEF SeenOK
<1> QED
  BY <1>5, <1>7, <1>10, <1>11, <1>12, <1>13 DEF SInv, Sound

(* The process ends, in whatever it was, and its sockets with it.            *)
LEMMA ClosedSound ==
  ASSUME SInv, NEW p \in Servers, Closed(p), spath' \in Servers \cup {Nil}
  PROVE  SInv'
<1> DEFINE gone == { c \in Clients : owner[c] = p }
<1>1. ServerTypes
  BY DEF SInv
<1>2. /\ state' = [state EXCEPT ![p] = "none"] /\ spc' = [spc EXCEPT ![p] = "select"]
      /\ rfds' = [rfds EXCEPT ![p] = {}]
      /\ head' = [head EXCEPT ![p] = Nil] /\ walk' = [walk EXCEPT ![p] = Nil]
      /\ next' = [c \in Clients |-> IF c \in gone THEN Nil ELSE next[c]]
      /\ prev' = [c \in Clients |-> IF c \in gone THEN Nil ELSE prev[c]]
      /\ conn' = [c \in Clients |-> IF c \notin gone THEN conn[c]
                                    ELSE IF left[c] THEN "free" ELSE "closed"]
      /\ owner' = [c \in Clients |-> IF c \in gone THEN Nil ELSE owner[c]]
      /\ left' = [c \in Clients |-> IF c \in gone THEN FALSE ELSE left[c]]
      /\ asked' = [c \in Clients |-> IF c \in gone THEN "none" ELSE asked[c]]
      /\ backlog' = [backlog EXCEPT ![p] = << >>]
  BY DEF Closed, At
<1>3. ServerTypes'
  <2>1. /\ state' \in [Servers -> {"none", "running", "stopping"}]
        /\ spc' \in [Servers -> {"select", "accept", "walk"}]
        /\ rfds' \in [Servers -> SUBSET (Clients \cup {Nil})]
    BY <1>1, <1>2 DEF ServerTypes
  <2>2. /\ head' \in [Servers -> Clients \cup {Nil}] /\ walk' \in [Servers -> Clients \cup {Nil}]
        /\ backlog' \in [Servers -> Seq(Clients)]
    BY <1>1, <1>2 DEF ServerTypes
  <2>3. /\ next' \in [Clients -> Clients \cup {Nil}] /\ prev' \in [Clients -> Clients \cup {Nil}]
        /\ owner' \in [Clients -> Servers \cup {Nil}]
    BY <1>1, <1>2 DEF ServerTypes
  <2>4. /\ conn' \in [Clients -> {"free", "pending", "open", "closed"}]
        /\ left' \in [Clients -> BOOLEAN]
        /\ asked' \in [Clients -> Requests \cup {"none", "setting"}]
    BY <1>1, <1>2 DEF ServerTypes
  <2> QED
    BY <2>1, <2>2, <2>3, <2>4 DEF ServerTypes
<1>4. \A c \in Clients \ gone : /\ next'[c] = next[c] /\ prev'[c] = prev[c] /\ conn'[c] = conn[c]
                                /\ owner'[c] = owner[c] /\ left'[c] = left[c] /\ asked'[c] = asked[c]
  BY <1>2
<1>5. \A c \in gone : owner'[c] = Nil
  BY <1>2
<1>6. Mine(p)' = {} /\ \A q \in Servers \ {p} : Mine(q)' = Mine(q)
  BY <1>4, <1>5, ServerAssumption DEF Mine
<1>7. ASSUME NEW q \in Servers \ {p}  PROVE Sound(q)'
  <2>1. \A c \in Clients : owner[c] = q => c \in Clients \ gone
    OBVIOUS
  <2>2. \A c \in Mine(q) : /\ next'[c] = next[c] /\ prev'[c] = prev[c]
                           /\ Readable(c) => Readable(c)'
    BY <1>4, <2>1 DEF Mine, Readable
  <2>3. \A c \in Clients : conn[c] = "pending" /\ owner[c] = q
                           => conn'[c] = "pending" /\ owner'[c] = q
    BY <1>4, <2>1
  <2>4. /\ head'[q] = head[q] /\ state'[q] = state[q] /\ spc'[q] = spc[q]
        /\ rfds'[q] = rfds[q] /\ walk'[q] = walk[q] /\ backlog'[q] = backlog[q]
    BY <1>1, <1>2 DEF ServerTypes
  <2>5. Sound(q)
    BY DEF SInv
  <2> QED
    BY <1>1, <1>6, <2>2, <2>3, <2>4, <2>5, SoundFrame
<1>8. Sound(p)'
  <2>1. head'[p] = Nil /\ spc'[p] = "select" /\ backlog'[p] = << >>
    BY <1>1, <1>2 DEF ServerTypes
  <2> QED
    BY <1>6, <2>1 DEF Sound, ListOK, BacklogOK, SeenOK, WalkOK
<1> QED
  BY <1>3, <1>7, <1>8 DEF SInv

LEMMA InterruptedSound ==
  ASSUME SInv, NEW q \in Servers, state' = Interrupted(q),
         UNCHANGED <<spath, spc, rfds, head, walk, file, next, prev, connVars, files>>
  PROVE  SInv'
<1>1. state' \in [Servers -> {"none", "running", "stopping"}]
      /\ \A p \in Servers : state'[p] = "none" => state[p] = "none"
  BY DEF SInv, ServerTypes, Interrupted
<1>2. ServerTypes'
  BY <1>1 DEF SInv, ServerTypes, connVars
<1>3. ASSUME NEW p \in Servers  PROVE Sound(p)'
  <2>1. Mine(p)' = Mine(p)
    BY DEF Mine, connVars
  <2> QED
    BY <1>1, <2>1, SoundFrame DEF SInv, connVars, Readable
<1> QED
  BY <1>2, <1>3 DEF SInv

LEMMA IdleSound ==
  ASSUME SInv, UNCHANGED controlVars
  PROVE  SInv'
<1> USE DEF controlVars, serverVars, connVars
<1>1. ServerTypes'
  BY DEF SInv, ServerTypes
<1>2. ASSUME NEW p \in Servers  PROVE Sound(p)'
  <2>1. Mine(p)' = Mine(p)
    BY DEF Mine
  <2> QED
    BY <2>1, SoundFrame DEF SInv, Readable
<1> QED
  BY <1>1, <1>2 DEF SInv

(* A new connection waits for accept().                                      *)
LEMMA ConnectSound ==
  ASSUME SInv, NEW c \in Clients, ClientCreate(c)
  PROVE  SInv'
<1>1. ServerTypes
  BY DEF SInv
<1>2. PICK p \in Servers : p = spath
  BY <1>1 DEF ClientCreate, ServerTypes
<1>3. /\ conn[c] = "free" /\ state[p] # "none"
      /\ conn' = [conn EXCEPT ![c] = "pending"] /\ owner' = [owner EXCEPT ![c] = p]
      /\ backlog' = [backlog EXCEPT ![p] = Append(@, c)]
      /\ UNCHANGED <<spath, state, spc, rfds, head, walk, next, prev, left, asked>>
  BY <1>2 DEF ClientCreate, serverVars
<1>4. ServerTypes'
  <2>1. /\ conn' \in [Clients -> {"free", "pending", "open", "closed"}]
        /\ owner' \in [Clients -> Servers \cup {Nil}]
    BY <1>1, <1>3 DEF ServerTypes
  <2>2. Append(backlog[p], c) \in Seq(Clients)
    BY <1>1 DEF ServerTypes
  <2>3. backlog' \in [Servers -> Seq(Clients)]
    BY <1>1, <1>3, <2>2 DEF ServerTypes
  <2> QED
    BY <1>1, <1>3, <2>1, <2>3 DEF ServerTypes
<1>5. \A q \in Servers : Mine(q)' = Mine(q)
  BY <1>1, <1>3 DEF Mine, ServerTypes
<1>6. \A d \in Clients \ {c} : conn'[d] = conn[d] /\ owner'[d] = owner[d]
  BY <1>1, <1>3 DEF ServerTypes
<1>7. ASSUME NEW q \in Servers \ {p}  PROVE Sound(q)'
  <2>1. backlog'[q] = backlog[q] /\ Sound(q)
    BY <1>1, <1>3 DEF ServerTypes, SInv
  <2>2. \A d \in Clients : conn[d] = "pending" /\ owner[d] = q
                           => conn'[d] = "pending" /\ owner'[d] = q
    BY <1>3, <1>6
  <2> QED
    BY <1>1, <1>3, <1>5, <2>1, <2>2, SoundFrame DEF Readable
<1>8. Sound(p)'
  <2> DEFINE b == backlog[p]
  <2>1. Sound(p) /\ b \in Seq(Clients) /\ backlog'[p] = Append(b, c)
    BY <1>1, <1>3 DEF ServerTypes, SInv
  <2>2. /\ Len(b) \in Nat /\ Append(b, c) # << >> /\ Len(Append(b, c)) = Len(b) + 1
        /\ Append(b, c)[Len(b) + 1] = c /\ \A n \in 1 .. Len(b) : Append(b, c)[n] = b[n] /\ b[n] \in Clients
    BY <2>1
  <2>3. ListOK(p)'
    BY <1>3, <1>5, <2>1, ListFrame DEF Sound
  <2>4. BacklogOK(p)'
    <3>1. \A n \in 1 .. Len(b) : /\ conn[b[n]] = "pending" /\ owner[b[n]] = p /\ b[n] # c
                                 /\ conn'[b[n]] = "pending" /\ owner'[b[n]] = p
      BY <1>3, <1>6, <2>1, <2>2 DEF Sound, BacklogOK
    <3>2. conn'[c] = "pending" /\ owner'[c] = p
      BY <1>1, <1>3 DEF ServerTypes
    <3>3. \A n, m \in 1 .. Len(b) : b[n] = b[m] => n = m
      BY <2>1 DEF Sound, BacklogOK
    <3>4. \A n \in 1 .. Len(b) + 1 : n \in 1 .. Len(b) \/ n = Len(b) + 1
      BY <2>2
    <3> HIDE DEF b
    <3>5. \A n \in 1 .. Len(backlog'[p]) : conn'[backlog'[p][n]] = "pending" /\ owner'[backlog'[p][n]] = p
      BY <2>1, <2>2, <3>1, <3>2, <3>4
    <3>6. \A n, m \in 1 .. Len(backlog'[p]) : backlog'[p][n] = backlog'[p][m] => n = m
      BY <2>1, <2>2, <3>1, <3>3, <3>4
    <3> QED
      BY <1>3, <3>5, <3>6 DEF BacklogOK
  <2>5. SeenOK(p)'
    BY <1>3, <1>5, <2>1, <2>2 DEF Sound, SeenOK, Readable
  <2>6. WalkOK(p)'
    BY <1>3, <1>5, <2>1 DEF Sound, WalkOK, Behind, Readable
  <2> QED
    BY <2>3, <2>4, <2>5, <2>6 DEF Sound
<1> QED
  BY <1>4, <1>7, <1>8 DEF SInv

(* What the clients send or close is there to be read.                       *)
LEMMA ClientSound ==
  ASSUME SInv, NEW c \in Clients, ClientStep(c)
  PROVE  SInv'
<1>1. CASE ClientCreate(c)
  BY <1>1, ConnectSound
<1>2. CASE ClientRequest(c) \/ ClientTells(c) \/ ClientReceive(c) \/ ClientDestroy(c)
  <2>1. ServerTypes /\ UNCHANGED <<serverVars, owner, backlog>>
    BY <1>2 DEF SInv, ClientRequest, ClientTells, ClientSend, ClientReceive, ClientDestroy
  <2>2. /\ conn' \in [Clients -> {"free", "pending", "open", "closed"}]
        /\ left' \in [Clients -> BOOLEAN]
        /\ asked' \in [Clients -> Requests \cup {"none", "setting"}]
        /\ \A d \in Clients : /\ conn[d] = "open" <=> conn'[d] = "open"
                              /\ conn[d] = "pending" => conn'[d] = "pending"
                              /\ asked[d] # "none" => asked'[d] # "none"
                              /\ left[d] => left'[d]
    <3>1. CASE ClientReceive(c)
      BY <2>1, <3>1 DEF ClientReceive, ServerTypes
    <3>2. CASE ClientDestroy(c)
      <4>1. CASE conn[c] = "closed"
        BY <2>1, <3>2, <4>1 DEF ClientDestroy, ServerTypes
      <4>2. CASE conn[c] # "closed"
        BY <2>1, <3>2, <4>2 DEF ClientDestroy, ServerTypes
      <4> QED
        BY <4>1, <4>2
    <3>3. CASE ClientRequest(c) \/ ClientTells(c)
      <4>1. PICK r \in Requests :
               /\ asked' = [asked EXCEPT ![c] = IF @ = "none" THEN r ELSE "setting"]
               /\ UNCHANGED <<conn, left>>
        BY <3>3 DEF ClientRequest, ClientTells, ClientSend
      <4> QED
        BY <2>1, <4>1 DEF ServerTypes
    <3> QED
      BY <1>2, <3>1, <3>2, <3>3
  <2>3. ServerTypes'
    BY <2>1, <2>2 DEF ServerTypes, serverVars
  <2>4. ASSUME NEW p \in Servers  PROVE Sound(p)'
    <3>1. Mine(p)' = Mine(p)
      BY <2>1, <2>2 DEF Mine
    <3>2. \A d \in Mine(p) : Readable(d) => Readable(d)'
      BY <2>2 DEF Readable, Mine
    <3> QED
      BY <2>1, <2>2, <3>1, <3>2, SoundFrame DEF SInv, serverVars
  <2> QED
    BY <2>3, <2>4 DEF SInv
<1> QED
  BY <1>1, <1>2 DEF ClientStep

LEMMA ServerInvariance == Spec => []SInv
<1>1. Init => SInv
  <2> SUFFICES ASSUME ControlInit
               PROVE  SInv
    BY DEF Init
  <2>1. ServerTypes
    BY DEF ControlInit, ServerTypes
  <2>2. ASSUME NEW p \in Servers  PROVE Sound(p)
    <3>1. Mine(p) = {} /\ head[p] = Nil /\ spc[p] = "select" /\ backlog[p] = << >>
      BY DEF ControlInit, Mine
    <3> QED
      BY <3>1 DEF Sound, ListOK, BacklogOK, SeenOK, WalkOK
  <2> QED
    BY <2>1, <2>2 DEF SInv
<1>2. SInv /\ [Next]_vars => SInv'
  <2> SUFFICES ASSUME SInv, [Next]_vars
               PROVE  SInv'
    OBVIOUS
  <2> USE ControlAssumption
  <2>1. ASSUME NEW p \in Procs, ServerDestroy(p) \/ ServerKilled(p)
        PROVE  SInv'
    BY <2>1, ClosedSound DEF ServerDestroy, ServerKilled, SInv, ServerTypes
  <2>2. ASSUME NEW p \in Procs, Starts(p) \/ LoopEnds(p)
        PROVE  SInv'
    BY <2>2, IdleSound DEF Starts, LoopEnds
  <2>3. ASSUME NEW p \in Procs, Setting(p)
        PROVE  SInv'
    BY <2>3, CreateSound, SelectSound, AcceptSound, NoneSound, StepSound, MessageSound,
       GoneSound, IdleSound DEF Setting, Serve
  <2>4. ASSUME NEW p \in Procs, Ends(p)
        PROVE  SInv'
    BY <2>1, <2>4, IdleSound DEF Ends
  <2>5. ASSUME NEW p \in Procs, Stops(p)
        PROVE  SInv'
    BY <2>1, <2>5, InterruptedSound DEF Stops
  <2>6. ASSUME NEW p \in Procs, BrokenPipe(p) \/ Crash(p)
        PROVE  SInv'
    BY <2>1, <2>6 DEF BrokenPipe, Crash
  <2>7. ASSUME NEW q \in Procs, Terminate(q)
        PROVE  SInv'
    BY <2>1, <2>7, InterruptedSound DEF Terminate
  <2>8. ASSUME NEW c \in Clients, ClientActs(c)
        PROVE  SInv'
    BY <2>8, ClientSound DEF ClientActs
  <2>9. CASE UNCHANGED vars
    BY <2>9, IdleSound DEF vars
  <2> QED
    BY <2>2, <2>3, <2>4, <2>5, <2>6, <2>7, <2>8, <2>9 DEF Next, Outside, Process
<1> QED
  BY <1>1, <1>2, PTL DEF Spec

(* However many clients come, ask and leave, and however the server ends:    *)
(* its list is that of its open sockets, linked in both directions, and it   *)
(* never waits in a read for a client of whom nothing has come (server.c).   *)
THEOREM ServersAreSound == Spec => []ServerSound
<1>1. SInv => ServerSound
  BY SoundServers
<1> QED
  BY <1>1, ServerInvariance, PTL
=============================================================================
