------------------------------ MODULE ProtoFile ------------------------------
(***************************************************************************)
(* The "file" transport (src/sproto_file.c).  What is written goes to a       *)
(* hidden file, `.tmp.part', which gets its name when the transport is        *)
(* closed; the next connection starts another one.  Two descriptors take      *)
(* turns.  In the read modes the file itself is opened.                       *)
(***************************************************************************)
EXTENDS Integers, FiniteSets, Transport

CONSTANTS FileMtu,     \* 1880 bytes in the code, a multiple of a packet
          MaxInodes,   \* bound: files the disk can hold
          MaxSeconds,  \* bound: seconds that can go by
          FileLen      \* frames in the file that is read, one at least
ASSUME FileAssumption ==
    FileMtu \in Nat /\ MaxInodes \in Nat /\ MaxSeconds \in Nat /\ FileLen \in Nat \ {0}

Inodes == 1 .. MaxInodes
Closed == -1
Stdin  == 0              \* what calloc() leaves in proto->fd
Source == MaxInodes + 1  \* the file that is read

NoName == 0              \* an empty proto->filename
Given  == 1              \* the name of the configuration
Stamp(second) == 2 + second   \* proto_generatename()

VARIABLES
    mode,      \* "write", "static", "loop", or "once" for a file that is read
               \* with none of the two read modes
    ffd,       \* proto->fd: an inode, Stdin or Closed
    curfd,     \* proto->currentfd
    filename,  \* proto->filename
    dir,       \* the files of the directory: name -> inode
    hidden,    \* the inode of `.tmp.part', 0 when there is none
    length,    \* 0 for an empty inode, else 1 + (units - 1) % Packet
    clock,     \* seconds
    pos        \* the frame that read() would give next

fileVars == <<mode, ffd, curfd, filename, dir, hidden, length, clock, pos>>

Reads == mode \in {"static", "loop"}

FileInit ==
    /\ mode \in {"write", "static", "loop", "once"}
    /\ ffd = [k \in 0 .. 1 |-> Stdin] /\ curfd = 0
    /\ filename \in {NoName, Given}
    /\ dir = << >>
    /\ hidden = 0
    /\ length = [i \in Inodes |-> 0]
    /\ clock = 0 /\ pos = 0

Linked == { dir[n] : n \in DOMAIN dir } \cup {hidden}
Opened == { ffd[k] : k \in 0 .. 1 }
FreeInodes == Inodes \ (Linked \cup Opened)

(* proto_connect_reg() in a read mode: the file is opened from its start.       *)
ReadConnect ==
    /\ call.op = "connect" /\ Reads
    /\ ffd' = [ffd EXCEPT ![curfd] = Source]
    /\ pos' = 0
    /\ Answer("ok")
    /\ UNCHANGED <<mode, curfd, filename, dir, hidden, length, clock>>

(* proto_connect_reg(): what is still in the hidden file is removed, another    *)
(* one is opened in the other descriptor, and the current one is closed.        *)
Release(k, other) == [ffd EXCEPT ![other] = k, ![curfd] = IF @ > 0 THEN Closed ELSE @]
WriteConnect ==
    /\ call.op = "connect" /\ ~ Reads
    /\ LET other == (curfd + 1) % 2
           free == FreeInodes \cup ({hidden} \ ({0} \cup Opened))
       IN  IF free = {}
           THEN /\ ffd' = [ffd EXCEPT ![other] = Closed]
                /\ hidden' = 0
                /\ Answer("error")
                /\ UNCHANGED <<curfd, length>>
           ELSE LET i == CHOOSE i \in free : TRUE
                IN  /\ ffd' = Release(i, other)
                    /\ curfd' = other
                    /\ hidden' = i
                    /\ length' = [length EXCEPT ![i] = 0]
                    /\ Answer("ok")
    /\ UNCHANGED <<mode, filename, dir, clock, pos>>

(* proto_send(): write(), which may fail at any time.                           *)
Longer(l, n) == IF n = 0 THEN l ELSE 1 + ((l + n - 1) % Packet)
FileSend ==
    /\ call.op = "send"
    /\ LET f == ffd[curfd]
       IN  \/ /\ f # Closed
              /\ length' = IF f = Stdin THEN length ELSE [length EXCEPT ![f] = Longer(@, call.len)]
              /\ Answer("ok")
           \/ Answer("error") /\ UNCHANGED length
    /\ UNCHANGED <<mode, ffd, curfd, filename, dir, hidden, clock, pos>>

(* proto_recv(): the whole file each time, or the next frame.  Without a read   *)
(* mode the file opened is the new, empty, hidden one.                          *)
FileRecv ==
    /\ call.op = "recv"
    /\ CASE mode = "static" -> pos' = 0 /\ Answer("ok")
         [] mode = "loop"   -> pos' = (pos % FileLen) + 1 /\ Answer("ok")
         [] OTHER           -> Answer("error") /\ UNCHANGED pos
    /\ UNCHANGED <<mode, ffd, curfd, filename, dir, hidden, length, clock>>

(* proto_flush() is fsync().                                                    *)
FileFlush ==
    /\ call.op = "flush"
    /\ Answer("ok")
    /\ UNCHANGED fileVars

(* proto_close(): a hidden file that is not empty takes its name, unless        *)
(* another file has it: a name counts seconds.                                  *)
Name == IF filename = NoName THEN Stamp(clock) ELSE filename
(* The directory in which the hidden file has got that name.                     *)
WithName(n) == [m \in DOMAIN dir \cup {n} |-> IF m = n THEN hidden ELSE dir[m]]
(* Mutant of Shut: the descriptor is kept.                                      *)
StillOpen == ffd
Shut == [ffd EXCEPT ![curfd] = Closed]
FileClose ==
    /\ call.op = "close" /\ ~ Reads
    /\ LET f == ffd[curfd]
           empty == f \in Inodes /\ length[f] = 0
       IN  IF f = Stdin
           THEN UNCHANGED <<ffd, filename, dir, hidden>>
           ELSE /\ ffd' = Shut
                /\ filename' = NoName
                /\ IF hidden # 0 /\ ~ empty /\ Name \notin DOMAIN dir
                   THEN dir' = WithName(Name) /\ hidden' = 0
                   ELSE UNCHANGED <<dir, hidden>>
    /\ Answer("ok")
    /\ UNCHANGED <<mode, curfd, length, clock, pos>>
(* In a read mode the name is kept, for the next connection.                    *)
ReadClose ==
    /\ call.op = "close" /\ Reads
    /\ ffd' = Shut
    /\ Answer("ok")
    /\ UNCHANGED <<mode, curfd, filename, dir, hidden, length, clock, pos>>

Second ==
    /\ clock < MaxSeconds
    /\ clock' = clock + 1
    /\ UNCHANGED <<mode, ffd, curfd, filename, dir, hidden, length, pos, call, reply>>

FileNext ==
    \/ ReadConnect \/ WriteConnect \/ FileSend \/ FileRecv \/ FileFlush
    \/ FileClose \/ ReadClose \/ Second
==============================================================================
