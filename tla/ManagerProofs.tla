---------------------------- MODULE ManagerProofs ----------------------------
(***************************************************************************)
(* Theorems about the manager process.                                     *)
(*                                                                         *)
(* Singleton, for any set of processes and clients, any choice of faults   *)
(* and any bound: one manager at a time, and whose files stand.            *)
(*                                                                         *)
(* Handover, as H in the second half, for any bounds and any faults: what  *)
(* the runner reported decides the record (ReportCounts), and each output   *)
(* event goes on where the last one ended (OutputWhole).                   *)
(***************************************************************************)
EXTENDS Sequences, Singleton, TLAPS

-----------------------------------------------------------------------------
(* The inductive invariant *)

Holding == {"claimed", "clean", "named", "bound", "serving", "stopping", "unlinked"}

(* From its claim to its end a daemon holds the lock. *)
HoldsLock == \A d \in Proc : state[d] \in Holding => lock = d

(* A connection that is not closed leads to a daemon that has its socket.  *)
LeadsToHolder ==
  \A c \in Client :
    conn[c] \in Proc => state[conn[c]] \in {"bound", "serving", "stopping", "unlinked"}

(* Without extensions, what stands in the files was written by the holder. *)
FilesOwned ==
  \A d \in Proc :
    /\ state[d] \in {"clean", "named"} => sock = "none"
    /\ state[d] \in {"named", "bound", "serving", "stopping"} => pidFile = d
    /\ state[d] \in {"bound", "serving", "stopping"} => sock = d

(* Only extensions treat a manager as a zombie. *)
ZombieIsExt ==
  \A c \in Client : pc[c] \in {"zombie", "unlink-sock", "unlink-pid"} => c \in Ext

-----------------------------------------------------------------------------
LEMMA InitTypeOK == Init => TypeOK
  BY SingletonAssumption DEF Init, TypeOK, NoFile, DaemonState, ClientPc, Client

LEMMA StepTypeOK == TypeOK /\ [Next]_vars => TypeOK'
<1> SUFFICES ASSUME TypeOK, [Next]_vars PROVE TypeOK'
  OBVIOUS
<1> USE SingletonAssumption DEF TypeOK, vars, daemonVars, fileVars, clientVars, DaemonState, ClientPc, NoFile
<1>1. ASSUME NEW d \in Proc, DaemonNext(d) PROVE TypeOK'
  <2>1. CASE Claim(d)
    BY <2>1 DEF Claim, DaemonStep
  <2>2. CASE ClaimRefused(d)
    BY <2>2 DEF ClaimRefused, DaemonStep
  <2>3. CASE CleanStale(d)
    BY <2>3 DEF CleanStale, DaemonStep
  <2>4. CASE WritePid(d)
    BY <2>4 DEF WritePid, DaemonStep
  <2>5. CASE Bind(d)
    BY <2>5 DEF Bind, DaemonStep
  <2>6. CASE Serve(d)
    BY <2>6 DEF Serve, DaemonStep
  <2>7. CASE BeginShutdown(d)
    BY <2>7 DEF BeginShutdown, Fault
  <2>8. CASE IdleShutdown(d)
    BY <2>8 DEF IdleShutdown, DaemonStep
  <2>9. CASE Unlink(d)
    BY <2>9 DEF Unlink, DaemonStep
  <2>10. CASE Exit(d)
    BY <2>10 DEF Exit, Dies
  <2>11. CASE Crash(d)
    BY <2>11 DEF Crash, Dies, Fault
  <2>12. QED
    BY <1>1, <2>1, <2>2, <2>3, <2>4, <2>5, <2>6, <2>7, <2>8, <2>9, <2>10, <2>11 DEF DaemonNext
<1>2. ASSUME NEW c \in Client, Begin(c) \/ Leave(c) PROVE TypeOK'
  BY <1>2 DEF Begin, Leave, Goto
<1>3. ASSUME NEW c \in Client, ClientSteps(c) PROVE TypeOK'
  <2>1. CASE Connect(c)
    BY <2>1 DEF Connect, Goto
  <2>2. CASE ConnectFails(c) \/ HelloAnswered(c) \/ HelloRejected(c) \/ ReadPid(c) \/ HelloFails(c)
    BY <2>2 DEF ConnectFails, HelloAnswered, HelloRejected, ReadPid, HelloFails, Goto
  <2>3. CASE ManagerExited(c)
    BY <2>3 DEF ManagerExited, Goto
  <2>4. CASE ZombieAlive(c) \/ ZombieDead(c) \/ UnlinkSock(c) \/ UnlinkPid(c)
    BY <2>4 DEF ZombieAlive, ZombieDead, UnlinkSock, UnlinkPid, AfterZombie, Goto
  <2>5. CASE SpawnLocked(c)
    BY <2>5 DEF SpawnLocked, Start, Goto
  <2>6. CASE SpawnBusy(c) \/ SpawnExists(c) \/ SpawnRead(c)
    BY <2>6 DEF SpawnBusy, SpawnExists, SpawnRead, Goto
  <2>7. CASE SpawnCreate(c)
    BY <2>7 DEF SpawnCreate, Goto
  <2>8. CASE SpawnName(c)
    BY <2>8 DEF SpawnName, Start, Goto
  <2>9. CASE SpawnBreak(c)
    BY <2>9 DEF SpawnBreak, Goto
  <2>10. CASE SocketReady(c) \/ SocketTimeout(c)
    <3>1. PICK found \in BOOLEAN :
            /\ Release(c)
            /\ AfterWait(c, found)
            /\ UNCHANGED <<daemonVars, fileVars, conn, awaited, faults>>
      BY <2>10 DEF SocketReady, SocketTimeout
    <3>2. spawnFile' \in [by : Ext \cup {"none", "cli"}, named : BOOLEAN, flock : Cli \cup {"none"}]
      BY <3>1 DEF Release
    <3>3. pc' \in [Client -> ClientPc] /\ retry' \in [Client -> BOOLEAN]
      BY <3>1 DEF AfterWait, Goto
    <3>4. QED
      BY <3>1, <3>2, <3>3
  <2>11. CASE ConnectLast(c) \/ HelloLastFails(c)
    BY <2>11 DEF ConnectLast, HelloLastFails, Goto
  <2>12. QED
    BY <1>3, <2>1, <2>2, <2>3, <2>4, <2>5, <2>6, <2>7, <2>8, <2>9, <2>10, <2>11 DEF ClientSteps
<1>4. CASE DoctorLocks \/ DoctorCleans
  BY <1>4 DEF DoctorLocks, DoctorCleans, Fault
<1>5. CASE UNCHANGED vars
  BY <1>5
<1>6. QED
  BY <1>1, <1>2, <1>3, <1>4, <1>5 DEF Next

(* The variables are of the types TypeOK gives them. *)
THEOREM TypesCorrect == Spec => []TypeOK
  BY InitTypeOK, StepTypeOK, PTL DEF Spec

-----------------------------------------------------------------------------
(* The lock decides who is the manager *)

(* What a client does to daemons, lock and connections. *)
LEMMA ClientConnects ==
  ASSUME TypeOK, NEW c \in Client, Begin(c) \/ Leave(c) \/ ClientSteps(c)
  PROVE  /\ lock' = lock
         /\ \/ state' = state
            \/ /\ conn' = conn
               /\ \E d \in Proc : state[d] = "dead" /\ state' = [state EXCEPT ![d] = "started"]
         /\ \/ conn' = conn \/ conn' = [conn EXCEPT ![c] = "none"]
            \/ \E d \in Proc : Reachable(d) /\ state' = state /\ conn' = [conn EXCEPT ![c] = d]
  <1> USE DEF daemonVars
  <1>1. CASE Begin(c) \/ Leave(c)
    BY <1>1 DEF Begin, Leave
  <1>2. CASE Connect(c) \/ ConnectFails(c) \/ HelloAnswered(c) \/ HelloRejected(c) \/ ReadPid(c)
    BY <1>2 DEF Connect, ConnectFails, HelloAnswered, HelloRejected, ReadPid
  <1>3. CASE HelloFails(c) \/ ManagerExited(c) \/ ZombieAlive(c) \/ ZombieDead(c)
    BY <1>3 DEF HelloFails, ManagerExited, ZombieAlive, ZombieDead
  <1>4. CASE UnlinkSock(c) \/ UnlinkPid(c) \/ SpawnBusy(c) \/ SpawnCreate(c) \/ SpawnExists(c)
    BY <1>4 DEF UnlinkSock, UnlinkPid, SpawnBusy, SpawnCreate, SpawnExists
  <1>5. CASE SpawnLocked(c) \/ SpawnName(c)
    BY <1>5 DEF SpawnLocked, SpawnName, Start
  <1>6. CASE SpawnRead(c) \/ SpawnBreak(c) \/ SocketReady(c) \/ SocketTimeout(c)
    BY <1>6 DEF SpawnRead, SpawnBreak, SocketReady, SocketTimeout
  <1>7. CASE ConnectLast(c) \/ HelloLastFails(c)
    BY <1>7 DEF ConnectLast, HelloLastFails
  <1>8. QED
    BY <1>1, <1>2, <1>3, <1>4, <1>5, <1>6, <1>7 DEF ClientSteps

LEMMA StepHolder ==
  TypeOK /\ HoldsLock /\ LeadsToHolder /\ [Next]_vars => HoldsLock' /\ LeadsToHolder'
<1> SUFFICES ASSUME TypeOK, HoldsLock, LeadsToHolder, [Next]_vars
             PROVE  HoldsLock' /\ LeadsToHolder'
  OBVIOUS
<1> USE SingletonAssumption DEF TypeOK, HoldsLock, LeadsToHolder, Holding, DaemonState, clientVars
<1>1. ASSUME NEW d \in Proc, DaemonNext(d) PROVE HoldsLock' /\ LeadsToHolder'
  <2>1. CASE Claim(d)
    BY <2>1 DEF Claim, DaemonStep
  <2>2. CASE ClaimRefused(d)
    BY <2>2 DEF ClaimRefused, DaemonStep
  <2>3. CASE CleanStale(d)
    BY <2>3 DEF CleanStale, DaemonStep
  <2>4. CASE WritePid(d)
    BY <2>4 DEF WritePid, DaemonStep
  <2>5. CASE Bind(d)
    BY <2>5 DEF Bind, DaemonStep
  <2>6. CASE Serve(d)
    BY <2>6 DEF Serve, DaemonStep
  <2>7. CASE BeginShutdown(d)
    BY <2>7 DEF BeginShutdown
  <2>8. CASE IdleShutdown(d)
    BY <2>8 DEF IdleShutdown, DaemonStep
  <2>9. CASE Unlink(d)
    BY <2>9 DEF Unlink, DaemonStep
  <2>10. CASE Exit(d) \/ Crash(d)
    BY <2>10 DEF Exit, Crash, Dies
  <2>11. QED
    BY <1>1, <2>1, <2>2, <2>3, <2>4, <2>5, <2>6, <2>7, <2>8, <2>9, <2>10 DEF DaemonNext
<1>2. ASSUME NEW c \in Client, Begin(c) \/ Leave(c) \/ ClientSteps(c)
      PROVE  HoldsLock' /\ LeadsToHolder'
  BY <1>2, ClientConnects DEF Reachable, Listening
<1>3. CASE DoctorLocks \/ DoctorCleans
  BY <1>3 DEF DoctorLocks, DoctorCleans
<1>4. CASE UNCHANGED vars
  BY <1>4 DEF vars
<1>5. QED
  BY <1>1, <1>2, <1>3, <1>4 DEF Next

(* All clients whose hello was answered talk to one manager, the holder of *)
(* the lock: whatever clients do to each other's spawn lock and whichever  *)
(* daemons and doctors race for manager.lock (claim_daemon).               *)
THEOREM OneManagerAlways == Spec => []OneManager
<1>1. Init => HoldsLock /\ LeadsToHolder
  BY SingletonAssumption DEF Init, HoldsLock, LeadsToHolder, Holding
<1>2. TypeOK /\ HoldsLock /\ LeadsToHolder => OneManager
  BY DEF TypeOK, HoldsLock, LeadsToHolder, Holding, OneManager
<1>3. QED
  BY <1>1, <1>2, InitTypeOK, StepTypeOK, StepHolder, PTL DEF Spec

-----------------------------------------------------------------------------
(* The files are the holder's *)

(* What a command line client does to the files. *)
LEMMA CliLeavesFiles ==
  ASSUME TypeOK, ZombieIsExt, NEW c \in Client, c \notin Ext,
         Begin(c) \/ Leave(c) \/ ClientSteps(c)
  PROVE  /\ UNCHANGED fileVars
         /\ pc'[c] \notin {"zombie", "unlink-sock", "unlink-pid"}
         /\ \A e \in Client : e # c => pc'[e] = pc[e]
  <1> USE DEF TypeOK, Goto, ZombieIsExt
  <1>1. CASE Begin(c) \/ Leave(c)
    BY <1>1 DEF Begin, Leave
  <1>2. CASE Connect(c) \/ ConnectFails(c) \/ HelloAnswered(c) \/ HelloRejected(c) \/ ReadPid(c)
    BY <1>2 DEF Connect, ConnectFails, HelloAnswered, HelloRejected, ReadPid
  <1>3. CASE HelloFails(c) \/ ManagerExited(c) \/ ZombieAlive(c) \/ ZombieDead(c)
    BY <1>3 DEF HelloFails, ManagerExited, ZombieAlive, ZombieDead
  <1>4. CASE UnlinkSock(c) \/ UnlinkPid(c) \/ SpawnBusy(c) \/ SpawnCreate(c) \/ SpawnExists(c)
    BY <1>4 DEF UnlinkSock, UnlinkPid, SpawnBusy, SpawnCreate, SpawnExists
  <1>5. CASE SpawnLocked(c) \/ SpawnName(c)
    BY <1>5 DEF SpawnLocked, SpawnName, Start
  <1>6. CASE SpawnRead(c) \/ SpawnBreak(c) \/ SocketReady(c) \/ SocketTimeout(c)
    BY <1>6 DEF SpawnRead, SpawnBreak, SocketReady, SocketTimeout, AfterWait
  <1>7. CASE ConnectLast(c) \/ HelloLastFails(c)
    BY <1>7 DEF ConnectLast, HelloLastFails
  <1>8. QED
    BY <1>1, <1>2, <1>3, <1>4, <1>5, <1>6, <1>7 DEF ClientSteps

LEMMA StepFiles ==
  ASSUME Ext = {}
  PROVE  TypeOK /\ HoldsLock /\ FilesOwned /\ ZombieIsExt /\ [Next]_vars
           => FilesOwned' /\ ZombieIsExt'
<1> SUFFICES ASSUME TypeOK, HoldsLock, FilesOwned, ZombieIsExt, [Next]_vars
             PROVE  FilesOwned' /\ ZombieIsExt'
  OBVIOUS
<1> USE SingletonAssumption
    DEF TypeOK, HoldsLock, FilesOwned, ZombieIsExt, Holding, DaemonState, fileVars, clientVars
<1>1. ASSUME NEW d \in Proc, DaemonNext(d) PROVE FilesOwned' /\ ZombieIsExt'
  <2>1. CASE Claim(d)
    BY <2>1 DEF Claim, DaemonStep
  <2>2. CASE ClaimRefused(d)
    BY <2>2 DEF ClaimRefused, DaemonStep
  <2>3. CASE CleanStale(d)
    BY <2>3 DEF CleanStale, DaemonStep
  <2>4. CASE WritePid(d)
    BY <2>4 DEF WritePid, DaemonStep
  <2>5. CASE Bind(d)
    BY <2>5 DEF Bind, DaemonStep
  <2>6. CASE Serve(d)
    BY <2>6 DEF Serve, DaemonStep
  <2>7. CASE BeginShutdown(d)
    BY <2>7 DEF BeginShutdown
  <2>8. CASE IdleShutdown(d)
    BY <2>8 DEF IdleShutdown, DaemonStep
  <2>9. CASE Unlink(d)
    BY <2>9 DEF Unlink, DaemonStep
  <2>10. CASE Exit(d) \/ Crash(d)
    BY <2>10 DEF Exit, Crash, Dies
  <2>11. QED
    BY <1>1, <2>1, <2>2, <2>3, <2>4, <2>5, <2>6, <2>7, <2>8, <2>9, <2>10 DEF DaemonNext
<1>2. ASSUME NEW c \in Client, Begin(c) \/ Leave(c) \/ ClientSteps(c)
      PROVE  FilesOwned' /\ ZombieIsExt'
  <2>1. /\ UNCHANGED fileVars
        /\ \A e \in Client : pc'[e] \in {"zombie", "unlink-sock", "unlink-pid"} => e \in Ext
    BY <1>2, CliLeavesFiles, Ext = {}
  <2>2. \/ state' = state
        \/ \E d \in Proc : state[d] = "dead" /\ state' = [state EXCEPT ![d] = "started"]
    BY <1>2, ClientConnects
  <2>3. QED
    BY <2>1, <2>2
<1>3. CASE DoctorLocks \/ DoctorCleans
  BY <1>3 DEF DoctorLocks, DoctorCleans
<1>4. CASE UNCHANGED vars
  BY <1>4 DEF vars
<1>5. QED
  BY <1>1, <1>2, <1>3, <1>4 DEF Next

(* As long as no extension runs, manager.sock and manager.pid are those of *)
(* the daemon that listens, whichever clients, daemons and doctors race:   *)
(* it can be reached and no other manager can have taken its place.        *)
THEOREM ServingAlwaysReachable ==
  ASSUME Ext = {}
  PROVE  Spec => []ServingReachable
<1>1. Init => HoldsLock /\ LeadsToHolder /\ FilesOwned /\ ZombieIsExt
  BY SingletonAssumption DEF Init, HoldsLock, LeadsToHolder, FilesOwned, ZombieIsExt, Holding
<1>2. FilesOwned => ServingReachable
  BY DEF FilesOwned, ServingReachable
<1>3. TypeOK /\ HoldsLock /\ FilesOwned /\ ZombieIsExt /\ [Next]_vars => FilesOwned' /\ ZombieIsExt'
  BY StepFiles
<1>4. QED
  BY <1>1, <1>2, <1>3, InitTypeOK, StepTypeOK, StepHolder, PTL DEF Spec

-----------------------------------------------------------------------------
(* With extensions *)

(* What any client does to the files, and to the others' progress. *)
LEMMA ClientTakesFiles ==
  ASSUME TypeOK, NEW c \in Client, Begin(c) \/ Leave(c) \/ ClientSteps(c)
  PROVE  /\ sock' = sock \/ pc[c] = "unlink-sock"
         /\ pidFile' = pidFile \/ pc[c] = "unlink-pid"
         /\ \A e \in Client : e # c => pc'[e] = pc[e]
  <1> USE DEF TypeOK, Goto, fileVars
  <1>1. CASE Begin(c) \/ Leave(c)
    BY <1>1 DEF Begin, Leave
  <1>2. CASE Connect(c) \/ ConnectFails(c) \/ HelloAnswered(c) \/ HelloRejected(c) \/ ReadPid(c)
    BY <1>2 DEF Connect, ConnectFails, HelloAnswered, HelloRejected, ReadPid
  <1>3. CASE HelloFails(c) \/ ManagerExited(c) \/ ZombieAlive(c) \/ ZombieDead(c)
    BY <1>3 DEF HelloFails, ManagerExited, ZombieAlive, ZombieDead, AfterZombie
  <1>4. CASE UnlinkSock(c) \/ UnlinkPid(c) \/ SpawnBusy(c) \/ SpawnCreate(c) \/ SpawnExists(c)
    BY <1>4 DEF UnlinkSock, UnlinkPid, AfterZombie, SpawnBusy, SpawnCreate, SpawnExists
  <1>5. CASE SpawnLocked(c) \/ SpawnName(c)
    BY <1>5 DEF SpawnLocked, SpawnName, Start
  <1>6. CASE SpawnRead(c) \/ SpawnBreak(c) \/ SocketReady(c) \/ SocketTimeout(c)
    BY <1>6 DEF SpawnRead, SpawnBreak, SocketReady, SocketTimeout, AfterWait
  <1>7. CASE ConnectLast(c) \/ HelloLastFails(c)
    BY <1>7 DEF ConnectLast, HelloLastFails
  <1>8. QED
    BY <1>1, <1>2, <1>3, <1>4, <1>5, <1>6, <1>7 DEF ClientSteps

LEMMA StepZombie == TypeOK /\ ZombieIsExt /\ [Next]_vars => ZombieIsExt'
<1> SUFFICES ASSUME TypeOK, ZombieIsExt, [Next]_vars PROVE ZombieIsExt'
  OBVIOUS
<1> USE DEF ZombieIsExt, clientVars
<1>1. ASSUME NEW d \in Proc, DaemonNext(d) PROVE ZombieIsExt'
  <2>1. pc' = pc
    BY <1>1 DEF DaemonNext, Claim, ClaimRefused, CleanStale, WritePid, Bind, Serve, BeginShutdown,
                IdleShutdown, Unlink, Exit, Crash, Dies, DaemonStep
  <2>2. QED
    BY <2>1
<1>2. ASSUME NEW c \in Client, Begin(c) \/ Leave(c) \/ ClientSteps(c) PROVE ZombieIsExt'
  <2>1. c \in Ext \/ pc'[c] \notin {"zombie", "unlink-sock", "unlink-pid"}
    BY <1>2, CliLeavesFiles
  <2>2. QED
    BY <1>2, <2>1, ClientTakesFiles
<1>3. CASE DoctorLocks \/ DoctorCleans
  BY <1>3 DEF DoctorLocks, DoctorCleans
<1>4. CASE UNCHANGED vars
  BY <1>4 DEF vars
<1>5. QED
  BY <1>1, <1>2, <1>3, <1>4 DEF Next

(* FilesKept, for a step. *)
Taken ==
  \A d \in Proc :
    Listening(d)' =>
      /\ sock = d \/ ~Listening(d) => sock' = d \/ \E e \in Ext : pc[e] = "unlink-sock"
      /\ Listening(d) /\ pidFile = d => pidFile' = d \/ \E e \in Ext : pc[e] = "unlink-pid"

LEMMA StepKept ==
  TypeOK /\ HoldsLock /\ ZombieIsExt /\ [Next]_vars => Taken
<1> SUFFICES ASSUME TypeOK, HoldsLock, ZombieIsExt, [Next]_vars PROVE Taken
  OBVIOUS
<1> USE SingletonAssumption
    DEF TypeOK, HoldsLock, Taken, Listening, Holding, DaemonState, fileVars
<1>1. ASSUME NEW d \in Proc, DaemonNext(d) PROVE Taken
  <2>1. CASE Claim(d) \/ ClaimRefused(d)
    BY <2>1 DEF Claim, ClaimRefused, DaemonStep
  <2>2. CASE CleanStale(d)
    BY <2>2 DEF CleanStale, DaemonStep
  <2>3. CASE WritePid(d)
    BY <2>3 DEF WritePid, DaemonStep
  <2>4. CASE Bind(d)
    BY <2>4 DEF Bind, DaemonStep
  <2>5. CASE Serve(d) \/ IdleShutdown(d)
    BY <2>5 DEF Serve, IdleShutdown, DaemonStep
  <2>6. CASE BeginShutdown(d)
    BY <2>6 DEF BeginShutdown
  <2>7. CASE Unlink(d)
    BY <2>7 DEF Unlink, DaemonStep
  <2>8. CASE Exit(d) \/ Crash(d)
    BY <2>8 DEF Exit, Crash, Dies
  <2>9. QED
    BY <1>1, <2>1, <2>2, <2>3, <2>4, <2>5, <2>6, <2>7, <2>8 DEF DaemonNext
<1>2. ASSUME NEW c \in Client, Begin(c) \/ Leave(c) \/ ClientSteps(c) PROVE Taken
  <2>1. pc[c] \in {"unlink-sock", "unlink-pid"} => c \in Ext
    BY DEF ZombieIsExt
  <2>2. \/ state' = state
        \/ \E d \in Proc : state[d] = "dead" /\ state' = [state EXCEPT ![d] = "started"]
    BY <1>2, ClientConnects
  <2>3. \A d \in Proc : Listening(d)' => Listening(d)
    BY <2>2
  <2>4. QED
    BY <1>2, <2>1, <2>3, ClientTakesFiles
<1>3. CASE DoctorLocks
  BY <1>3 DEF DoctorLocks
<1>4. CASE DoctorCleans
  BY <1>4 DEF DoctorCleans
<1>5. CASE UNCHANGED vars
  BY <1>5 DEF vars
<1>6. QED
  BY <1>1, <1>2, <1>3, <1>4, <1>5 DEF Next

(* Whatever extensions do, a manager that listens loses its files only to  *)
(* an extension's clean-up, and begins to listen on its own socket.        *)
THEOREM FilesAlwaysKept == Spec => FilesKept
<1>1. Init => HoldsLock /\ LeadsToHolder /\ ZombieIsExt
  BY SingletonAssumption DEF Init, HoldsLock, LeadsToHolder, ZombieIsExt, Holding
<1>2. TypeOK /\ HoldsLock /\ ZombieIsExt /\ [Next]_vars => [Taken]_vars
  BY StepKept
<1>3. Spec => [][Taken]_vars
  BY <1>1, <1>2, InitTypeOK, StepTypeOK, StepHolder, StepZombie, PTL DEF Spec
<1>4. QED
  BY <1>3, PTL DEF FilesKept, Taken

-----------------------------------------------------------------------------
(* The upgrade in place.  Constants and variables are those of Handover;   *)
(* its Ops and conn are renamed, as Singleton has some of its own.         *)

CONSTANTS UpgradeOps, MaxBytes, MaxUpgrades

VARIABLES
  stage, tries, park, quit, inflight,
  made, file, taken, sent, pump, fanout,
  session, watching, kept, outq, wrote, got,
  status, unread, line, watch, phase, record, linger,
  timed, grace, reaper, killing,
  sh, kids, runner

H == INSTANCE Handover WITH Ops <- UpgradeOps, conn <- session

Killers == H!Stop \/ H!ReaperFires \/ H!ReaperKills \/ H!TimeoutFires

(* The exit watch, wherever it is, has the report or will still find it in *)
(* the pipe; a record made without one means a runner that can write none. *)
ReportKept ==
  /\ {unread, line} \subseteq BOOLEAN /\ phase \in {"await", "reap", "done"}
  /\ watch \in {"await", "reap"} => phase = watch
  /\ watch = "await" \/ (watch = "entry" /\ phase = "await") =>
       status = "none" \/ unread
  /\ watch = "drain" => line
  /\ watch = "drain-exited" => runner = "gone" /\ (status = "none" \/ line)
  /\ record = "unknown" => runner = "gone" /\ status = "none"

LEMMA ReportKeptInit == H!Init => ReportKept
  BY DEF H!Init, ReportKept

(* Steps of the processes. *)
LEMMA RunnerKeeps ==
  ASSUME ReportKept, H!Runner \/ H!Write \/ H!Fork \/ H!Exits
  PROVE  ReportKept'
<1>1. CASE H!Report
  BY <1>1 DEF H!Report, ReportKept, H!dmnVars, H!ioVars, H!connVars, H!killVars, H!osVars
<1>2. CASE H!RunnerExits
  BY <1>2 DEF H!RunnerExits, ReportKept, H!dmnVars, H!ioVars, H!connVars, H!killVars, H!exitVars
<1>3. CASE H!LifelineBroken
  BY <1>3 DEF H!LifelineBroken, ReportKept, H!dmnVars, H!ioVars, H!connVars, H!killVars,
    H!exitVars
<1>4. CASE H!Write \/ H!Fork \/ H!Exits
  BY <1>4 DEF H!Write, H!Fork, H!Exits, ReportKept, H!exitVars, H!osVars
<1> QED  BY <1>1, <1>2, <1>3, <1>4 DEF H!Runner

(* Steps of the exit watch. *)
LEMMA WatchKeeps ==
  ASSUME ReportKept, H!Watch
  PROVE  ReportKept'
<1>1. CASE H!WatchReport
  BY <1>1 DEF H!WatchReport, ReportKept, H!osVars
<1>2. CASE H!WatchRunnerExit
  BY <1>2 DEF H!WatchRunnerExit, ReportKept
<1>3. CASE H!Finalize
  BY <1>3 DEF H!Finalize, ReportKept, H!osVars
<1>4. CASE H!ReapRunner
  BY <1>4 DEF H!ReapRunner, ReportKept
<1>5. CASE H!WatchParks
  BY <1>5 DEF H!WatchParks, ReportKept, H!osVars
<1> QED  BY <1>1, <1>2, <1>3, <1>4, <1>5 DEF H!Watch

(* A kill takes the runner before it has reported, never what it reported. *)
LEMMA KillKeeps ==
  ASSUME ReportKept, Killers
  PROVE  ReportKept'
<1>1. CASE H!Stop
  BY <1>1 DEF H!Stop, ReportKept, H!exitVars, H!osVars
<1>2. CASE H!ReaperFires
  BY <1>2 DEF H!ReaperFires, ReportKept, H!exitVars, H!osVars
<1>3. CASE H!ReaperKills
  BY <1>3 DEF H!ReaperKills, H!KillGroup, ReportKept, H!exitVars
<1>4. CASE H!TimeoutFires
  BY <1>4 DEF H!TimeoutFires, H!KillGroup, ReportKept, H!exitVars
<1> QED  BY <1>1, <1>2, <1>3, <1>4 DEF Killers

(* The entry goes back to where the watch was parked, in either image. *)
LEMMA UpgradeKeeps ==
  ASSUME ReportKept, H!Exec \/ H!ExecFails \/ H!QuiesceTimesOut
  PROVE  ReportKept'
<1>1. H!RestartTask /\ UNCHANGED runner
  BY DEF H!Exec, H!ExecFails, H!QuiesceTimesOut, H!osVars
<1> QED  BY <1>1 DEF H!RestartTask, ReportKept

LEMMA DyingKeeps ==
  ASSUME ReportKept, H!RestoreFails \/ H!ShutdownBegins
  PROVE  ReportKept'
<1>1. H!Dies
  BY DEF H!RestoreFails, H!ShutdownBegins
<1> QED  BY <1>1 DEF H!Dies, ReportKept, H!osVars

(* Everything else leaves the watch and the runner alone. *)
LEMMA RestKeeps ==
  ASSUME ReportKept, UNCHANGED <<H!exitVars, H!osVars>>
  PROVE  ReportKept'
  BY DEF ReportKept, H!exitVars, H!osVars

LEMMA ReportKeptStep ==
  ASSUME ReportKept, [H!Next]_(H!vars)
  PROVE  ReportKept'
<1>1. CASE H!Pump \/ H!Fanout \/ H!WriterWrites \/ H!Client \/ H!RequestEnds
  <2>1. UNCHANGED <<H!exitVars, H!osVars>>
    BY <1>1 DEF H!Pump, H!PumpReads, H!PumpEnds, H!Fanout, H!FanoutTakes, H!FanoutEnds,
         H!WriterWrites, H!Client, H!Dial, H!Hello, H!RequestEnds
  <2> QED  BY <2>1, RestKeeps
<1>2. CASE \/ H!UpgradeAsked \/ H!Preflight \/ H!UpgradeBegins \/ H!Parked
           \/ H!CloseConnections \/ H!CarryWatches \/ H!ShutdownAsked
  <2>1. UNCHANGED <<H!exitVars, H!osVars>>
    BY <1>2 DEF H!UpgradeAsked, H!Preflight, H!UpgradeBegins, H!Parked, H!CloseConnections,
         H!CarryWatches, H!ShutdownAsked
  <2> QED  BY <2>1, RestKeeps
<1>3. CASE UNCHANGED H!vars
  BY <1>3, RestKeeps DEF H!vars
<1> QED
  BY <1>1, <1>2, <1>3, RunnerKeeps, WatchKeeps, KillKeeps, UpgradeKeeps, DyingKeeps
     DEF H!Next, H!Perform, Killers

(* ReportCounts for any bounds and faults: what the runner reported decides *)
(* the record (run_exit_watch, over park, exec and resume).                *)
THEOREM ReportAlwaysCounts == H!Spec => []H!ReportCounts
<1>1. ReportKept => H!ReportCounts
  BY DEF ReportKept, H!ReportCounts
<1> QED
  BY ReportKeptInit, ReportKeptStep, <1>1, PTL DEF H!Spec

-----------------------------------------------------------------------------
(* Output *)

(* Events that go on from one another, the first of them at `from`. *)
Chained(q, from) ==
  /\ \A i \in 1..Len(q) : from <= q[i][1] /\ q[i][1] < q[i][2]
  /\ Len(q) > 0 => q[1][1] = from
  /\ \A i \in 1..(Len(q) - 1) : q[i][2] = q[i + 1][1]
  /\ \A i, j \in 1..Len(q) : i < j => q[i][2] <= q[j][1]

EndOf(q, from) == IF Len(q) = 0 THEN from ELSE q[Len(q)][2]

Frames == Seq(Nat \X Nat)

Counts ==
  /\ {made, file, taken, sent, wrote, got} \subseteq Nat
  /\ outq \in Frames
  /\ sent <= taken /\ taken <= file

(* A session that watches has no cursor kept, one that was cut off has the *)
(* one it was written up to; and the queue leads from what the client has  *)
(* to what was sent, as long as its connection is served.                  *)
Contiguous ==
  /\ Counts
  /\ Chained(outq, got)
  /\ ~watching => outq = << >>
  /\ watching => /\ session \in {"up", "closing"}
                 /\ kept = {} /\ wrote = got
                 /\ EndOf(outq, got) <= sent
                 /\ session = "up" => EndOf(outq, got) = sent
  /\ kept \subseteq {got}
  /\ kept # {} => got <= sent

LEMMA ChainedEmpty ==
  ASSUME NEW from \in Nat
  PROVE  Chained(<< >>, from) /\ EndOf(<< >>, from) = from
  BY DEF Chained, EndOf

LEMMA ChainedOne ==
  ASSUME NEW from \in Nat, NEW to \in Nat, from < to
  PROVE  /\ << <<from, to>> >> \in Frames
         /\ Chained(<< <<from, to>> >>, from)
         /\ EndOf(<< <<from, to>> >>, from) = to
  BY DEF Chained, EndOf, Frames

LEMMA ChainedEnd ==
  ASSUME NEW from \in Nat, NEW q \in Frames, Chained(q, from)
  PROVE  from <= EndOf(q, from) /\ EndOf(q, from) \in Nat
  BY DEF Chained, EndOf, Frames

LEMMA ChainedAppend ==
  ASSUME NEW from \in Nat, NEW q \in Frames, Chained(q, from),
         NEW to \in Nat, EndOf(q, from) < to
  PROVE  /\ Append(q, <<EndOf(q, from), to>>) \in Frames
         /\ Chained(Append(q, <<EndOf(q, from), to>>), from)
         /\ EndOf(Append(q, <<EndOf(q, from), to>>), from) = to
<1> DEFINE e == EndOf(q, from)
           r == Append(q, <<e, to>>)
<1>1. from <= e /\ e \in Nat
  BY ChainedEnd
<1>2. r \in Frames /\ Len(r) = Len(q) + 1 /\ Len(q) \in Nat
  BY <1>1 DEF Frames
<1>3. \A i \in 1..Len(q) : r[i] = q[i]
  BY <1>1 DEF Frames
<1>4. r[Len(q) + 1] = <<e, to>>
  BY <1>1 DEF Frames
<1>5. ASSUME NEW i \in 1..Len(q) PROVE q[i][2] <= e
  <2>1. \A k \in 1..Len(q) : q[k] \in Nat \X Nat /\ q[k][1] < q[k][2]
    BY DEF Frames, Chained
  <2>2. e = q[Len(q)][2] /\ Len(q) \in 1..Len(q)
    BY <1>2 DEF EndOf
  <2>3. CASE i < Len(q)
    <3>1. q[i][2] <= q[Len(q)][1]
      BY <2>2, <2>3 DEF Chained
    <3> QED  BY <2>1, <2>2, <3>1
  <2>4. CASE i = Len(q)
    BY <2>1, <2>2, <2>4
  <2> QED  BY <2>3, <2>4, <1>2
<1> HIDE DEF r
<1>6. Chained(r, from)
  <2>1. \A i \in 1..Len(r) : from <= r[i][1] /\ r[i][1] < r[i][2]
    BY <1>1, <1>2, <1>3, <1>4 DEF Chained
  <2>2. r[1][1] = from
    BY <1>1, <1>2, <1>3, <1>4 DEF Chained, EndOf
  <2>3. ASSUME NEW i \in 1..(Len(r) - 1) PROVE r[i][2] = r[i + 1][1]
    <3>1. CASE i < Len(q)
      <4>1. i \in 1..(Len(q) - 1) /\ i \in 1..Len(q) /\ i + 1 \in 1..Len(q)
        BY <3>1, <1>2
      <4>2. q[i][2] = q[i + 1][1]
        BY <4>1 DEF Chained
      <4> QED  BY <1>3, <4>1, <4>2
    <3>2. CASE i = Len(q)
      BY <3>2, <1>2, <1>3, <1>4 DEF EndOf
    <3> QED  BY <3>1, <3>2, <1>2
  <2>4. ASSUME NEW i \in 1..Len(r), NEW j \in 1..Len(r), i < j PROVE r[i][2] <= r[j][1]
    <3>1. CASE j <= Len(q)
      BY <3>1, <2>4, <1>2, <1>3 DEF Chained
    <3>2. CASE j = Len(q) + 1
      BY <3>2, <2>4, <1>2, <1>3, <1>4, <1>5
    <3> QED  BY <3>1, <3>2, <1>2
  <2> QED  BY <2>1, <2>2, <2>3, <2>4 DEF Chained
<1> QED
  BY <1>2, <1>4, <1>6 DEF EndOf, r

LEMMA ChainedTail ==
  ASSUME NEW from \in Nat, NEW q \in Frames, Chained(q, from), q # << >>
  PROVE  /\ Head(q)[1] = from /\ Head(q)[2] \in Nat /\ from < Head(q)[2]
         /\ Tail(q) \in Frames
         /\ Chained(Tail(q), Head(q)[2])
         /\ EndOf(Tail(q), Head(q)[2]) = EndOf(q, from)
<1>1. Len(q) \in Nat \ {0} /\ Head(q) = q[1]
  BY DEF Frames
<1>2. /\ Tail(q) \in Frames /\ Len(Tail(q)) = Len(q) - 1
      /\ \A i \in 1..Len(Tail(q)) : Tail(q)[i] = q[i + 1]
  BY DEF Frames
<1>3. \A i \in 1..Len(q) : q[i] \in Nat \X Nat
  BY DEF Frames
<1> DEFINE r == Tail(q)
<1> HIDE DEF r
<1>4. Chained(r, q[1][2])
  <2>1. ASSUME NEW i \in 1..Len(r) PROVE q[1][2] <= r[i][1] /\ r[i][1] < r[i][2]
    BY <1>1, <1>2, <1>3 DEF Chained, r
  <2>2. Len(r) > 0 => r[1][1] = q[1][2]
    BY <1>1, <1>2, <1>3 DEF Chained, r
  <2>3. ASSUME NEW i \in 1..(Len(r) - 1) PROVE r[i][2] = r[i + 1][1]
    BY <1>1, <1>2, <1>3 DEF Chained, r
  <2>4. ASSUME NEW i \in 1..Len(r), NEW j \in 1..Len(r), i < j PROVE r[i][2] <= r[j][1]
    BY <2>4, <1>1, <1>2, <1>3 DEF Chained, r
  <2> QED  BY <2>1, <2>2, <2>3, <2>4 DEF Chained
<1>5. q[1][1] = from /\ from < q[1][2] /\ q[1][2] \in Nat
  BY <1>1, <1>3 DEF Chained
<1>6. EndOf(r, q[1][2]) = EndOf(q, from)
  BY <1>1, <1>2 DEF EndOf, r
<1> QED
  BY <1>1, <1>2, <1>4, <1>5, <1>6 DEF r

LEMMA WholeBelow ==
  ASSUME NEW n \in Nat
  PROVE  H!Whole(n) \in Nat /\ H!Whole(n) <= n
<1>1. n % 2 \in 0..1 /\ (n = 0 => n % 2 = 0)
  OBVIOUS
<1> QED  BY <1>1 DEF H!Whole

LEMMA ContiguousInit == H!Init => Contiguous
<1> SUFFICES ASSUME H!Init PROVE Contiguous
  OBVIOUS
<1>1. outq \in Frames
  BY DEF H!Init, Frames
<1> QED  BY <1>1, ChainedEmpty DEF H!Init, Contiguous, Counts

(* An output event reaches the queue of a connection that is served, and   *)
(* of no other.                                                            *)
LEMMA PushKeeps ==
  ASSUME Contiguous, NEW to \in Nat, sent <= to, H!Push(to), taken' \in Nat, to <= taken',
         taken' <= file,
         UNCHANGED <<made, file, session, watching, kept, wrote, got>>
  PROVE  Contiguous'
<1>1. Counts'
  <2>1. outq' \in Frames
    <3>1. outq \in Frames /\ <<sent, to>> \in Nat \X Nat
      BY DEF Contiguous, Counts
    <3>2. Append(outq, <<sent, to>>) \in Frames
      BY <3>1 DEF Frames
    <3> QED  BY <3>1, <3>2 DEF H!Push
  <2> QED  BY <2>1 DEF H!Push, Contiguous, Counts
<1>2. CASE watching /\ session = "up" /\ sent < to
  <2>1. outq' = Append(outq, <<EndOf(outq, got), to>>)
    BY <1>2 DEF H!Push, Contiguous
  <2>2. Chained(outq', got) /\ EndOf(outq', got) = to
    BY <1>2, <2>1, ChainedAppend DEF Contiguous, Counts
  <2> QED  BY <1>1, <1>2, <2>2 DEF H!Push, Contiguous
<1>3. CASE ~(watching /\ session = "up" /\ sent < to)
  <2>1. outq' = outq
    BY <1>3 DEF H!Push
  <2>2. watching => EndOf(outq, got) \in Nat
    BY ChainedEnd DEF Contiguous, Counts
  <2> QED  BY <1>1, <1>3, <2>1, <2>2 DEF H!Push, Contiguous, Counts
<1> QED  BY <1>2, <1>3

LEMMA OutputKeeps ==
  ASSUME Contiguous, H!Pump \/ H!Fanout \/ H!Write
  PROVE  Contiguous'
<1>1. CASE H!Write \/ H!Pump
  <2>1. /\ UNCHANGED <<taken, sent, H!connVars>>
        /\ made' \in Nat /\ file' \in Nat /\ file <= file'
    BY <1>1 DEF H!Write, H!Pump, H!PumpReads, H!PumpEnds, Contiguous, Counts
  <2> QED  BY <2>1 DEF Contiguous, Counts, H!connVars
<1>2. CASE H!FanoutTakes
  <2> DEFINE to == IF H!Whole(file) > sent THEN H!Whole(file) ELSE sent
  <2>1. to \in Nat /\ sent <= to /\ to <= file
    <3>1. file \in Nat /\ sent \in Nat /\ sent <= file
      BY DEF Contiguous, Counts
    <3>2. H!Whole(file) \in Nat /\ H!Whole(file) <= file
      BY <3>1, WholeBelow
    <3> QED  BY <3>1, <3>2
  <2>2. /\ H!Push(to) /\ taken' = file /\ file \in Nat
        /\ UNCHANGED <<made, file, session, watching, kept, wrote, got>>
    BY <1>2 DEF H!FanoutTakes, Contiguous, Counts
  <2> HIDE DEF to
  <2> QED  BY <2>1, <2>2, PushKeeps
<1>3. CASE H!FanoutEnds
  <2> DEFINE to == IF park THEN sent ELSE taken
  <2>1. to \in Nat /\ sent <= to /\ to <= taken
    BY DEF Contiguous, Counts
  <2>2. /\ H!Push(to) /\ taken' = taken /\ taken \in Nat /\ taken <= file
        /\ UNCHANGED <<made, file, session, watching, kept, wrote, got>>
    BY <1>3 DEF H!FanoutEnds, Contiguous, Counts
  <2> HIDE DEF to
  <2> QED  BY <2>1, <2>2, PushKeeps
<1> QED  BY <1>1, <1>2, <1>3 DEF H!Fanout

LEMMA WriterKeeps ==
  ASSUME Contiguous, H!WriterWrites
  PROVE  Contiguous' /\ Head(outq)[1] = got
<1>1. outq # << >> /\ watching
  BY DEF H!WriterWrites, Contiguous
<1>2. /\ Head(outq)[1] = got /\ Head(outq)[2] \in Nat /\ got < Head(outq)[2]
      /\ Tail(outq) \in Frames
      /\ Chained(Tail(outq), Head(outq)[2])
      /\ EndOf(Tail(outq), Head(outq)[2]) = EndOf(outq, got)
  BY <1>1, ChainedTail DEF Contiguous, Counts
<1>3. got' = Head(outq)[2] /\ wrote' = got' /\ outq' = Tail(outq)
  BY <1>1, <1>2 DEF H!WriterWrites, Contiguous
<1> QED
  BY <1>1, <1>2, <1>3 DEF H!WriterWrites, Contiguous, Counts, H!ioVars

LEMMA ClientKeeps ==
  ASSUME Contiguous, H!Client
  PROVE  Contiguous'
<1>1. CASE H!Dial
  BY <1>1 DEF H!Dial, Contiguous, Counts, H!ioVars
<1>2. CASE H!Hello /\ kept = {}
  <2>1. outq' = << >> /\ wrote' = 0 /\ kept' = {} /\ watching' = FALSE
    BY <1>2 DEF H!Hello
  <2>2. << >> \in Frames
    BY DEF Frames
  <2> QED  BY <1>2, <2>1, <2>2, ChainedEmpty DEF H!Hello, Contiguous, Counts, H!ioVars
<1>3. CASE H!Hello /\ kept # {}
  <2>1. kept = {got} /\ got <= sent /\ got \in Nat /\ sent \in Nat
    BY <1>3 DEF Contiguous, Counts
  <2>2. /\ outq' = IF got < sent THEN << <<got, sent>> >> ELSE << >>
        /\ wrote' = got /\ kept' = {} /\ watching' = TRUE /\ session' = "up"
        /\ UNCHANGED <<made, file, taken, sent, got>>
    BY <1>3, <2>1 DEF H!Hello, H!ioVars
  <2>3. << >> \in Frames
    BY DEF Frames
  <2>4. outq' \in Frames /\ Chained(outq', got) /\ EndOf(outq', got) = sent
    BY <2>1, <2>2, <2>3, ChainedEmpty, ChainedOne
  <2> QED  BY <2>1, <2>2, <2>4 DEF Contiguous, Counts
<1> QED  BY <1>1, <1>2, <1>3 DEF H!Client

(* A connection that is closed loses its queue and leaves its cursor. *)
LEMMA CarryKeeps ==
  ASSUME Contiguous, H!CarryWatches
  PROVE  Contiguous'
<1>1. CASE session = "closing"
  <2>1. /\ session' = "none" /\ watching' = FALSE /\ outq' = << >>
        /\ kept' = IF watching THEN H!CarriedWatch ELSE kept
        /\ UNCHANGED <<made, file, taken, sent, wrote, got>>
    BY <1>1 DEF H!CarryWatches, H!ioVars
  <2>2. << >> \in Frames
    BY DEF Frames
  <2>3. CASE watching
    <3>1. got <= sent /\ kept = {} /\ wrote = got
      BY <2>3, ChainedEnd DEF Contiguous, Counts
    <3>2. H!Min(kept \cup {wrote}) = got
      BY <3>1 DEF H!Min, Contiguous, Counts
    <3> QED
      BY <2>1, <2>2, <2>3, <3>1, <3>2, ChainedEmpty DEF H!CarriedWatch, Contiguous, Counts
  <2>4. CASE ~watching
    BY <2>1, <2>2, <2>4, ChainedEmpty DEF Contiguous, Counts
  <2> QED  BY <2>3, <2>4
<1>2. CASE session # "closing"
  BY <1>2 DEF H!CarryWatches, Contiguous, Counts, H!ioVars
<1> QED  BY <1>1, <1>2

LEMMA ImageKeeps ==
  ASSUME Contiguous, H!Exec \/ H!ExecFails \/ H!QuiesceTimesOut \/ H!RestoreFails
                     \/ H!ShutdownBegins
  PROVE  Contiguous'
<1>1. << >> \in Frames
  BY DEF Frames
<1>2. CASE H!Exec
  <2>1. /\ watching' = FALSE /\ outq' = << >> /\ kept' \subseteq kept
        /\ UNCHANGED <<made, file, sent, wrote, got>>
        /\ taken' \in {taken, file}
    BY <1>2 DEF H!Exec, H!RestartTask
  <2> QED  BY <1>1, <2>1, ChainedEmpty DEF Contiguous, Counts
<1>3. CASE H!ExecFails \/ H!QuiesceTimesOut
  <2>1. UNCHANGED <<made, file, sent, H!connVars>> /\ taken' \in {taken, file}
    BY <1>3 DEF H!ExecFails, H!QuiesceTimesOut, H!RestartTask
  <2> QED  BY <2>1 DEF Contiguous, Counts, H!connVars
<1>4. CASE H!RestoreFails \/ H!ShutdownBegins
  <2>1. /\ watching' = FALSE /\ outq' = << >> /\ kept' = {}
        /\ UNCHANGED <<made, file, got>> /\ wrote' = 0 /\ taken' = 0 /\ sent' = 0
    BY <1>4 DEF H!RestoreFails, H!ShutdownBegins, H!Dies
  <2> QED  BY <1>1, <2>1, ChainedEmpty DEF Contiguous, Counts
<1> QED  BY <1>2, <1>3, <1>4

LEMMA ContiguousStep ==
  ASSUME Contiguous, [H!Next]_(H!vars)
  PROVE  Contiguous'
<1>1. CASE H!CloseConnections
  <2>1. /\ session' = IF session = "up" THEN "closing" ELSE session
        /\ UNCHANGED <<H!ioVars, watching, kept, outq, wrote, got>>
    BY <1>1 DEF H!CloseConnections
  <2> QED  BY <2>1 DEF Contiguous, Counts, H!ioVars
<1>2. CASE \/ H!Fork \/ H!Exits \/ H!Runner \/ H!RequestEnds \/ H!Stop \/ H!ReaperFires
           \/ H!ReaperKills \/ H!TimeoutFires \/ H!Watch \/ H!UpgradeAsked
           \/ H!Preflight \/ H!UpgradeBegins \/ H!Parked \/ H!ShutdownAsked
           \/ UNCHANGED H!vars
  <2>1. UNCHANGED <<made, file, taken, sent, H!connVars>>
    BY <1>2 DEF H!Fork, H!Exits, H!Runner, H!Report, H!RunnerExits, H!LifelineBroken,
         H!RequestEnds, H!Stop, H!ReaperFires, H!ReaperKills, H!TimeoutFires, H!Watch,
         H!WatchReport,
         H!WatchRunnerExit, H!Finalize, H!ReapRunner, H!WatchParks, H!UpgradeAsked, H!Preflight,
         H!UpgradeBegins, H!Parked, H!ShutdownAsked, H!vars, H!ioVars
  <2> QED  BY <2>1 DEF Contiguous, Counts, H!connVars
<1> QED
  BY <1>1, <1>2, OutputKeeps, WriterKeeps, ClientKeeps, CarryKeeps, ImageKeeps
     DEF H!Next, H!Perform

(* OutputWhole for any bounds and faults: a watching session receives each *)
(* output event where the last one ended (carry_watches and                *)
(* resume_carried_watches over any number of upgrades).                    *)
THEOREM OutputAlwaysWhole == H!Spec => H!OutputWhole
<1>1. Contiguous => [H!WriterWrites => Head(outq)[1] = got]_(H!vars)
  BY WriterKeeps
<1> QED
  BY ContiguousInit, ContiguousStep, <1>1, PTL DEF H!Spec, H!OutputWhole
=============================================================================
