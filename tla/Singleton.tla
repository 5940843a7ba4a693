------------------------------ MODULE Singleton ------------------------------
(***************************************************************************)
(* One manager per home directory: how a daemon claims the directory and   *)
(* gives it up (manager/src/lifecycle.rs, daemon.rs `run`), and how the    *)
(* two kinds of clients reach it or start one (client.rs `connect`,        *)
(* manager-client.ts `connectFlow`).                                       *)
(*                                                                         *)
(* One action is one system call on the shared files, except that a daemon *)
(* removes its socket and pid file in one (no client compares the two).    *)
(* A process id is used again after its process died.  Clients do not die; *)
(* the in-place upgrade, which keeps pid, lock and socket, is left out.    *)
(***************************************************************************)
EXTENDS Naturals, FiniteSets

CONSTANTS
  Proc,        \* process ids a daemon may run under
  Cli,         \* command line clients
  Ext,         \* extension clients
  Ops,         \* faults and requests that may occur
  MaxClients,  \* bound: clients that are not at rest at a time
  MaxFaults    \* bound: crashes, shutdowns and doctor runs together

AllOps == {"crash", "shutdown", "doctor",
           "slow"}   \* any wait may time out

Client == Cli \cup Ext

ASSUME SingletonAssumption ==
  /\ Cli \cap Ext = {}
  /\ Ops \subseteq AllOps
  /\ MaxClients \in Nat /\ MaxFaults \in Nat
  /\ {"none", "doctor", "gone"} \cap Proc = {}
  /\ {"none", "cli"} \cap Client = {}

VARIABLES
  state,      \* how far each daemon process has come
  lock,       \* holder of manager.lock
  sock,       \* the daemon whose socket manager.sock is
  pidFile,    \* the process manager.pid names
  spawnFile,  \* manager.spawn.lock: who made it, whether a pid is in it, who holds its flock
  pc,         \* where each client stands
  conn,       \* the daemon a client's connection leads to
  awaited,    \* the process a client waits for to exit
  retry,      \* the client's second attempt is still to come
  faults

daemonVars == <<state, lock>>
fileVars   == <<sock, pidFile>>
clientVars == <<pc, conn, awaited, retry>>
vars == <<state, lock, sock, pidFile, spawnFile, pc, conn, awaited, retry, faults>>

DaemonState == {"dead", "started", "claimed", "clean", "named", "bound", "serving",
                "stopping", "unlinked"}
ClientPc == {"idle", "connect", "hello", "rejected", "shut", "zombie", "unlink-sock",
             "unlink-pid", "spawn", "read", "break", "name", "wait", "wait-other",
             "connect-last", "hello-last", "connected", "failed"}
NoFile == [by |-> "none", named |-> FALSE, flock |-> "none"]

TypeOK ==
  /\ state \in [Proc -> DaemonState]
  /\ lock \in Proc \cup {"none", "doctor"}
  /\ sock \in Proc \cup {"none"}
  /\ pidFile \in Proc \cup {"none"}
  /\ spawnFile \in [by : Ext \cup {"none", "cli"}, named : BOOLEAN, flock : Cli \cup {"none"}]
  /\ pc \in [Client -> ClientPc]
  /\ conn \in [Client -> Proc \cup {"none", "gone"}]
  /\ awaited \in [Client -> Proc \cup {"none"}]
  /\ retry \in [Client -> BOOLEAN]
  /\ faults \in 0..MaxFaults

Init ==
  /\ state = [d \in Proc |-> "dead"]
  /\ lock = "none" /\ sock = "none" /\ pidFile = "none"
  /\ spawnFile = NoFile
  /\ pc = [c \in Client |-> "idle"]
  /\ conn = [c \in Client |-> "none"]
  /\ awaited = [c \in Client |-> "none"]
  /\ retry = [c \in Client |-> FALSE]
  /\ faults = 0

-----------------------------------------------------------------------------
(* The daemon *)

Listening(d) == state[d] \in {"bound", "serving", "stopping"}

(* connect(2) on manager.sock succeeds: the file is d's and d listens. *)
Reachable(d) == sock = d /\ Listening(d)

DaemonStep(d, from, to) ==
  /\ state[d] = from
  /\ state' = [state EXCEPT ![d] = to]
  /\ UNCHANGED <<spawnFile, clientVars, faults>>

PidAlive == pidFile \in Proc /\ state[pidFile] # "dead"

(* Mutant: the pid file decides who is the manager. *)
ClaimByPid(d) ==
  /\ DaemonStep(d, "started", "claimed")
  /\ ~PidAlive
  /\ lock' = d
  /\ UNCHANGED fileVars

(* claim_daemon: the lifetime lock decides. *)
Claim(d) ==
  /\ DaemonStep(d, "started", "claimed")
  /\ lock = "none"
  /\ lock' = d
  /\ UNCHANGED fileVars

(* "already running": exit. *)
ClaimRefused(d) ==
  /\ DaemonStep(d, "started", "dead")
  /\ lock # "none"
  /\ UNCHANGED <<lock, fileVars>>

(* cleanup_stale_files *)
CleanStale(d) ==
  /\ DaemonStep(d, "claimed", "clean")
  /\ sock' = "none"
  /\ pidFile' = "none"
  /\ UNCHANGED lock

WritePid(d) ==
  /\ DaemonStep(d, "clean", "named")
  /\ pidFile' = d
  /\ UNCHANGED <<lock, sock>>

(* Fails if there is a file; nobody else makes one. *)
Bind(d) ==
  /\ DaemonStep(d, "named", "bound")
  /\ sock = "none"
  /\ sock' = d
  /\ UNCHANGED <<lock, pidFile>>

(* scan_tasks is done: whoever has queued is accepted. *)
Serve(d) ==
  /\ DaemonStep(d, "bound", "serving")
  /\ UNCHANGED <<lock, fileVars>>

Fault ==
  /\ faults < MaxFaults
  /\ faults' = faults + 1

(* A shutdown request or a signal. *)
BeginShutdown(d) ==
  /\ "shutdown" \in Ops
  /\ state[d] = "serving"
  /\ Fault
  /\ state' = [state EXCEPT ![d] = "stopping"]
  /\ UNCHANGED <<lock, fileVars, spawnFile, clientVars>>

(* Five seconds without a connection that has said hello. Whoever tries to *)
(* reach a manager that can be reached needs less: an extension tries every *)
(* two seconds. A hello still on its way holds nothing up.                 *)
IdleShutdown(d) ==
  /\ DaemonStep(d, "serving", "stopping")
  /\ \A c \in Client : pc[c] = "connected" => conn[c] # d
  /\ Reachable(d) => \A c \in Client : c \in Cli /\ pc[c] \in {"idle", "failed"}
  /\ UNCHANGED <<lock, fileVars>>

(* The last step of the graceful shutdown; the lock is still held. *)
Unlink(d) ==
  /\ DaemonStep(d, "stopping", "unlinked")
  /\ sock' = "none"
  /\ pidFile' = "none"
  /\ UNCHANGED lock

(* A process that ends closes its connections and gives the lock back. *)
Dies(d) ==
  /\ state' = [state EXCEPT ![d] = "dead"]
  /\ lock' = IF lock = d THEN "none" ELSE lock
  /\ conn' = [c \in Client |-> IF conn[c] = d THEN "gone" ELSE conn[c]]
  /\ UNCHANGED <<fileVars, spawnFile, pc, awaited, retry>>

Exit(d) ==
  /\ state[d] = "unlinked"
  /\ Dies(d)
  /\ UNCHANGED faults

Crash(d) ==
  /\ "crash" \in Ops
  /\ state[d] # "dead"
  /\ Fault
  /\ Dies(d)

(* Mutant: doctor cleans whether or not a daemon holds the lock. *)
DoctorLocksAnyway ==
  /\ "doctor" \in Ops
  /\ Fault
  /\ lock' = "doctor"
  /\ UNCHANGED <<state, fileVars, spawnFile, clientVars>>

(* doctor: clean_if_no_daemon, the files under the lock. *)
DoctorLocks ==
  /\ "doctor" \in Ops
  /\ lock = "none"
  /\ Fault
  /\ lock' = "doctor"
  /\ UNCHANGED <<state, fileVars, spawnFile, clientVars>>

DoctorCleans ==
  /\ lock = "doctor"
  /\ lock' = "none"
  /\ sock' = "none"
  /\ pidFile' = "none"
  /\ UNCHANGED <<state, spawnFile, clientVars, faults>>

-----------------------------------------------------------------------------
(* What both kinds of clients do *)

Goto(c, label) == pc' = [pc EXCEPT ![c] = label]

Begin(c) ==
  /\ pc[c] \in {"idle", "failed"}
  /\ Cardinality({k \in Client : pc[k] \notin {"idle", "failed"}}) < MaxClients
  /\ Goto(c, "connect")
  /\ retry' = [retry EXCEPT ![c] = TRUE]
  /\ UNCHANGED <<daemonVars, fileVars, spawnFile, conn, awaited, faults>>

(* connect(2): the connection waits in the backlog until d serves. *)
Connect(c) ==
  /\ pc[c] = "connect"
  /\ \E d \in Proc :
       /\ Reachable(d)
       /\ conn' = [conn EXCEPT ![c] = d]
  /\ Goto(c, "hello")
  /\ UNCHANGED <<daemonVars, fileVars, spawnFile, awaited, retry, faults>>

Unreachable == \A d \in Proc : ~Reachable(d)

(* Nobody listens: go on to spawn; a command line client makes two attempts. *)
ConnectFails(c) ==
  /\ pc[c] = "connect"
  /\ Unreachable
  /\ Goto(c, IF c \in Cli /\ ~retry[c] THEN "failed" ELSE "spawn")
  /\ UNCHANGED <<daemonVars, fileVars, spawnFile, conn, awaited, retry, faults>>

HelloAnswered(c) ==
  /\ pc[c] \in {"hello", "hello-last"}
  /\ conn[c] \in Proc
  /\ state[conn[c]] = "serving"
  /\ Goto(c, "connected")
  /\ UNCHANGED <<daemonVars, fileVars, spawnFile, conn, awaited, retry, faults>>

ShuttingDown(c) == conn[c] \in Proc /\ state[conn[c]] \in {"stopping", "unlinked"}

(* "manager is shutting down" *)
HelloRejected(c) ==
  /\ pc[c] = "hello"
  /\ ShuttingDown(c)
  /\ Goto(c, "rejected")
  /\ conn' = [conn EXCEPT ![c] = "none"]
  /\ UNCHANGED <<daemonVars, fileVars, spawnFile, awaited, retry, faults>>

(* Mutant: whoever holds the lock is awaited. *)
ReadLock(c) ==
  /\ pc[c] = "rejected"
  /\ Goto(c, "shut")
  /\ awaited' = [awaited EXCEPT ![c] = lock]
  /\ UNCHANGED <<daemonVars, fileVars, spawnFile, conn, retry, faults>>

(* The exit of the process in the pid file is awaited, if there is one.    *)
ReadPid(c) ==
  /\ pc[c] = "rejected"
  /\ Goto(c, "shut")
  /\ awaited' = [awaited EXCEPT ![c] = pidFile]
  /\ UNCHANGED <<daemonVars, fileVars, spawnFile, conn, retry, faults>>

(* Mutant: a closed connection goes unnoticed. *)
HelloTimedOut(c) == c \in Ext /\ conn[c] \in Proc /\ (state[conn[c]] = "bound" \/ "slow" \in Ops)

(* The connection was closed, or an extension's hello timed out, as it     *)
(* does on a daemon that still scans its home.                             *)
HelloLost(c) ==
  \/ conn[c] = "gone"
  \/ c \in Ext /\ conn[c] \in Proc /\ (state[conn[c]] = "bound" \/ "slow" \in Ops)

HelloFails(c) ==
  /\ pc[c] = "hello"
  /\ HelloLost(c)
  /\ Goto(c, IF c \in Ext THEN "zombie" ELSE IF retry[c] THEN "spawn" ELSE "failed")
  /\ conn' = [conn EXCEPT ![c] = "none"]
  /\ UNCHANGED <<daemonVars, fileVars, spawnFile, awaited, retry, faults>>

(* wait_for_manager_exit, waitForManagerExit: five seconds at most, enough *)
(* for a manager that shuts down to exit. A command line client goes on to *)
(* spawn, an extension starts over.                                        *)
ManagerExited(c) ==
  /\ pc[c] = "shut"
  /\ awaited[c] \in Proc => state[awaited[c]] \notin {"stopping", "unlinked"} \/ "slow" \in Ops
  /\ Goto(c, IF ~retry[c] THEN "failed" ELSE IF c \in Ext THEN "connect" ELSE "spawn")
  /\ retry' = [retry EXCEPT ![c] = IF c \in Ext THEN FALSE ELSE @]
  /\ awaited' = [awaited EXCEPT ![c] = "none"]
  /\ UNCHANGED <<daemonVars, fileVars, spawnFile, conn, faults>>

-----------------------------------------------------------------------------
(* handleZombie: the extension only *)

AfterZombie(c) ==
  /\ Goto(c, IF retry[c] THEN "connect" ELSE "failed")
  /\ retry' = [retry EXCEPT ![c] = FALSE]

(* The pid file names a live process: leave the files alone. *)
ZombieAlive(c) ==
  /\ pc[c] = "zombie"
  /\ PidAlive
  /\ AfterZombie(c)
  /\ UNCHANGED <<daemonVars, fileVars, spawnFile, conn, awaited, faults>>

ZombieDead(c) ==
  /\ pc[c] = "zombie"
  /\ ~PidAlive
  /\ Goto(c, "unlink-sock")
  /\ UNCHANGED <<daemonVars, fileVars, spawnFile, conn, awaited, retry, faults>>

UnlinkSock(c) ==
  /\ pc[c] = "unlink-sock"
  /\ sock' = "none"
  /\ Goto(c, "unlink-pid")
  /\ UNCHANGED <<daemonVars, pidFile, spawnFile, conn, awaited, retry, faults>>

UnlinkPid(c) ==
  /\ pc[c] = "unlink-pid"
  /\ pidFile' = "none"
  /\ AfterZombie(c)
  /\ UNCHANGED <<daemonVars, sock, spawnFile, conn, awaited, faults>>

-----------------------------------------------------------------------------
(* Spawning a daemon *)

(* The two kinds lock manager.spawn.lock each in its own way: a command    *)
(* line client takes a flock on the file, an extension creates it and then *)
(* writes its pid into it.                                                 *)
Start ==
  \E d \in Proc :
    /\ state[d] = "dead"
    /\ state' = [state EXCEPT ![d] = "started"]

SpawnLocked(c) ==
  /\ pc[c] = "spawn" /\ c \in Cli
  /\ spawnFile.flock = "none"
  /\ spawnFile' = [spawnFile EXCEPT !.flock = c, !.by = IF @ = "none" THEN "cli" ELSE @]
  /\ Start
  /\ Goto(c, "wait")
  /\ UNCHANGED <<lock, fileVars, conn, awaited, retry, faults>>

(* Someone else is spawning. *)
SpawnBusy(c) ==
  /\ pc[c] = "spawn" /\ c \in Cli
  /\ spawnFile.flock # "none"
  /\ Goto(c, "wait-other")
  /\ UNCHANGED <<daemonVars, fileVars, spawnFile, conn, awaited, retry, faults>>

SpawnCreate(c) ==
  /\ pc[c] = "spawn" /\ c \in Ext
  /\ spawnFile.by = "none"
  /\ spawnFile' = [NoFile EXCEPT !.by = c]
  /\ Goto(c, "name")
  /\ UNCHANGED <<daemonVars, fileVars, conn, awaited, retry, faults>>

SpawnExists(c) ==
  /\ pc[c] = "spawn" /\ c \in Ext
  /\ spawnFile.by # "none"
  /\ Goto(c, "read")
  /\ UNCHANGED <<daemonVars, fileVars, spawnFile, conn, awaited, retry, faults>>

(* The pid goes into the file c created, be it still there or not.         *)
SpawnName(c) ==
  /\ pc[c] = "name"
  /\ spawnFile' = [spawnFile EXCEPT !.named = @ \/ spawnFile.by = c]
  /\ Start
  /\ Goto(c, "wait")
  /\ UNCHANGED <<lock, fileVars, conn, awaited, retry, faults>>

(* A file without a pid is stale; whose pid is in it lives.                *)
SpawnRead(c) ==
  /\ pc[c] = "read"
  /\ Goto(c, IF spawnFile.named THEN "wait-other" ELSE "break")
  /\ UNCHANGED <<daemonVars, fileVars, spawnFile, conn, awaited, retry, faults>>

(* Nothing to remove, or the third try: another spawns. Else try again.    *)
SpawnBreak(c) ==
  /\ pc[c] = "break"
  /\ spawnFile' = NoFile
  /\ \/ Goto(c, "wait-other")
     \/ spawnFile.by # "none" /\ Goto(c, "spawn")
  /\ UNCHANGED <<daemonVars, fileVars, conn, awaited, retry, faults>>

(* An extension removes the file, whoever made it; a command line client's *)
(* flock goes with its descriptor, and no longer counts if the file did.   *)
Release(c) ==
  spawnFile' =
    IF pc[c] = "wait-other" THEN spawnFile
    ELSE IF c \in Ext THEN NoFile
    ELSE IF spawnFile.flock = c THEN [spawnFile EXCEPT !.flock = "none"] ELSE spawnFile

AfterWait(c, found) ==
  IF c \in Ext THEN Goto(c, IF found THEN "connect-last" ELSE "failed") /\ UNCHANGED retry
  ELSE Goto(c, "connect") /\ retry' = [retry EXCEPT ![c] = FALSE]

SocketReady(c) ==
  /\ pc[c] \in {"wait", "wait-other"}
  /\ ~Unreachable
  /\ Release(c)
  /\ AfterWait(c, TRUE)
  /\ UNCHANGED <<daemonVars, fileVars, conn, awaited, faults>>

Coming == \E d \in Proc : state[d] \in {"started", "claimed", "clean", "named"}

(* Two seconds have passed: without "slow" only if no daemon is on its way. *)
SocketTimeout(c) ==
  /\ pc[c] \in {"wait", "wait-other"}
  /\ Unreachable
  /\ ~Coming \/ "slow" \in Ops
  /\ Release(c)
  /\ AfterWait(c, FALSE)
  /\ UNCHANGED <<daemonVars, fileVars, conn, awaited, faults>>

(* The extension's last attempt. *)
ConnectLast(c) ==
  /\ pc[c] = "connect-last"
  /\ \/ /\ Unreachable
        /\ Goto(c, "failed")
        /\ UNCHANGED conn
     \/ \E d \in Proc :
          /\ Reachable(d)
          /\ conn' = [conn EXCEPT ![c] = d]
          /\ Goto(c, "hello-last")
  /\ UNCHANGED <<daemonVars, fileVars, spawnFile, awaited, retry, faults>>

HelloLastFails(c) ==
  /\ pc[c] = "hello-last"
  /\ HelloLost(c) \/ ShuttingDown(c)
  /\ Goto(c, "failed")
  /\ conn' = [conn EXCEPT ![c] = "none"]
  /\ UNCHANGED <<daemonVars, fileVars, spawnFile, awaited, retry, faults>>

(* A command line client is done; an extension stays until the manager     *)
(* closes its connection, and then connects again.                         *)
Leave(c) ==
  /\ pc[c] = "connected"
  /\ c \in Cli \/ conn[c] = "gone"
  /\ Goto(c, "idle")
  /\ conn' = [conn EXCEPT ![c] = "none"]
  /\ UNCHANGED <<daemonVars, fileVars, spawnFile, awaited, retry, faults>>

-----------------------------------------------------------------------------
DaemonNext(d) ==
  Claim(d) \/ ClaimRefused(d) \/ CleanStale(d) \/ WritePid(d) \/ Bind(d) \/ Serve(d)
    \/ BeginShutdown(d) \/ IdleShutdown(d) \/ Unlink(d) \/ Exit(d) \/ Crash(d)

ClientSteps(c) ==
  Connect(c) \/ ConnectFails(c) \/ HelloAnswered(c) \/ HelloRejected(c) \/ ReadPid(c)
    \/ HelloFails(c) \/ ManagerExited(c) \/ ZombieAlive(c) \/ ZombieDead(c) \/ UnlinkSock(c) \/ UnlinkPid(c)
    \/ SpawnLocked(c) \/ SpawnBusy(c) \/ SpawnCreate(c) \/ SpawnExists(c) \/ SpawnName(c)
    \/ SpawnRead(c) \/ SpawnBreak(c)
    \/ SocketReady(c) \/ SocketTimeout(c) \/ ConnectLast(c) \/ HelloLastFails(c)

Next ==
  \/ \E d \in Proc : DaemonNext(d)
  \/ \E c \in Client : Begin(c) \/ ClientSteps(c) \/ Leave(c)
  \/ DoctorLocks
  \/ DoctorCleans

Spec == Init /\ [][Next]_vars

(* A daemon that starts or stops goes on to do so, and a client that began *)
(* to connect goes on; strongly, since the process ids a spawn may draw    *)
(* from are few in the model and can be taken by others again and again.   *)
Fairness ==
  /\ \A d \in Proc :
       WF_vars(Claim(d) \/ ClaimRefused(d) \/ CleanStale(d) \/ WritePid(d) \/ Bind(d)
                 \/ Serve(d) \/ IdleShutdown(d) \/ Unlink(d) \/ Exit(d))
  /\ \A c \in Client : SF_vars(ClientSteps(c))
  /\ WF_vars(DoctorCleans)

FairSpec == Spec /\ Fairness

-----------------------------------------------------------------------------
(* Properties *)

(* The socket in the file system is that of the daemon that holds the      *)
(* lock: a manager that serves can be reached, so no session is stranded   *)
(* and no second manager is waited for in vain.                            *)
ServingReachable ==
  \A d \in Proc : state[d] \in {"bound", "serving", "stopping"} => sock = d /\ pidFile = d

(* Where extensions run, the files of a daemon that listens are taken from *)
(* it by nobody but an extension's clean-up of a manager it found dead     *)
(* (manager-client.ts handleZombie): not by a second daemon, a doctor or a *)
(* command line client, and a daemon begins to listen on its own socket.   *)
FilesKept ==
  [][\A d \in Proc :
       Listening(d)' =>
         /\ sock = d \/ ~Listening(d)
              => sock' = d \/ \E e \in Ext : pc[e] = "unlink-sock"
         /\ Listening(d) /\ pidFile = d
              => pidFile' = d \/ \E e \in Ext : pc[e] = "unlink-pid"]_vars

(* There is one manager: whoever says hello and is answered talks to the   *)
(* holder of the lock, so two sessions never use different managers.       *)
OneManager ==
  \A c, e \in Client :
    pc[c] = "connected" /\ pc[e] = "connected" /\ conn[c] \in Proc /\ conn[e] \in Proc
      => conn[c] = conn[e] /\ lock = conn[c]

(* A command line client is never left hanging: not by a manager that dies *)
(* between its connection and its hello, nor by one that scans or stops.   *)
CliAnswers == \A c \in Cli : pc[c] = "connect" ~> pc[c] \in {"connected", "failed"}
=============================================================================
