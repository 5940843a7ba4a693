-------------------------------- MODULE Client --------------------------------
(***************************************************************************)
(* One extension's connection to the manager: the requests of              *)
(* manager-client.ts over connections that drop, are replaced or are lost  *)
(* with their daemon, and the daemon's side of it (daemon.rs: hello,       *)
(* session binding, request handlers, idle timer; handover.rs: what an     *)
(* in-place upgrade does to connections).                                  *)
(*                                                                         *)
(* A frame is a record naming the request it serves and the connection it  *)
(* travels on; a connection's name is used again once nothing refers to    *)
(* it.  How a daemon is found or started is module Singleton: here a dial  *)
(* fails only when no daemon runs, and starts one.                         *)
(***************************************************************************)
EXTENDS Naturals, FiniteSets

CONSTANTS
  MaxConn,    \* bound: connections the two sides know of at a time
  Start,      \* `start` requests, each with its own key
  Plain,      \* other requests the client may send again (wait, stop, list, ...)
  Once,       \* requests it may not (shutdown_session)
  Ops,        \* faults and rare events that may occur
  MaxFaults,  \* bound: how many of them, the upgrades apart
  MaxUpgrades \* bound: how many upgrades begin

Req  == Start \cup Plain \cup Once
Conn == 1..MaxConn

None  == 0
Other == MaxConn + 1   \* another process's connection

AllOps == {"drop",      \* the client meets a frame it cannot decode
           "slow",      \* a hello, a spawn or the reconnect window runs out of time
           "timeout",   \* a request's own timer fires
           "close",     \* ManagerClient.close()
           "takeover",  \* another process says hello for this session
           "upgrade-fails",
           "crash", "shutdown",
           "straddle"}  \* a start is looked up while its twin is being spawned

ASSUME ClientAssumption ==
  /\ Ops \subseteq AllOps
  /\ {MaxConn, MaxFaults, MaxUpgrades} \subseteq Nat
  /\ Start \cap (Plain \cup Once) = {} /\ Plain \cap Once = {}

VARIABLES
  cstate,       \* ClientState: what isAvailable() answers from
  flow,         \* the connectFlow in progress: none, connect() or reconnectLoop()
  at,           \* where it stands
  try,          \* 1 first attempt, 2 the zombie retry, 3 after a spawn
  sock,         \* the client's current connection
  intentional, rebound,
  st,           \* each request's promise
  link,         \* each connection as the daemon has it
  frames,       \* requests on the wire or being handled, and their answers
  mode,         \* the daemon process
  quit,         \* DaemonState.shutdown
  sess,         \* sessions[sid].conn_id
  tasks,        \* tasks each start key has started in this daemon's registry
  timer,        \* idle_timer
  hold,         \* hold_idle
  lastUpgrade,  \* last_upgrade: none, ok, failed
  upgrades, faults

upgradeVars == <<lastUpgrade, upgrades>>
flowVars   == <<flow, at, try>>
clientVars == <<cstate, flow, at, try, sock, intentional, rebound, st>>
daemonVars == <<mode, quit, sess, tasks, timer, hold, upgradeVars>>
vars == <<cstate, flow, at, try, sock, intentional, rebound, st, link, frames,
          mode, quit, sess, tasks, timer, hold, lastUpgrade, upgrades, faults>>

\* What happens to a frame: unread, in a handler that awaits, in a handler
\* that spawns, answered with a result, answered with an error.
FrameAt == {"wire", "held", "spawning", "answer", "error"}
Frame == [req : Req, conn : Conn, stage : FrameAt]

TypeOK ==
  /\ cstate \in {"disconnected", "connected", "unavailable"}
  /\ flow \in {"none", "connect", "reconnect"}
  /\ at \in {"off", "dial", "hello", "pause"}
  /\ (flow = "none") <=> (at = "off")
  /\ try \in 1..3
  /\ sock \in Conn \cup {None}
  /\ at = "dial" => sock = None
  /\ {intentional, rebound, quit, hold} \subseteq BOOLEAN
  /\ st \in [Req -> {"new", "pending", "queued", "resolved", "rejected"}]
  /\ link \in [Conn -> {"free", "hello", "open", "refused", "rebound", "shut"}]
  /\ frames \subseteq Frame
  /\ mode \in {"down", "up", "parking", "handing", "stopping"}
  /\ sess \in Conn \cup {None, Other}
  /\ tasks \in [Start -> 0..2]
  /\ timer \in {"off", "armed", "fired"}
  /\ lastUpgrade \in {"none", "ok", "failed"}
  /\ faults \in 0..MaxFaults /\ upgrades \in 0..MaxUpgrades

Init ==
  /\ cstate = "disconnected" /\ flow = "none" /\ at = "off" /\ try = 1
  /\ sock = None /\ intentional = FALSE /\ rebound = FALSE
  /\ st = [r \in Req |-> "new"]
  /\ link = [c \in Conn |-> "free"] /\ frames = {}
  /\ mode = "down" /\ quit = FALSE /\ sess = None
  /\ tasks = [s \in Start |-> 0]
  /\ timer = "off" /\ hold = FALSE /\ lastUpgrade = "none"
  /\ faults = 0 /\ upgrades = 0

Fault(op) == op \in Ops /\ faults < MaxFaults /\ faults' = faults + 1

-----------------------------------------------------------------------------
(* The client's requests (manager-client.ts).                              *)

Retryable(r) == r \notin Once
Sent(rs) == [req : rs, conn : {sock}, stage : {"wire"}]
Unsettled(r) == st[r] \in {"pending", "queued"}

\* request, sendPending
Request(r) ==
  /\ st[r] = "new"
  /\ \/ /\ sock # None /\ cstate = "connected"
        /\ st' = [st EXCEPT ![r] = "pending"]
        /\ frames' = frames \cup Sent({r})
     \/ /\ ~(sock # None /\ cstate = "connected")
        /\ flow # "none"
        /\ st' = [st EXCEPT ![r] = IF Retryable(r) THEN "queued" ELSE "rejected"]
        /\ UNCHANGED frames
  /\ UNCHANGED <<cstate, flowVars, sock, intentional, rebound, link, daemonVars, faults>>

\* The timer of a request.
TimeOut(r) ==
  /\ Unsettled(r) /\ Fault("timeout")
  /\ st' = [st EXCEPT ![r] = "rejected"]
  /\ UNCHANGED <<cstate, flowVars, sock, intentional, rebound, link, frames, daemonVars>>

\* dispatch, settle: an answer nobody waits for is dropped.
Settle(f) ==
  /\ f \in frames /\ f.stage \in {"answer", "error"}
  /\ f.conn = sock
  /\ frames' = frames \ {f}
  /\ st' = IF st[f.req] # "pending" THEN st
           ELSE [st EXCEPT ![f.req] = IF f.stage = "answer" THEN "resolved" ELSE "rejected"]
  /\ UNCHANGED <<cstate, flowVars, sock, intentional, rebound, link, daemonVars, faults>>

-----------------------------------------------------------------------------
(* Connecting, losing the connection, connecting again.                    *)

\* failAllPending
AllFailed == [r \in Req |-> IF Unsettled(r) THEN "rejected" ELSE st[r]]

\* resendPending: what may be sent again is, under a new id.
Resendable == {r \in Req : Unsettled(r) /\ Retryable(r)}

\* The mutant keeps the entries and writes no frame.
ResendPendingSilent ==
  /\ st' = [r \in Req |-> IF r \in Resendable THEN "pending" ELSE st[r]]
  /\ UNCHANGED frames

ResendPending ==
  /\ st' = [r \in Req |-> IF r \in Resendable THEN "pending" ELSE st[r]]
  /\ frames' = frames \cup Sent(Resendable)

\* connectFlow throws: connect() gives up, reconnectLoop() pauses; `meanwhile`
\* is the state until then.
Thrown(meanwhile) ==
  IF flow = "connect"
  THEN cstate' = "unavailable" /\ flow' = "none" /\ at' = "off" /\ UNCHANGED try
  ELSE cstate' = meanwhile /\ at' = "pause" /\ UNCHANGED <<flow, try>>

\* The mutant tries again after every failed hello.
HelloFailedAgain(meanwhile) ==
  cstate' = meanwhile /\ at' = "dial" /\ try' = try + 1 /\ UNCHANGED flow

\* connectAndHello throws a HelloError: handleZombie or waitForManagerExit,
\* then one more attempt if this was the first.
HelloFailed(meanwhile) ==
  IF try = 1
  THEN cstate' = meanwhile /\ at' = "dial" /\ try' = 2 /\ UNCHANGED flow
  ELSE Thrown(meanwhile)

\* connect, from session_start or ensureAvailable
Connect ==
  /\ cstate # "connected" /\ flow = "none"
  /\ intentional' = FALSE
  /\ flow' = "connect" /\ at' = "dial" /\ try' = 1
  /\ UNCHANGED <<cstate, sock, rebound, st, link, frames, daemonVars, faults>>

FreeConns == {c \in Conn : link[c] = "free" /\ \A f \in frames : f.conn # c}

\* connectAndHello, attachSocket, hello: the manager's socket accepts; a
\* manager that shuts down is waited for.
Dial ==
  /\ at = "dial" /\ mode # "down"
  /\ mode = "stopping" => try = 1
  /\ \E c \in FreeConns :
       /\ \A d \in FreeConns : c <= d
       /\ sock' = c /\ at' = "hello"
       /\ link' = [link EXCEPT ![c] = "hello"]
  /\ UNCHANGED <<cstate, flow, try, intentional, rebound, st, frames, daemonVars, faults>>

\* spawnManager, waitForSocket; the daemon arms its idle timer as it serves.
SpawnManager ==
  /\ at = "dial" /\ mode = "down" /\ try < 3
  /\ \/ /\ mode' = "up" /\ quit' = FALSE /\ hold' = FALSE /\ timer' = "armed"
        /\ try' = 3
        /\ UNCHANGED <<cstate, flow, at, faults>>
     \/ /\ Fault("slow") /\ Thrown(cstate)
        /\ UNCHANGED <<mode, quit, hold, timer>>
  /\ UNCHANGED <<sock, intentional, rebound, st, link, frames, sess, tasks, upgradeVars>>

\* The daemon died between the spawn and the last dial.
DialFails ==
  /\ at = "dial" /\ mode = "down" /\ try = 3
  /\ Thrown(cstate)
  /\ UNCHANGED <<sock, intentional, rebound, st, link, frames, daemonVars, faults>>

\* The answer to hello: connect() is done, reconnectLoop() sends again.
HelloAnswered ==
  /\ at = "hello" /\ link[sock] \in {"open", "rebound"}
  /\ cstate' = "connected" /\ flow' = "none" /\ at' = "off"
  /\ IF flow = "reconnect" THEN ResendPending ELSE UNCHANGED <<st, frames>>
  /\ UNCHANGED <<try, sock, intentional, rebound, link, daemonVars, faults>>

\* hello refused (the manager is shutting down) or out of time; detachSocket.
HelloRefused ==
  /\ at = "hello"
  /\ \/ link[sock] = "refused" /\ UNCHANGED faults
     \/ Fault("slow")
  /\ sock' = None /\ HelloFailed(cstate)
  /\ UNCHANGED <<intentional, rebound, st, link, frames, daemonVars>>

\* The promises onClose leaves alone.
SurvivesClose(r) == Retryable(r) /\ ~intentional /\ ~rebound

\* onClose, once the socket is detached
OnClose ==
  /\ sock' = None
  /\ st' = [r \in Req |-> IF st[r] = "pending" /\ ~SurvivesClose(r) THEN "rejected" ELSE st[r]]
  /\ IF at = "hello"
     THEN HelloFailed("disconnected")
     ELSE /\ cstate' = "disconnected" /\ try' = 1
          /\ IF cstate = "connected" /\ ~intentional /\ ~rebound
             THEN flow' = "reconnect" /\ at' = "dial"
             ELSE UNCHANGED <<flow, at>>
  /\ UNCHANGED <<intentional, frames>>

\* The daemon closed the connection, having sent session_rebound or not.
SocketCloses ==
  /\ sock # None /\ link[sock] \in {"rebound", "shut"}
  /\ link[sock] = "rebound" => at # "hello"      \* the answer to hello comes first
  /\ IF link[sock] = "rebound" /\ ~rebound
     THEN /\ rebound' = TRUE                     \* dispatch: session_rebound
          /\ UNCHANGED <<cstate, flowVars, sock, intentional, st, frames>>
     ELSE OnClose /\ UNCHANGED rebound
  /\ UNCHANGED <<link, daemonVars, faults>>

\* onData: a protocol error detaches the socket and goes on as if it closed.
ProtocolError ==
  /\ sock # None /\ cstate = "connected" /\ Fault("drop")
  /\ OnClose
  /\ UNCHANGED <<rebound, link, daemonVars>>

\* close: hello's promise is one of those failed.
Close ==
  /\ ~intentional /\ Fault("close")
  /\ cstate = "connected" \/ flow # "none"
  /\ intentional' = TRUE
  /\ sock' = None /\ st' = AllFailed
  /\ IF at = "hello" THEN HelloFailed("disconnected")
     ELSE cstate' = "disconnected" /\ UNCHANGED flowVars
  /\ UNCHANGED <<rebound, link, frames, daemonVars>>

\* The mutant gives up and leaves the promises as they are.
ReconnectLoopForgets ==
  /\ at = "pause"
  /\ cstate' = "unavailable" /\ flow' = "none" /\ at' = "off"
  /\ UNCHANGED <<try, st, faults>>
  /\ UNCHANGED <<sock, intentional, rebound, link, frames, daemonVars>>

\* reconnectLoop between two attempts: stop, try again, or the window is over.
ReconnectLoop ==
  /\ at = "pause"
  /\ \/ /\ intentional \/ rebound
        /\ flow' = "none" /\ at' = "off"
        /\ UNCHANGED <<cstate, try, st, faults>>
     \/ /\ ~intentional /\ ~rebound
        /\ at' = "dial" /\ try' = 1
        /\ UNCHANGED <<cstate, flow, st, faults>>
     \/ /\ Fault("slow")
        /\ cstate' = "unavailable" /\ flow' = "none" /\ at' = "off"
        /\ st' = AllFailed
        /\ UNCHANGED try
  /\ UNCHANGED <<sock, intentional, rebound, link, frames, daemonVars>>

ClientStep ==
  \/ Dial \/ SpawnManager \/ DialFails \/ HelloAnswered \/ SocketCloses \/ ReconnectLoop
  \/ HelloRefused
  \/ \E f \in frames : Settle(f)

-----------------------------------------------------------------------------
(* The daemon: connections and sessions (daemon.rs).                       *)

\* DaemonState.conns: whoever has said hello and is not gone.
Conns(l, s) == {c \in Conn : l[c] = "open"} \cup ({s} \cap {Other})

\* maybe_arm_idle_timer, in the state (mode m, hold h, links l, session s)
ArmIdle(m, h, l, s) ==
  timer' = IF quit \/ m \in {"parking", "handing"} \/ h \/ Conns(l, s) # {} \/ timer # "off"
           THEN timer ELSE "armed"

\* remove_conn: the session is disconnected only if this connection was its own.
Unbound(c) == IF sess = c THEN None ELSE sess

\* The mutant lets the old connection be.
RegisterBoth(c) ==
  /\ link[c] = "hello" /\ mode # "down" /\ ~quit
  /\ link' = [link EXCEPT ![c] = "open"]
  /\ sess' = IF sess = None THEN c ELSE sess
  /\ timer' = "off"
  /\ UNCHANGED <<clientVars, frames, mode, quit, tasks, hold, upgradeVars, faults>>

\* register_conn's refusal and binding; the session's old connection is told
\* and closed.
Register(c) ==
  /\ link[c] = "hello" /\ mode # "down"
  /\ IF quit
     THEN /\ link' = [link EXCEPT ![c] = "refused"]
          /\ UNCHANGED <<sess, timer>>
     ELSE /\ link' = [d \in Conn |-> IF d = c THEN "open"
                                     ELSE IF d = sess THEN "rebound" ELSE link[d]]
          /\ sess' = c
          /\ timer' = "off"
  /\ UNCHANGED <<clientVars, frames, mode, quit, tasks, hold, upgradeVars, faults>>

\* handle_conn: the reader ends (end of file, or `die` after a rebind); what
\* it has not read is never read.
ReaderEnds(c) ==
  /\ sock # c /\ link[c] # "free" /\ link[c] # "hello"
  /\ link' = [link EXCEPT ![c] = "free"]
  /\ frames' = {f \in frames : f.conn # c \/ f.stage \in {"held", "spawning"}}
  /\ IF link[c] = "open"
     THEN sess' = Unbound(c) /\ ArmIdle(mode, hold, link', sess')
     ELSE UNCHANGED <<sess, timer>>
  /\ UNCHANGED <<clientVars, mode, quit, tasks, hold, upgradeVars, faults>>

\* Another pi process resumes this session, and leaves.
Takeover ==
  /\ mode = "up" /\ ~quit /\ sess # Other /\ Fault("takeover")
  /\ link' = [d \in Conn |-> IF d = sess THEN "rebound" ELSE link[d]]
  /\ sess' = Other /\ timer' = "off"
  /\ UNCHANGED <<clientVars, frames, mode, quit, tasks, hold, upgradeVars>>

OtherLeaves ==
  /\ sess = Other /\ mode # "down"
  /\ sess' = None
  /\ ArmIdle(mode, hold, link, None)
  /\ UNCHANGED <<clientVars, link, frames, mode, quit, tasks, hold, upgradeVars, faults>>

-----------------------------------------------------------------------------
(* The daemon: request handlers.  A handler outlives its connection.       *)

\* respond, on a connection that may be gone
Answered(f, how) ==
  (frames \ {f}) \cup (IF link[f.conn] = "open" THEN {[f EXCEPT !.stage = how]} ELSE {})

\* The mutant does not look the key up.
HandleNoKey(f) ==
  /\ f \in frames /\ f.stage = "wire" /\ link[f.conn] = "open" /\ mode = "up" /\ ~quit
  /\ frames' = (frames \ {f}) \cup
       {[f EXCEPT !.stage = IF f.req \in Start THEN "spawning" ELSE "held"]}
  /\ UNCHANGED <<clientVars, link, daemonVars, faults>>

\* dispatch; start_keys answers a resent start with the task it started.
Handle(f) ==
  /\ f \in frames /\ f.stage = "wire" /\ link[f.conn] = "open"
  /\ \/ mode \in {"parking", "handing"} /\ frames' = frames \ {f}   \* cancelled
     \/ /\ mode \in {"up", "stopping"}
        /\ \/ /\ f.req \in Start /\ quit
              /\ frames' = Answered(f, "error")
           \/ /\ f.req \in Start /\ ~quit /\ tasks[f.req] > 0
              /\ frames' = Answered(f, "answer")
           \/ /\ f.req \in Start /\ ~quit /\ tasks[f.req] = 0
              /\ "straddle" \in Ops \/ \A g \in frames : g.req = f.req => g.stage # "spawning"
              /\ frames' = (frames \ {f}) \cup {[f EXCEPT !.stage = "spawning"]}
           \/ /\ f.req \notin Start
              /\ frames' = (frames \ {f}) \cup {[f EXCEPT !.stage = "held"]}
  /\ UNCHANGED <<clientVars, link, daemonVars, faults>>

\* handle_start inserts the task and its key; the answer follows at once.
StartInserted(f) ==
  /\ f \in frames /\ f.stage = "spawning" /\ mode # "down"
  /\ tasks' = [tasks EXCEPT ![f.req] = IF @ = 2 THEN 2 ELSE @ + 1]
  /\ frames' = Answered(f, "answer")
  /\ UNCHANGED <<clientVars, link, mode, quit, sess, timer, hold, upgradeVars, faults>>

\* Any other handler ends, or is cancelled at its await by an upgrade.
HandlerEnds(f) ==
  /\ f \in frames /\ f.stage = "held"
  /\ frames' = IF mode \in {"parking", "handing"} THEN frames \ {f} ELSE Answered(f, "answer")
  /\ UNCHANGED <<clientVars, link, daemonVars, faults>>

-----------------------------------------------------------------------------
(* The daemon: upgrade, idle shutdown, death.                              *)

\* handover::perform parks the requests ...
BeginUpgrade ==
  /\ mode = "up" /\ upgrades < MaxUpgrades /\ upgrades' = upgrades + 1
  /\ mode' = "parking" /\ UNCHANGED faults
  /\ UNCHANGED <<clientVars, link, frames, quit, sess, tasks, timer, hold, lastUpgrade>>

\* ... and, when none is in flight, closes every connection.
CloseAllConnections ==
  /\ mode = "parking"
  /\ \A f \in frames : f.stage \notin {"held", "spawning"}
  /\ mode' = "handing"
  /\ link' = [c \in Conn |-> IF link[c] = "open" THEN "shut" ELSE link[c]]
  /\ sess' = None
  /\ frames' = {f \in frames : f.stage # "wire"}
  /\ UNCHANGED <<clientVars, quit, tasks, timer, hold, upgradeVars, faults>>

\* What a process image that ends does to its connections: those not yet
\* accepted (`kept`) wait in the listener, which the next image inherits.
LinksLost(kept) ==
  /\ link' = [c \in Conn |-> IF link[c] \in {"free", "rebound"} \/ c \in kept THEN link[c] ELSE "shut"]
  /\ frames' = {f \in frames : f.stage \in {"answer", "error"}}
  /\ sess' = None

\* exec: tasks and start keys are carried over, and the idle rule waits.
Exec ==
  /\ mode = "handing"
  /\ \E kept \in SUBSET {c \in Conn : link[c] = "hello"} : LinksLost(kept)
  /\ mode' = "up" /\ quit' = FALSE /\ hold' = TRUE /\ timer' = "off"
  /\ lastUpgrade' = "ok"
  /\ UNCHANGED <<clientVars, tasks, upgrades, faults>>

\* The quiesce times out, or exec fails: resume.
UpgradeFails ==
  /\ mode \in {"parking", "handing"} /\ Fault("upgrade-fails")
  /\ mode' = "up" /\ lastUpgrade' = "failed"
  /\ ArmIdle("up", hold, link, sess)
  /\ UNCHANGED <<clientVars, link, frames, quit, sess, tasks, hold, upgrades>>

\* The mutant only clears the flag.
HoldEndsOnly ==
  /\ hold /\ mode = "up"
  /\ hold' = FALSE
  /\ UNCHANGED <<clientVars, link, frames, mode, quit, sess, tasks, timer, upgradeVars, faults>>

\* daemon::resume: the grace after an upgrade is over.
HoldEnds ==
  /\ hold /\ mode = "up"
  /\ hold' = FALSE
  /\ ArmIdle(mode, FALSE, link, sess)
  /\ UNCHANGED <<clientVars, link, frames, mode, quit, sess, tasks, upgradeVars, faults>>

\* The idle timer fires.  Its 5 s outlast a connection attempt, unless slow.
IdleFires ==
  /\ timer = "armed" /\ mode # "down"
  /\ \/ at \in {"off", "pause"} /\ UNCHANGED faults
     \/ Fault("slow")
  /\ timer' = "fired"
  /\ quit' = (quit \/ Conns(link, sess) = {})
  /\ UNCHANGED <<clientVars, link, frames, mode, sess, tasks, hold, upgradeVars>>

\* begin_shutdown, after an idle timer or a signal
BeginShutdown ==
  /\ mode = "up"
  /\ \/ quit /\ UNCHANGED faults
     \/ ~quit /\ Fault("shutdown")
  /\ quit' = TRUE /\ mode' = "stopping"
  /\ UNCHANGED <<clientVars, link, frames, sess, tasks, timer, hold, upgradeVars>>

\* The process ends, at the end of its shutdown or by a crash; its tasks die.
Exits ==
  /\ \/ mode = "stopping" /\ UNCHANGED faults
     \/ mode # "down" /\ Fault("crash")
  /\ mode' = "down" /\ quit' = FALSE /\ hold' = FALSE /\ timer' = "off"
  /\ lastUpgrade' = "none" /\ tasks' = [s \in Start |-> 0]
  /\ LinksLost({})
  /\ UNCHANGED <<clientVars, upgrades>>

DaemonStep ==
  \/ \E c \in Conn : Register(c) \/ ReaderEnds(c)
  \/ \E f \in frames : Handle(f) \/ StartInserted(f) \/ HandlerEnds(f)
  \/ CloseAllConnections \/ Exec \/ HoldEnds \/ IdleFires \/ BeginShutdown \/ Exits

Next ==
  \/ Connect \/ (\E r \in Req : Request(r) \/ TimeOut(r))
  \/ ClientStep \/ ProtocolError \/ Close
  \/ DaemonStep
  \/ Takeover \/ OtherLeaves \/ BeginUpgrade \/ UpgradeFails

Spec == Init /\ [][Next]_vars

\* Both event loops keep turning.  Nothing makes a client connect, a request
\* be issued, or a fault occur.
Fairness ==
  /\ WF_vars(Dial) /\ WF_vars(SpawnManager) /\ WF_vars(DialFails)
  /\ WF_vars(HelloAnswered) /\ WF_vars(SocketCloses) /\ WF_vars(ReconnectLoop)
  /\ WF_vars(at = "hello" /\ link[sock] = "refused" /\ HelloRefused)
  /\ WF_vars(\E f \in frames : Settle(f))
  /\ \A c \in Conn : WF_vars(Register(c)) /\ WF_vars(ReaderEnds(c))
  /\ WF_vars(\E f \in frames : Handle(f) \/ StartInserted(f) \/ HandlerEnds(f))
  /\ WF_vars(CloseAllConnections) /\ WF_vars(Exec) /\ WF_vars(HoldEnds)
  /\ WF_vars(timer = "armed" /\ at \in {"off", "pause"} /\ IdleFires)
  /\ WF_vars(quit /\ BeginShutdown) /\ WF_vars(mode = "stopping" /\ Exits)

FairSpec == Spec /\ Fairness

-----------------------------------------------------------------------------
(* Properties.                                                             *)

\* A start that is sent again, over however many drops and upgrades, leaves
\* one task in the daemon: the key finds the task of the first attempt.
StartedOnce == \A s \in Start : tasks[s] <= 1

\* While the client believes it is connected over a connection the daemon
\* still serves, the daemon sends the session's events to that connection:
\* no late end of an older connection has unbound the session.
SessionBound ==
  cstate = "connected" /\ sock # None /\ link[sock] = "open" => sess = sock

\* A request a connected client waits for is somewhere: on the wire, in a
\* handler, or answered, on the connection the client has now.  Else it could
\* only end by its timer.
UpgradeKeepsRequests ==
  \A r \in Req :
    /\ cstate = "connected" /\ st[r] = "pending"
    /\ link[sock] = "open" /\ mode \in {"up", "stopping"}
    => \E f \in frames : f.req = r /\ f.conn = sock

\* The same of a daemon whose last upgrade did not fail.
PendingInFlight == lastUpgrade # "failed" => UpgradeKeepsRequests

\* No fault strands a request in flight: even with its timer left out, it is
\* answered or rejected, unless an upgrade fails.
RequestsEnd ==
  \A r \in Req :
    st[r] = "pending" ~> st[r] \in {"resolved", "rejected"} \/ lastUpgrade = "failed"

\* A daemon nobody is connected to stops, whatever upgrades came in between.
IdleDaemonStops ==
  mode # "down" /\ Conns(link, sess) = {} ~> mode = "down" \/ Conns(link, sess) # {}

\* After close() the client is not connected until it is asked to connect.
ClosedStaysClosed == intentional => cstate # "connected"

\* Only another process costs the client its session for good.
ReboundMeansTakeover == rebound => "takeover" \in Ops
===============================================================================
