------------------------------- MODULE Handover -------------------------------
(***************************************************************************)
(* The in-place upgrade of the manager (handover.rs) as one task and the   *)
(* session that watches it live through it: the pumps, the fan-out and the *)
(* exit watch are parked, connections are closed, the rest goes through    *)
(* handover.json and exec, and the new image (or the old one, if it does   *)
(* not come to that) takes everything up again.                            *)
(*                                                                         *)
(* Output is counted in bytes, two to a character.  The two pipes of the   *)
(* command are one.  What requests, stops and exits do without an upgrade  *)
(* is TaskLifecycle; how the client finds its manager again is Client.     *)
(***************************************************************************)
EXTENDS Naturals, Sequences, FiniteSetsExt

CONSTANTS
  Ops,         \* requests and faults that may occur
  MaxBytes,    \* bound: bytes the command writes
  MaxUpgrades  \* bound: upgrades that begin

AllOps == {"stop", "timeout", "shutdown",
           "slow",          \* a request handler computes for five seconds
           "stuck",         \* the client does not read for two seconds
           "early-hello",   \* a connection accepted before the upgrade says hello during it
           "exec-fails",    \* as does the snapshot, or the writing of handover.json
           "restore-fails"}

ASSUME HandoverAssumption ==
  /\ Ops \subseteq AllOps
  /\ {MaxBytes, MaxUpgrades} \subseteq Nat

VARIABLES
  \* the daemon
  stage,     \* how far the upgrade has come
  tries,
  park,      \* park_tx
  quit,      \* DaemonState.shutdown, and a signal not yet looked at
  inflight,  \* a request is being handled that came before the park
  \* output, as positions in what the command writes
  made, file,
  taken,     \* run_output_fanout's last_cursor
  sent,      \* delivered_cursor
  pump,      \* where the read end of the pipe is
  fanout,
  \* the session and its connection
  conn,
  watching,  \* the connection is in `watchers`
  kept,      \* watch_sessions: at most one cursor
  outq,      \* output events not yet on the socket: <<first byte, next_cursor>>
  wrote,     \* Written: the cursor the connection was written up to
  got,       \* what the client has
  \* the task's end
  status,    \* what the runner has reported: whether a group lingers
  unread,    \* that is still in the status pipe
  line,      \* the exit watch has read it
  watch,     \* the exit watch
  phase,     \* exit_phase
  record,    \* "running", or how the exit was recorded
  linger,    \* group_lingering
  timed,     \* timed_out
  grace,     \* kill_grace_until_ms is set
  reaper,    \* this image will look at it
  killing,   \* it has, and its kill_group_hard is not over
  \* the process group
  sh, kids, runner

dmnVars  == <<stage, tries, park, quit, inflight>>
ioVars   == <<made, file, taken, sent, pump, fanout>>
connVars == <<conn, watching, kept, outq, wrote, got>>
exitVars == <<status, unread, line, watch, phase, record, linger>>
killVars == <<timed, grace, reaper, killing>>
osVars   == <<sh, kids, runner>>
vars == <<dmnVars, ioVars, connVars, exitVars, killVars, osVars>>

Serving    == {"serving", "pending", "ready"}
Performing == {"parking", "closing", "flushing", "carried"}

TypeOK ==
  /\ stage \in Serving \cup Performing \cup {"dead"}
  /\ tries \in 0..MaxUpgrades
  /\ {park, quit, inflight} \subseteq BOOLEAN
  /\ {made, file, taken, sent, wrote, got} \subseteq 0..MaxBytes
  /\ pump \in {"reading", "parked", "entry", "eof"}
  /\ fanout \in {"on", "off"}
  /\ conn \in {"none", "accepted", "up", "closing"}
  /\ watching \in BOOLEAN
  /\ kept \subseteq 0..MaxBytes
  /\ outq \in Seq((0..MaxBytes) \X (0..MaxBytes))
  /\ status \in {"none", "alone", "linger"}
  /\ {unread, line} \subseteq BOOLEAN
  /\ watch \in {"entry", "await", "drain", "drain-exited", "reap", "done"}
  /\ phase \in {"await", "reap", "done"}
  /\ record \in {"running", "reported", "unknown"}
  /\ {linger, timed, grace, reaper, killing, sh, kids} \subseteq BOOLEAN
  /\ runner \in {"alive", "zombie", "gone"}

(* A monitor: its starter's connection watches from the first byte on. *)
Init ==
  /\ stage = "serving" /\ tries = 0 /\ park = FALSE /\ quit = FALSE /\ inflight = FALSE
  /\ made = 0 /\ file = 0 /\ taken = 0 /\ sent = 0 /\ pump = "reading" /\ fanout = "on"
  /\ conn = "up" /\ watching = TRUE /\ kept = {} /\ outq = <<>> /\ wrote = 0 /\ got = 0
  /\ status = "none" /\ unread = FALSE /\ line = FALSE
  /\ watch = "await" /\ phase = "await" /\ record = "running" /\ linger = FALSE
  /\ timed = FALSE /\ grace = FALSE /\ reaper = FALSE /\ killing = FALSE
  /\ sh = TRUE /\ kids = FALSE /\ runner = "alive"

Up == stage # "dead"

-----------------------------------------------------------------------------
(* The command, its group, and the runner that leads it (see TaskLifecycle) *)

Write ==
  /\ sh \/ kids
  /\ made < MaxBytes
  /\ made' = made + 1
  /\ UNCHANGED <<dmnVars, file, taken, sent, pump, fanout, connVars, exitVars, killVars, osVars>>

Fork ==
  /\ sh /\ ~kids
  /\ kids' = TRUE
  /\ UNCHANGED <<dmnVars, ioVars, connVars, exitVars, killVars, sh, runner>>

Exits ==
  /\ \/ sh /\ sh' = FALSE /\ kids' = kids
     \/ kids /\ kids' = FALSE /\ sh' = sh
  /\ UNCHANGED <<dmnVars, ioVars, connVars, exitVars, killVars, runner>>

(* One write of a short line: the reader finds all of it or nothing.       *)
Report ==
  /\ runner = "alive" /\ ~sh /\ status = "none"
  /\ status' = IF kids THEN "linger" ELSE "alone"
  /\ unread' = TRUE
  /\ UNCHANGED <<dmnVars, ioVars, connVars, line, watch, phase, record, linger, killVars, osVars>>

RunnerExits ==
  /\ runner = "alive" /\ status # "none" /\ ~kids
  /\ runner' = IF Up THEN "zombie" ELSE "gone"
  /\ UNCHANGED <<dmnVars, ioVars, connVars, exitVars, killVars, sh, kids>>

KillGroup ==
  /\ sh' = FALSE /\ kids' = FALSE
  /\ runner' = IF runner = "alive" THEN "zombie" ELSE runner

(* The lifeline's write end closes with the manager, not with its image. *)
LifelineBroken ==
  /\ ~Up
  /\ runner = "alive"
  /\ sh' = FALSE /\ kids' = FALSE /\ runner' = "gone"
  /\ UNCHANGED <<dmnVars, ioVars, connVars, exitVars, killVars>>

-----------------------------------------------------------------------------
(* Output: pump, run_output_fanout, writer_task *)

Whole(n) == n - (n % 2)

(* A pump stops only between two reads. *)
PumpReads ==
  /\ Up
  /\ pump = "reading" /\ file < made
  /\ file' = made
  /\ UNCHANGED <<dmnVars, made, taken, sent, pump, fanout, connVars, exitVars, killVars, osVars>>

PumpEnds ==
  /\ Up
  /\ pump = "reading"
  /\ \/ park /\ pump' = "parked"
     \/ file = made /\ ~sh /\ ~kids /\ pump' = "eof"
  /\ UNCHANGED <<dmnVars, made, file, taken, sent, fanout, connVars, exitVars, killVars, osVars>>

(* One output event, to whoever watches. *)
Push(to) ==
  /\ sent' = to
  /\ outq' = IF watching /\ conn = "up" /\ sent < to THEN Append(outq, <<sent, to>>) ELSE outq

(* A character whose second half has not been read is held back. *)
FanoutTakes ==
  /\ Up
  /\ fanout = "on" /\ taken < file
  /\ taken' = file
  /\ Push(IF Whole(file) > sent THEN Whole(file) ELSE sent)
  /\ UNCHANGED <<dmnVars, made, file, pump, fanout, conn, watching, kept, wrote, got,
                 exitVars, killVars, osVars>>

(* The pumps are gone: the rest is flushed, unless they were parked. *)
FanoutEnds ==
  /\ Up
  /\ fanout = "on" /\ taken = file /\ pump # "reading"
  /\ fanout' = "off"
  /\ Push(IF park THEN sent ELSE taken)
  /\ UNCHANGED <<dmnVars, made, file, taken, pump, conn, watching, kept, wrote, got,
                 exitVars, killVars, osVars>>

WriterWrites ==
  LET frame == Head(outq) IN
  /\ Up
  /\ outq # <<>>
  /\ outq' = Tail(outq)
  /\ wrote' = IF frame[2] > wrote THEN frame[2] ELSE wrote
  /\ got' = frame[2]
  /\ UNCHANGED <<dmnVars, ioVars, conn, watching, kept, exitVars, killVars, osVars>>

-----------------------------------------------------------------------------
(* The client *)

(* It dials again; the listening socket is there all the time, but while   *)
(* the upgrade is performed nobody accepts.                                *)
Dial ==
  /\ stage \in Serving
  /\ conn = "none"
  /\ conn' = "accepted"
  /\ UNCHANGED <<dmnVars, ioVars, watching, kept, outq, wrote, got, exitVars, killVars, osVars>>

(* register_conn, and resume_carried_watches: what was pushed since the    *)
(* cursor kept for the session is read from the file and queued first.     *)
(* (A subscription of an older image may be kept and resumed more than     *)
(* once; a replay of more than 8 MiB is cut.)                              *)
Hello ==
  /\ conn = "accepted"
  /\ stage \in Serving \cup {"parking"} \/ (Up /\ "early-hello" \in Ops)
  /\ conn' = "up"
  /\ watching' = (kept # {})
  /\ \A from \in kept :
       /\ wrote' = from
       /\ outq' = IF from < sent THEN << <<from, sent>> >> ELSE <<>>
  /\ kept = {} => wrote' = 0 /\ outq' = <<>>
  /\ kept' = {}
  /\ UNCHANGED <<dmnVars, ioVars, got, exitVars, killVars, osVars>>

(* Answered, or cancelled at its next await by the park. *)
RequestEnds ==
  /\ Up
  /\ inflight
  /\ inflight' = FALSE
  /\ UNCHANGED <<stage, tries, park, quit, ioVars, connVars, exitVars, killVars, osVars>>

-----------------------------------------------------------------------------
(* Kills *)

OwnsLiveGroup == record = "running" \/ linger

(* handle_stop, spawn_kill_reaper; SIGTERM is left out, a command may      *)
(* ignore it, and so is the reason taken, which the snapshot has too. (One *)
(* at a time.)                                                             *)
Stop ==
  /\ "stop" \in Ops
  /\ Up /\ ~park /\ conn = "up"
  /\ OwnsLiveGroup /\ ~grace /\ ~killing
  /\ grace' = TRUE
  /\ reaper' = TRUE
  /\ UNCHANGED <<dmnVars, ioVars, connVars, exitVars, timed, killing, osVars>>

(* Under the lock: from here on no snapshot knows of the kill. *)
ReaperFires ==
  /\ Up
  /\ reaper
  /\ reaper' = FALSE
  /\ grace' = FALSE
  /\ killing' = (killing \/ OwnsLiveGroup)
  /\ UNCHANGED <<dmnVars, ioVars, connVars, exitVars, timed, osVars>>

(* kill_group_hard, without the lock and in a runtime task park_all does   *)
(* not wait for; its rounds (see TaskLifecycle) are one step.              *)
ReaperKills ==
  /\ Up
  /\ killing
  /\ killing' = FALSE
  /\ KillGroup
  /\ UNCHANGED <<dmnVars, ioVars, connVars, exitVars, timed, grace, reaper>>

(* The exit watch kills, and is not parked before it is done. *)
TimeoutFires ==
  /\ "timeout" \in Ops
  /\ Up
  /\ watch = "await" /\ ~timed
  /\ timed' = TRUE
  /\ KillGroup
  /\ UNCHANGED <<dmnVars, ioVars, connVars, exitVars, grace, reaper, killing>>

-----------------------------------------------------------------------------
(* run_exit_watch *)

WatchReport ==
  /\ Up
  /\ watch = "await" /\ unread
  /\ line' = TRUE /\ unread' = FALSE
  /\ watch' = "drain"
  /\ UNCHANGED <<dmnVars, ioVars, connVars, status, phase, record, linger, killVars, osVars>>

(* Mutant: the pipe is not looked at again. *)
WatchRunnerExitBlind ==
  /\ Up
  /\ watch = "await" /\ runner = "zombie"
  /\ runner' = "gone"
  /\ watch' = "drain-exited"
  /\ UNCHANGED <<dmnVars, ioVars, connVars, status, unread, line, phase, record, linger,
                 killVars, sh, kids>>

(* The runner's end, or the end of its pipe, is seen first; what it wrote  *)
(* may still be there.  (A new image polls for the runner, so it may well  *)
(* see its end before the pipe is known to be readable.)                   *)
WatchRunnerExit ==
  /\ Up
  /\ watch = "await" /\ runner = "zombie"
  /\ line' = unread /\ unread' = FALSE
  /\ runner' = "gone"
  /\ watch' = "drain-exited"
  /\ UNCHANGED <<dmnVars, ioVars, connVars, status, phase, record, linger, killVars, sh, kids>>

(* wait_tee_drained has waited long enough; finalize_exit, set_exit_phase. *)
(* Only a runner that reported can leave a group behind: it guards it.     *)
Finalize ==
  /\ Up
  /\ watch \in {"drain", "drain-exited"}
  /\ record' = IF line THEN "reported" ELSE "unknown"
  /\ linger' = (watch = "drain" /\ status = "linger")
  /\ phase' = IF watch = "drain" THEN "reap" ELSE "done"
  /\ watch' = IF watch = "drain" THEN "reap" ELSE "done"
  /\ UNCHANGED <<dmnVars, ioVars, connVars, status, unread, line, killVars, osVars>>

ReapRunner ==
  /\ Up
  /\ watch = "reap" /\ runner = "zombie"
  /\ runner' = "gone"
  /\ linger' = FALSE
  /\ phase' = "done"
  /\ watch' = "done"
  /\ UNCHANGED <<dmnVars, ioVars, connVars, status, unread, line, record, killVars, sh, kids>>

(* Runner and status pipe go back to the entry; so would a part of a line, *)
(* but there is none, see Report.                                          *)
WatchParks ==
  /\ Up
  /\ park /\ watch \in {"await", "reap"}
  /\ watch' = "entry"
  /\ UNCHANGED <<dmnVars, ioVars, connVars, status, unread, line, phase, record, linger,
                 killVars, osVars>>

-----------------------------------------------------------------------------
(* The upgrade: request, perform *)

UpgradeAsked ==
  /\ stage = "serving" /\ ~quit
  /\ tries < MaxUpgrades
  /\ tries' = tries + 1
  /\ stage' = "pending"
  /\ UNCHANGED <<park, quit, inflight, ioVars, connVars, exitVars, killVars, osVars>>

(* The new binary is asked whether it can take over. *)
Preflight ==
  /\ stage = "pending"
  /\ stage' \in {"ready", "serving"}
  /\ UNCHANGED <<tries, park, quit, inflight, ioVars, connVars, exitVars, killVars, osVars>>

(* The accept loop takes it up, and does nothing else until it is done. It *)
(* may meet a request in the middle (which matters to nothing before); one *)
(* that comes later is cancelled where it begins.                          *)
UpgradeBegins ==
  /\ stage = "ready"
  /\ stage' = "parking"
  /\ park' = TRUE
  /\ inflight' \in {FALSE, conn = "up"}
  /\ UNCHANGED <<tries, quit, ioVars, connVars, exitVars, killVars, osVars>>

AllStopped ==
  /\ pump \in {"parked", "eof"}
  /\ fanout = "off"
  /\ watch \in {"entry", "done"}

(* park_all *)
Parked ==
  /\ stage = "parking" /\ ~inflight /\ AllStopped
  /\ stage' = "closing"
  /\ pump' = IF pump = "parked" THEN "entry" ELSE pump
  /\ UNCHANGED <<tries, park, quit, inflight, made, file, taken, sent, fanout,
                 connVars, exitVars, killVars, osVars>>

(* restart_task, in this image or in the next: whatever the entry holds is *)
(* taken up again; the fan-out begins with what it had held back.          *)
RestartTask ==
  /\ park' = FALSE
  /\ stage' = "serving"
  /\ watch' = IF watch = "entry" THEN phase ELSE watch
  /\ IF pump = "entry"
     THEN pump' = "reading" /\ fanout' = "on" /\ taken' = file
     ELSE UNCHANGED <<pump, fanout, taken>>
  /\ UNCHANGED <<tries, made, file, sent, status, unread, line, phase, record, linger>>

(* QUIESCE_TIMEOUT: requests come first in park_all, so it is one of them  *)
(* that is waited for; the rest has parked long since.                     *)
QuiesceTimesOut ==
  /\ "slow" \in Ops
  /\ stage = "parking" /\ inflight /\ AllStopped
  /\ RestartTask
  /\ UNCHANGED <<quit, inflight, connVars, killVars, osVars>>

(* From here on `watching` of a closing connection stands for the list of  *)
(* carried subscriptions.                                                  *)
CloseConnections ==
  /\ stage = "closing"
  /\ stage' = "flushing"
  /\ conn' = IF conn = "up" THEN "closing" ELSE conn
  /\ UNCHANGED <<tries, park, quit, inflight, ioVars, watching, kept, outq, wrote, got,
                 exitVars, killVars, osVars>>

(* Mutants of carry_watches: the cursor up to which was pushed is noted;   *)
(* nothing is.                                                             *)
CarriedPushed == kept \cup {sent}
CarriedNothing == kept

(* watch_sessions with this session's cursor. *)
CarriedWatch == {Min(kept \cup {wrote})}

(* The writers have flushed, or had their time: a client that does not     *)
(* read, or another connection's writer, holds them up.                    *)
CarryWatches ==
  /\ stage = "flushing"
  /\ \/ outq = <<>> /\ conn \in {"none", "closing"}
     \/ "stuck" \in Ops
     \/ conn \in {"accepted", "up"}
  /\ stage' = "carried"
  /\ IF conn = "closing"
     THEN /\ conn' = "none" /\ watching' = FALSE /\ outq' = <<>>
          /\ kept' = IF watching THEN CarriedWatch ELSE kept
     ELSE UNCHANGED <<conn, watching, outq, kept>>
  /\ UNCHANGED <<tries, park, quit, inflight, ioVars, wrote, got, exitVars, killVars, osVars>>

(* A task that still has something alive goes into the snapshot. *)
Live == watch = "entry" \/ pump = "entry" \/ linger \/ record = "running"

(* Mutant: a kill's grace is not armed again. *)
RearmedNever == FALSE

(* rearm_timers: a new reaper waits for the rest of the grace. *)
Rearmed == grace /\ Live

(* snapshot, exec, restore, run_restored. All the old image had under way  *)
(* is gone: a signal it had not looked at, a shutdown request, and a kill. *)
Exec ==
  /\ stage = "carried"
  /\ RestartTask
  /\ quit' = FALSE /\ inflight' = FALSE
  /\ conn' = "none" /\ watching' = FALSE /\ outq' = <<>>
  /\ kept' = IF Live THEN kept ELSE {}
  /\ reaper' = Rearmed
  /\ grace' = (grace /\ Live)
  /\ killing' = FALSE
  /\ UNCHANGED <<wrote, got, timed, osVars>>

(* resume: tasks are read again, requests served again. *)
ExecFails ==
  /\ "exec-fails" \in Ops
  /\ stage = "carried"
  /\ RestartTask
  /\ UNCHANGED <<quit, inflight, connVars, killVars, osVars>>

(* All that was in memory is lost. *)
Dies ==
  /\ stage' = "dead"
  /\ park' = FALSE /\ quit' = FALSE /\ inflight' = FALSE
  /\ taken' = 0 /\ sent' = 0 /\ pump' = "eof" /\ fanout' = "off"
  /\ conn' = "none" /\ watching' = FALSE /\ kept' = {} /\ outq' = <<>> /\ wrote' = 0
  /\ unread' = FALSE /\ line' = FALSE /\ watch' = "done" /\ phase' = "done" /\ linger' = FALSE
  /\ timed' = FALSE /\ grace' = FALSE /\ reaper' = FALSE /\ killing' = FALSE
  /\ UNCHANGED <<tries, made, file, got, status, record, osVars>>

RestoreFails ==
  /\ "restore-fails" \in Ops
  /\ stage = "carried"
  /\ Dies

(* A shutdown request served before the park, or a signal at any time. *)
ShutdownAsked ==
  /\ "shutdown" \in Ops
  /\ Up
  /\ ~quit
  /\ quit' = TRUE
  /\ UNCHANGED <<stage, tries, park, inflight, ioVars, connVars, exitVars, killVars, osVars>>

(* The accept loop looks at it (graceful_shutdown: see TaskLifecycle). *)
ShutdownBegins ==
  /\ stage \in Serving
  /\ quit
  /\ Dies

-----------------------------------------------------------------------------
(* Each of these is the work of one runtime task, or of one process. *)
Runner   == Report \/ RunnerExits \/ LifelineBroken
Pump     == PumpReads \/ PumpEnds
Fanout   == FanoutTakes \/ FanoutEnds
Client   == Dial \/ Hello
Watch    == WatchReport \/ WatchRunnerExit \/ Finalize \/ ReapRunner \/ WatchParks
Perform  == Preflight \/ UpgradeBegins \/ Parked \/ CloseConnections \/ CarryWatches \/ Exec

Next ==
  \/ Write \/ Fork \/ Exits \/ Runner
  \/ Pump \/ Fanout \/ WriterWrites
  \/ Client \/ RequestEnds
  \/ Stop \/ ReaperFires \/ ReaperKills \/ TimeoutFires \/ Watch
  \/ UpgradeAsked \/ Perform \/ QuiesceTimesOut \/ ExecFails \/ RestoreFails
  \/ ShutdownAsked \/ ShutdownBegins

Spec == Init /\ [][Next]_vars

(* The runtime polls what it has spawned, the client dials as long as it   *)
(* has no connection, and an upgrade goes on once it began. Nothing is     *)
(* owed by the command, by requests, stops and faults, nor an upgrade; the *)
(* task's time limit may be as far away as one likes.                      *)
Fairness ==
  /\ WF_vars(Runner) /\ WF_vars(Pump) /\ WF_vars(Fanout) /\ WF_vars(WriterWrites)
  /\ WF_vars(Client) /\ WF_vars(RequestEnds)
  /\ WF_vars(ReaperFires) /\ WF_vars(ReaperKills) /\ WF_vars(Watch)
  /\ WF_vars(Perform) /\ WF_vars(ShutdownBegins)

FairSpec == Spec /\ Fairness

-----------------------------------------------------------------------------
(* Properties *)

(* What the session receives is the output itself: every event goes on     *)
(* where the last one ended, though its connections are closed, its queue  *)
(* is cut off and the gap is replayed, once or twice over.                 *)
OutputWhole == [][WriterWrites => Head(outq)[1] = got]_vars

(* What the runner reported decides the record, however the report and the *)
(* runner's end fall around an upgrade and a kill.                         *)
ReportCounts == record = "unknown" => status = "none"

(* What a command writes while it runs reaches the session that watches,   *)
(* whichever images come and go; unless a quiesce timed out.               *)
OutputArrives ==
  \A n \in {Whole(m) : m \in 2..MaxBytes} :
    made >= n ~> got >= n \/ record # "running" \/ ~Up \/ (pump = "parked" /\ ~park)

(* An upgrade forgives no kill that is still to be decided: a group that   *)
(* was asked to stop, a finished command's leftovers too, is empty in the  *)
(* end, unless the image is replaced when the grace is over and the kill   *)
(* under way.                                                              *)
StopStillKills ==
  grace ~> \/ ~sh /\ ~kids
           \/ killing /\ stage = "carried"

(* Not true of the code (daemon.rs 1595-1607): it may fall just there.     *)
StopAlwaysKills == grace ~> (~sh /\ ~kids)

(* The comment on resume: tasks are read again.                            *)
TasksReadAgain == ~park => pump # "parked"

(* The comment on TaskSnap: sessions that watched are subscribed again     *)
(* when they reconnect.                                                    *)
WatchKept == stage = "serving" /\ conn = "up" /\ record = "running" => watching

(* A shutdown that was asked for ends the manager (design.md).             *)
ShutdownHeeded == quit ~> ~Up
=============================================================================
