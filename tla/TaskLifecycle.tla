---------------------------- MODULE TaskLifecycle ----------------------------
(***************************************************************************)
(* The life of a task in the pi-famulus manager (manager/src/daemon.rs,    *)
(* registry.rs, lifecycle.rs) together with the process group the task     *)
(* runs in (runner.rs).                                                    *)
(*                                                                         *)
(* One action is one critical section of the daemon's state lock, or one   *)
(* system call made outside it: the runtime is multi-threaded, so a        *)
(* handler can be overtaken by another one wherever it does not hold the   *)
(* lock.  SIGTERM has no effect of its own here: a process may exit at any *)
(* time, and may ignore SIGTERM for ever.  SIGKILL is modelled.            *)
(***************************************************************************)
EXTENDS Naturals

CONSTANTS
  Task,        \* task ids; each is used for one start
  SessionOf,   \* the session a task is started by
  Ops,         \* the requests and faults that may occur (see AllOps)
  MaxLives,    \* bound: manager processes run one after the other
  MaxStops     \* bound: kill reapers armed at a time for a task

AllOps == {"stop", "timeout", "background", "session-end", "shutdown",
           "crash",         \* the manager dies without a shutdown
           "straddle",      \* a start request may overlap a shutdown
           "persist-fails", \* writing a new record may fail
           "write-fails",   \* writing a record again may fail: logged, ignored
           "escape",        \* a fork may survive one group SIGKILL
           "runner-killed"} \* someone else SIGKILLs a runner

ASSUME LifecycleAssumption ==
  /\ Ops \subseteq AllOps
  /\ MaxLives \in Nat \ {0}
  /\ MaxStops \in Nat \ {0}
  /\ SessionOf = [t \in Task |-> SessionOf[t]]

VARIABLES
  \* the manager process
  daemon,      \* "up" or "down"
  lives,       \* manager processes started so far
  stage,       \* how far the graceful shutdown of this manager has come
  crashed,     \* some manager died without a shutdown
  \* a start request, step by step
  startPc,
  \* TaskEntry, lost with the manager
  mem,         \* record: status and end_reason
  reason,      \* kill_reason; kill_requested is reason # "none"
  linger,      \* group_lingering
  timed,       \* timed_out
  bg,          \* mark_background: the copy of the record it still writes
  \* the daemon's own tasks
  watch,       \* the exit watch
  seen,        \* what the exit watch saw and has not yet recorded
  reapers,     \* kill reapers waiting for their grace
  hard,        \* a reaper's kill_group_hard in progress
  doomed,      \* the shutdown's kill_group_hard still to do
  poller,      \* a group watcher polls the group
  \* the disk
  disk,        \* the persisted record
  exits,       \* task.exit lines in events.jsonl
  \* the operating system
  runner,      \* the `__run` process that leads the group
  sh,          \* the command's shell is alive
  kids,        \* other members of the group are alive
  report,      \* the line in the status pipe
  lifeline     \* the write end of the runner's lifeline is open

dmnVars   == <<daemon, lives, stage, crashed>>
entryVars == <<mem, reason, linger, timed, bg>>
loopVars  == <<watch, seen, reapers, hard, doomed, poller>>
diskVars  == <<disk, exits>>
osVars    == <<runner, sh, kids, report, lifeline>>
vars == <<daemon, lives, stage, crashed, startPc,
          mem, reason, linger, timed, bg,
          watch, seen, reapers, hard, doomed, poller,
          disk, exits, runner, sh, kids, report, lifeline>>

KillWhy  == {"stopped", "timeout", "session-end", "manager-shutdown"}
Terminal == {"completed", "failed", "killed", "orphaned"}
Status   == Terminal \cup {"absent", "running"}
Why      == KillWhy \cup {"none", "exited", "manager-crash"}
Outcome  == {"ok", "fail", "signal", "unknown"}

Absent   == [status |-> "absent", why |-> "none"]
Running  == [status |-> "running", why |-> "none"]
Orphaned == [status |-> "orphaned", why |-> "manager-crash"]
NoReport == [out |-> "none", linger |-> FALSE]
NotSeen  == [out |-> "none", left |-> "none"]

Stages  == {"run", "asked", "refreshed", "grace", "killing", "force", "sealed"}
StartPc == {"none", "checked", "spawned", "persisted", "inserted", "done", "failed"}
Rounds  == {"off", "first", "again"}
WatchPc == {"off", "await", "kill", "kill-again", "drain", "drain-exited", "reap", "reaped", "done"}

TypeOK ==
  /\ daemon \in {"up", "down"}
  /\ lives \in 1..MaxLives
  /\ stage \in Stages
  /\ crashed \in BOOLEAN
  /\ startPc \in [Task -> StartPc]
  /\ mem \in [Task -> [status : Status, why : Why]]
  /\ reason \in [Task -> KillWhy \cup {"none"}]
  /\ linger \in [Task -> BOOLEAN]
  /\ timed \in [Task -> BOOLEAN]
  /\ bg \in [Task -> {"never", "cloned", "written", "landed", "late"}]
  /\ watch \in [Task -> WatchPc]
  /\ seen \in [Task -> [out : Outcome \cup {"none"}, left : {"none", "guarded", "probe"}]]
  /\ reapers \in [Task -> 0..MaxStops]
  /\ hard \in [Task -> Rounds]
  /\ doomed \in [Task -> Rounds]
  /\ poller \in [Task -> BOOLEAN]
  /\ disk \in [Task -> [status : Status, why : Why]]
  /\ exits \in [Task -> Nat]
  /\ runner \in [Task -> {"none", "alive", "zombie", "gone"}]
  /\ sh \in [Task -> BOOLEAN]
  /\ kids \in [Task -> BOOLEAN]
  /\ report \in [Task -> [out : Outcome \cup {"none"}, linger : BOOLEAN]]
  /\ lifeline \in [Task -> BOOLEAN]

Init ==
  /\ daemon = "up" /\ lives = 1 /\ stage = "run" /\ crashed = FALSE
  /\ startPc = [t \in Task |-> "none"]
  /\ mem = [t \in Task |-> Absent]
  /\ reason = [t \in Task |-> "none"]
  /\ linger = [t \in Task |-> FALSE]
  /\ timed = [t \in Task |-> FALSE]
  /\ bg = [t \in Task |-> "never"]
  /\ watch = [t \in Task |-> "off"]
  /\ seen = [t \in Task |-> NotSeen]
  /\ reapers = [t \in Task |-> 0]
  /\ hard = [t \in Task |-> "off"]
  /\ doomed = [t \in Task |-> "off"]
  /\ poller = [t \in Task |-> FALSE]
  /\ disk = [t \in Task |-> Absent]
  /\ exits = [t \in Task |-> 0]
  /\ runner = [t \in Task |-> "none"]
  /\ sh = [t \in Task |-> FALSE]
  /\ kids = [t \in Task |-> FALSE]
  /\ report = [t \in Task |-> NoReport]
  /\ lifeline = [t \in Task |-> FALSE]

-----------------------------------------------------------------------------
(* Helpers *)

Up == daemon = "up"
IsRunning(t) == mem[t].status = "running"

(* sys::group_has_others: members of the group besides its leader. *)
HasOthers(t) == sh[t] \/ kids[t]

(* TaskEntry::owns_live_group *)
OwnsLiveGroup(t) == IsRunning(t) \/ linger[t]

(* Mutant: a finished task takes a kill reason too. *)
RequestKillAlways(t, why) == IF reason[t] = "none" THEN why ELSE reason[t]

(* TaskEntry::request_kill, the first reason wins. *)
RequestKill(t, why) ==
  IF IsRunning(t) /\ reason[t] = "none" THEN why ELSE reason[t]

(* registry::terminal_status; an exit nobody could observe is completed. *)
TerminalStatus(killRequested, out) ==
  IF killRequested THEN "killed"
  ELSE IF out \in {"ok", "unknown"} THEN "completed" ELSE "failed"

(* Mutants: the reason of the kill, or the word "exited", is not stored. *)
EndedRecordNoReason(t, out) ==
  [status |-> TerminalStatus(reason[t] # "none", out), why |-> "exited"]
EndedRecordRaw(t, out) ==
  [status |-> TerminalStatus(reason[t] # "none", out),
   why |-> IF reason[t] # "none" THEN reason[t] ELSE out]

EndedRecord(t, out) ==
  [status |-> TerminalStatus(reason[t] # "none", out),
   why |-> IF reason[t] # "none" THEN reason[t] ELSE "exited"]

ForcedRecord(t) ==
  [status |-> "killed",
   why |-> IF reason[t] # "none" THEN reason[t] ELSE "manager-shutdown"]

(* A persist replaces the temporary file mark_background may have written; *)
(* the rename that would have followed finds no file and fails.            *)
TmpReplaced(t) == IF bg[t] = "written" THEN "landed" ELSE bg[t]

(* persist_record for the tasks of S: those whose record reaches the disk. *)
DisksWork == "write-fails" \notin Ops
Saved(S) == IF DisksWork THEN {S} ELSE SUBSET S

-----------------------------------------------------------------------------
(* handle_start *)

(* The shutdown flag is looked at here and nowhere after. *)
StartCheck(t) ==
  /\ Up
  /\ stage = "run"
  /\ startPc[t] = "none"
  /\ startPc' = [startPc EXCEPT ![t] = "checked"]
  /\ UNCHANGED <<dmnVars, entryVars, loopVars, diskVars, osVars>>

(* The later steps of a request under way; with "straddle" also while the *)
(* manager shuts down.                                                    *)
StartStep(t, from, to) ==
  /\ Up
  /\ startPc[t] = from
  /\ stage = "run" \/ "straddle" \in Ops
  /\ startPc' = [startPc EXCEPT ![t] = to]

(* task::spawn_process: the runner leads a new process group and runs the *)
(* shell in it (a SIGTERM that comes before the shell is passed on).      *)
StartSpawn(t) ==
  /\ StartStep(t, "checked", "spawned")
  /\ runner' = [runner EXCEPT ![t] = "alive"]
  /\ sh' = [sh EXCEPT ![t] = TRUE]
  /\ lifeline' = [lifeline EXCEPT ![t] = TRUE]
  /\ UNCHANGED <<dmnVars, entryVars, loopVars, diskVars, kids, report>>

StartPersist(t) ==
  /\ StartStep(t, "spawned", "persisted")
  /\ disk' = [disk EXCEPT ![t] = Running]
  /\ UNCHANGED <<dmnVars, entryVars, loopVars, exits, osVars>>

(* The record cannot be written: one SIGKILL for the group, which a fork  *)
(* may survive, and an error for an answer.  The runtime reaps the runner. *)
StartPersistFails(t) ==
  /\ "persist-fails" \in Ops
  /\ StartStep(t, "spawned", "failed")
  /\ runner' = [runner EXCEPT ![t] = "gone"]
  /\ sh' = [sh EXCEPT ![t] = FALSE]
  /\ \E missed \in BOOLEAN :
       /\ missed => "escape" \in Ops /\ HasOthers(t)
       /\ kids' = [kids EXCEPT ![t] = missed]
  /\ UNCHANGED <<dmnVars, entryVars, loopVars, diskVars, report, lifeline>>

StartInsert(t) ==
  /\ StartStep(t, "persisted", "inserted")
  /\ mem' = [mem EXCEPT ![t] = Running]
  /\ UNCHANGED <<dmnVars, reason, linger, timed, bg, loopVars, diskVars, osVars>>

(* start_task_io, spawn_exit_watch *)
StartWatch(t) ==
  /\ StartStep(t, "inserted", "done")
  /\ watch' = [watch EXCEPT ![t] = "await"]
  /\ UNCHANGED <<dmnVars, entryVars, seen, reapers, hard, doomed, poller, diskVars, osVars>>

-----------------------------------------------------------------------------
(* Requests on a task. The SIGTERM they send is left out (see above). *)

(* handle_stop: a lingering group of a finished task is killed too, and *)
(* the record stays what it is.                                         *)
Stop(t) ==
  /\ "stop" \in Ops
  /\ Up
  /\ OwnsLiveGroup(t)
  /\ reapers[t] < MaxStops
  /\ reason' = [reason EXCEPT ![t] = RequestKill(t, "stopped")]
  /\ reapers' = [reapers EXCEPT ![t] = @ + 1]
  /\ UNCHANGED <<dmnVars, startPc, mem, linger, timed, bg, watch, seen, hard, doomed,
                 poller, diskVars, osVars>>

(* handle_shutdown_session *)
ShutdownSession(s) ==
  LET victims == {t \in Task : SessionOf[t] = s /\ OwnsLiveGroup(t)} IN
  /\ "session-end" \in Ops
  /\ Up
  /\ victims # {}
  /\ \A t \in victims : reapers[t] < MaxStops
  /\ reason' = [t \in Task |-> IF t \in victims THEN RequestKill(t, "session-end")
                               ELSE reason[t]]
  /\ reapers' = [t \in Task |-> IF t \in victims THEN reapers[t] + 1 ELSE reapers[t]]
  /\ UNCHANGED <<dmnVars, startPc, mem, linger, timed, bg, watch, seen, hard, doomed,
                 poller, diskVars, osVars>>

(* handle_mark_background: under the lock the record is changed and       *)
(* copied; the copy is written after the lock is released, first to the   *)
(* temporary file, then renamed over the record (persist_record).         *)
MarkBackground(t) ==
  /\ "background" \in Ops
  /\ Up
  /\ IsRunning(t)
  /\ bg[t] = "never"
  /\ bg' = [bg EXCEPT ![t] = "cloned"]
  /\ UNCHANGED <<dmnVars, startPc, mem, reason, linger, timed, loopVars, diskVars, osVars>>

BackgroundWrite(t) ==
  /\ Up
  /\ bg[t] = "cloned"
  /\ \E saved \in Saved({t}) :
       bg' = [bg EXCEPT ![t] = IF t \in saved THEN "written" ELSE "landed"]
  /\ UNCHANGED <<dmnVars, startPc, mem, reason, linger, timed, loopVars, diskVars, osVars>>

(* "late": the record had been finished in the meantime. *)
BackgroundRename(t) ==
  /\ Up
  /\ bg[t] = "written"
  /\ disk' = [disk EXCEPT ![t] = Running]
  /\ bg' = [bg EXCEPT ![t] = IF IsRunning(t) THEN "landed" ELSE "late"]
  /\ UNCHANGED <<dmnVars, startPc, mem, reason, linger, timed, loopVars, exits, osVars>>

-----------------------------------------------------------------------------
(* Killing *)

(* The grace of a kill reaper is over. *)
ReaperFires(t) ==
  /\ Up
  /\ reapers[t] > 0
  /\ reapers' = [reapers EXCEPT ![t] = @ - 1]
  /\ hard' = [hard EXCEPT ![t] = IF OwnsLiveGroup(t) THEN "first" ELSE @]
  /\ UNCHANGED <<dmnVars, startPc, entryVars, watch, seen, doomed, poller, diskVars, osVars>>

(* One round of kill_group_hard: SIGKILL the group, look again. Up to 40   *)
(* rounds are made because a process being forked may survive one; that it *)
(* survives all of them is left out (here it survives the first at most).  *)
KillGroup(t, round, missed) ==
  /\ missed => "escape" \in Ops /\ round = "first" /\ HasOthers(t)
  /\ runner' = [runner EXCEPT ![t] = IF @ = "alive" THEN "zombie" ELSE @]
  /\ sh' = [sh EXCEPT ![t] = FALSE]
  /\ kids' = [kids EXCEPT ![t] = missed]
  /\ UNCHANGED <<report, lifeline>>

ReaperKills(t) ==
  /\ Up
  /\ hard[t] # "off"
  /\ \E missed \in BOOLEAN :
       /\ KillGroup(t, hard[t], missed)
       /\ hard' = [hard EXCEPT ![t] = IF missed THEN "again" ELSE "off"]
  /\ UNCHANGED <<dmnVars, startPc, entryVars, watch, seen, reapers, doomed, poller, diskVars>>

-----------------------------------------------------------------------------
(* run_exit_watch *)

(* timeout_ms has passed: the group is killed at once. *)
TimeoutFires(t) ==
  /\ "timeout" \in Ops
  /\ Up
  /\ watch[t] = "await" /\ ~timed[t]
  /\ timed' = [timed EXCEPT ![t] = TRUE]
  /\ reason' = [reason EXCEPT ![t] = RequestKill(t, "timeout")]
  /\ watch' = [watch EXCEPT ![t] = "kill"]
  /\ UNCHANGED <<dmnVars, startPc, mem, linger, bg, seen, reapers, hard, doomed, poller,
                 diskVars, osVars>>

TimeoutKills(t) ==
  /\ Up
  /\ watch[t] \in {"kill", "kill-again"}
  /\ \E missed \in BOOLEAN :
       /\ KillGroup(t, IF watch[t] = "kill" THEN "first" ELSE "again", missed)
       /\ watch' = [watch EXCEPT ![t] = IF missed THEN "kill-again" ELSE "await"]
  /\ UNCHANGED <<dmnVars, startPc, entryVars, seen, reapers, hard, doomed, poller, diskVars>>

(* Mutant: what the runner says about descendants is dropped. *)
LeftNothing(t) == "none"

(* Outcome::from_status_line: descendants remain, guarded by the runner. *)
LeftByReport(t) == IF report[t].linger THEN "guarded" ELSE "none"

(* Mutant: a report is not taken while descendants remain. *)
WatchReportAlone(t) ==
  /\ Up
  /\ watch[t] = "await"
  /\ report[t].out # "none" /\ ~report[t].linger
  /\ seen' = [seen EXCEPT ![t] = [out |-> report[t].out, left |-> LeftByReport(t)]]
  /\ watch' = [watch EXCEPT ![t] = "drain"]
  /\ UNCHANGED <<dmnVars, startPc, entryVars, reapers, hard, doomed, poller, diskVars, osVars>>

(* The status line came first. *)
WatchReport(t) ==
  /\ Up
  /\ watch[t] = "await"
  /\ report[t].out # "none"
  /\ seen' = [seen EXCEPT ![t] = [out |-> report[t].out, left |-> LeftByReport(t)]]
  /\ watch' = [watch EXCEPT ![t] = "drain"]
  /\ UNCHANGED <<dmnVars, startPc, entryVars, reapers, hard, doomed, poller, diskVars, osVars>>

(* The runner's exit came first, or the pipe ended without a line: the    *)
(* runner is reaped, a line written just before is still used, and        *)
(* otherwise its wait status (or nothing, if wait failed) stands in.      *)
WatchRunnerExit(t) ==
  /\ Up
  /\ watch[t] = "await"
  /\ runner[t] = "zombie"
  /\ runner' = [runner EXCEPT ![t] = "gone"]
  /\ \E out \in IF report[t].out # "none" THEN {report[t].out} ELSE {"signal", "unknown"} :
       seen' = [seen EXCEPT ![t] =
         [out |-> out,
          left |-> IF report[t].out # "none" /\ ~report[t].linger THEN "none" ELSE "probe"]]
  /\ watch' = [watch EXCEPT ![t] = "drain-exited"]
  /\ UNCHANGED <<dmnVars, startPc, entryVars, reapers, hard, doomed, poller, diskVars,
                 sh, kids, report, lifeline>>

(* What may be left of the group: the guardian knows, or it is probed. *)
Probed(t) == seen[t].left = "probe" /\ HasOthers(t)
Leftover(t) == seen[t].left = "guarded" \/ Probed(t)

(* finalize_exit, once the output has drained: nothing if the shutdown has *)
(* finished the record already.                                            *)
Finalize(t) ==
  /\ Up
  /\ watch[t] \in {"drain", "drain-exited"}
  /\ watch' = [watch EXCEPT ![t] = IF @ = "drain" THEN "reap" ELSE "done"]
  /\ IF IsRunning(t)
       THEN /\ mem' = [mem EXCEPT ![t] = EndedRecord(t, seen[t].out)]
            /\ \E saved \in Saved({t}) :
                 /\ disk' = [disk EXCEPT ![t] = IF t \in saved THEN EndedRecord(t, seen[t].out)
                                                ELSE @]
                 /\ bg' = [bg EXCEPT ![t] = IF t \in saved THEN TmpReplaced(t) ELSE @]
            /\ exits' = [exits EXCEPT ![t] = @ + 1]
            /\ linger' = IF Leftover(t) THEN [linger EXCEPT ![t] = TRUE] ELSE linger
            /\ poller' = IF Probed(t) THEN [poller EXCEPT ![t] = TRUE] ELSE poller
       ELSE UNCHANGED <<mem, disk, bg, exits, linger, poller>>
  /\ UNCHANGED <<dmnVars, startPc, reason, timed, seen, reapers, hard, doomed, osVars>>

(* Finished from the report: the runner's own exit is awaited and reaped... *)
ReapRunner(t) ==
  /\ Up
  /\ watch[t] = "reap"
  /\ runner[t] = "zombie"
  /\ runner' = [runner EXCEPT ![t] = "gone"]
  /\ watch' = [watch EXCEPT ![t] = "reaped"]
  /\ UNCHANGED <<dmnVars, startPc, entryVars, seen, reapers, hard, doomed, poller, diskVars,
                 sh, kids, report, lifeline>>

(* Mutant: the group stays on the books. *)
GuardianForgotten(t) ==
  /\ Up
  /\ watch[t] = "reaped"
  /\ watch' = [watch EXCEPT ![t] = "done"]
  /\ UNCHANGED <<dmnVars, startPc, entryVars, seen, reapers, hard, doomed, poller,
                 diskVars, osVars>>

(* ... and taken to mean that its group is empty. *)
GuardianGone(t) ==
  /\ Up
  /\ watch[t] = "reaped"
  /\ watch' = [watch EXCEPT ![t] = "done"]
  /\ linger' = [linger EXCEPT ![t] = FALSE]
  /\ UNCHANGED <<dmnVars, startPc, mem, reason, timed, bg, seen, reapers, hard, doomed, poller,
                 diskVars, osVars>>

(* spawn_group_watcher: a poll finds the group empty. *)
GroupPoll(t) ==
  /\ Up
  /\ poller[t]
  /\ ~HasOthers(t)
  /\ poller' = [poller EXCEPT ![t] = FALSE]
  /\ linger' = [linger EXCEPT ![t] = FALSE]
  /\ UNCHANGED <<dmnVars, startPc, mem, reason, timed, bg, watch, seen, reapers, hard, doomed,
                 diskVars, osVars>>

-----------------------------------------------------------------------------
(* graceful_shutdown *)

(* handle_shutdown, the idle timer, SIGTERM and SIGINT: the flag is set. *)
ShutdownAsked ==
  /\ "shutdown" \in Ops
  /\ Up
  /\ stage = "run"
  /\ "straddle" \in Ops \/ \A t \in Task : startPc[t] \in {"none", "done", "failed"}
  /\ stage' = "asked"
  /\ UNCHANGED <<daemon, lives, crashed, startPc, entryVars, loopVars, diskVars, osVars>>

(* refresh_lingering_groups *)
Refreshed == [t \in Task |-> linger[t] /\ HasOthers(t)]

ShutdownRefresh ==
  /\ Up
  /\ stage = "asked"
  /\ stage' = "refreshed"
  /\ linger' = Refreshed
  /\ UNCHANGED <<daemon, lives, crashed, startPc, mem, reason, timed, bg, loopVars,
                 diskVars, osVars>>

(* Step 1: every running task is marked killed, every live group gets     *)
(* SIGTERM; with none there is no grace to wait for.                      *)
ShutdownTerminate ==
  /\ Up
  /\ stage = "refreshed"
  /\ stage' = IF \E t \in Task : OwnsLiveGroup(t) THEN "grace" ELSE "force"
  /\ reason' = [t \in Task |-> RequestKill(t, "manager-shutdown")]
  /\ UNCHANGED <<daemon, lives, crashed, startPc, mem, linger, timed, bg, loopVars,
                 diskVars, osVars>>

(* Step 2: after the grace, SIGKILL what is still owned, group by group; *)
(* the exit watches then get a moment to record the exits.               *)
ShutdownKill ==
  /\ Up
  /\ stage = "grace"
  /\ stage' = "killing"
  /\ linger' = Refreshed
  /\ doomed' = [t \in Task |-> IF IsRunning(t) \/ Refreshed[t] THEN "first" ELSE "off"]
  /\ UNCHANGED <<daemon, lives, crashed, startPc, mem, reason, timed, bg, watch, seen,
                 reapers, hard, poller, diskVars, osVars>>

ShutdownKills(t) ==
  /\ Up
  /\ doomed[t] # "off"
  /\ \E missed \in BOOLEAN :
       /\ KillGroup(t, doomed[t], missed)
       /\ doomed' = [doomed EXCEPT ![t] = IF missed THEN "again" ELSE "off"]
  /\ UNCHANGED <<dmnVars, startPc, entryVars, watch, seen, reapers, hard, poller, diskVars>>

ShutdownSettle ==
  /\ Up
  /\ stage = "killing"
  /\ \A t \in Task : doomed[t] = "off"
  /\ stage' = "force"
  /\ UNCHANGED <<daemon, lives, crashed, startPc, entryVars, loopVars, diskVars, osVars>>

(* Mutants: the forced pass takes whatever owns a group, or leaves out what *)
(* was asked to stop before.                                               *)
UnrecordedGroups == {t \in Task : OwnsLiveGroup(t)}
UnrecordedByStop == {t \in Task : IsRunning(t) /\ reason[t] = "manager-shutdown"}

Unrecorded == {t \in Task : IsRunning(t)}

(* Step 3: whatever still runs is recorded as killed. *)
ShutdownForce ==
  LET left == Unrecorded IN
  /\ Up
  /\ stage = "force"
  /\ stage' = "sealed"
  /\ mem' = [t \in Task |-> IF t \in left THEN ForcedRecord(t) ELSE mem[t]]
  /\ \E saved \in Saved(left) :
       /\ disk' = [t \in Task |-> IF t \in saved THEN ForcedRecord(t) ELSE disk[t]]
       /\ bg' = [t \in Task |-> IF t \in saved THEN TmpReplaced(t) ELSE bg[t]]
  /\ exits' = [t \in Task |-> IF t \in left THEN exits[t] + 1 ELSE exits[t]]
  /\ UNCHANGED <<daemon, lives, crashed, startPc, reason, linger, timed, loopVars, osVars>>

-----------------------------------------------------------------------------
(* The end of a manager process and the start of the next one *)

(* Everything in memory is lost, the lifelines break, and a runner that   *)
(* has exited is reaped by init.  A request under way is never answered.  *)
ManagerEnds ==
  /\ Up
  /\ daemon' = "down"
  /\ stage' = "run"
  /\ startPc' = [t \in Task |-> IF startPc[t] \in {"none", "done"} THEN startPc[t] ELSE "failed"]
  /\ mem' = [t \in Task |-> Absent]
  /\ reason' = [t \in Task |-> "none"]
  /\ linger' = [t \in Task |-> FALSE]
  /\ timed' = [t \in Task |-> FALSE]
  /\ bg' = [t \in Task |-> IF bg[t] \in {"cloned", "written"} THEN "never" ELSE bg[t]]
  /\ watch' = [t \in Task |-> "off"]
  /\ seen' = [t \in Task |-> NotSeen]
  /\ reapers' = [t \in Task |-> 0]
  /\ hard' = [t \in Task |-> "off"]
  /\ doomed' = [t \in Task |-> "off"]
  /\ poller' = [t \in Task |-> FALSE]
  /\ lifeline' = [t \in Task |-> FALSE]
  /\ runner' = [t \in Task |-> IF runner[t] = "zombie" THEN "gone" ELSE runner[t]]
  /\ UNCHANGED <<lives, sh, kids, report>>

ShutdownExit ==
  /\ stage = "sealed"
  /\ ManagerEnds
  /\ UNCHANGED <<crashed, diskVars>>

Crash ==
  /\ "crash" \in Ops
  /\ ManagerEnds
  /\ crashed' = TRUE
  /\ UNCHANGED diskVars

(* A crash between the two writes of finalize_exit: the record is on disk, *)
(* its task.exit line is not.                                              *)
CrashWhileFinalizing(t) ==
  /\ "crash" \in Ops
  /\ watch[t] \in {"drain", "drain-exited"} /\ IsRunning(t)
  /\ ManagerEnds
  /\ crashed' = TRUE
  /\ disk' = [disk EXCEPT ![t] = EndedRecord(t, seen[t].out)]
  /\ UNCHANGED exits

(* Mutant: the scan corrects what it lists and not the file. *)
RestartInMemory ==
  /\ daemon = "down"
  /\ lives < MaxLives
  /\ daemon' = "up"
  /\ lives' = lives + 1
  /\ mem' = [t \in Task |-> IF disk[t].status = "running" THEN Orphaned ELSE disk[t]]
  /\ UNCHANGED <<stage, crashed, startPc, reason, linger, timed, bg, loopVars, diskVars, osVars>>

(* scan_tasks: records left running become orphaned, nothing is adopted   *)
(* and nothing is signalled.                                              *)
Restart ==
  LET left == {t \in Task : disk[t].status = "running"} IN
  /\ daemon = "down"
  /\ lives < MaxLives
  /\ daemon' = "up"
  /\ lives' = lives + 1
  /\ mem' = [t \in Task |-> IF t \in left THEN Orphaned ELSE disk[t]]
  /\ \E saved \in Saved(left) :
       disk' = [t \in Task |-> IF t \in saved THEN Orphaned ELSE disk[t]]
  /\ exits' = [t \in Task |-> IF t \in left THEN exits[t] + 1 ELSE exits[t]]
  /\ UNCHANGED <<stage, crashed, startPc, reason, linger, timed, bg, loopVars, osVars>>

-----------------------------------------------------------------------------
(* The process group: the shell, its children, and the runner *)

ShellExits(t) ==
  /\ sh[t]
  /\ sh' = [sh EXCEPT ![t] = FALSE]
  /\ UNCHANGED <<dmnVars, startPc, entryVars, loopVars, diskVars, runner, kids, report, lifeline>>

Fork(t) ==
  /\ sh[t] /\ ~kids[t]
  /\ kids' = [kids EXCEPT ![t] = TRUE]
  /\ UNCHANGED <<dmnVars, startPc, entryVars, loopVars, diskVars, runner, sh, report, lifeline>>

KidsExit(t) ==
  /\ kids[t]
  /\ kids' = [kids EXCEPT ![t] = FALSE]
  /\ UNCHANGED <<dmnVars, startPc, entryVars, loopVars, diskVars, runner, sh, report, lifeline>>

(* The shell has been waited for: one status line. A group that cannot be *)
(* enumerated counts as not empty.                                        *)
RunnerReports(t) ==
  /\ runner[t] = "alive"
  /\ ~sh[t]
  /\ report[t] = NoReport
  /\ \E out \in {"ok", "fail", "signal"}, l \in {kids[t], TRUE} :
       report' = [report EXCEPT ![t] = [out |-> out, linger |-> l]]
  /\ UNCHANGED <<dmnVars, startPc, entryVars, loopVars, diskVars, runner, sh, kids, lifeline>>

Exited(t) == IF lifeline[t] THEN "zombie" ELSE "gone"

(* Guardian: the runner stays until it is alone in its group. *)
RunnerExits(t) ==
  /\ runner[t] = "alive"
  /\ report[t] # NoReport
  /\ ~HasOthers(t)
  /\ runner' = [runner EXCEPT ![t] = Exited(t)]
  /\ UNCHANGED <<dmnVars, startPc, entryVars, loopVars, diskVars, sh, kids, report, lifeline>>

(* Mutant: the runner leaves after one round of kills. *)
LifelineBrokenOnce(t) ==
  /\ runner[t] = "alive"
  /\ ~lifeline[t]
  /\ runner' = [runner EXCEPT ![t] = "gone"]
  /\ sh' = [sh EXCEPT ![t] = FALSE]
  /\ UNCHANGED <<dmnVars, startPc, entryVars, loopVars, diskVars, kids, report, lifeline>>

(* watch_lifeline: EOF means the manager is gone. After the grace every   *)
(* other member is killed until the runner is alone, then it exits too.   *)
LifelineBroken(t) ==
  /\ runner[t] = "alive"
  /\ ~lifeline[t]
  /\ runner' = [runner EXCEPT ![t] = "gone"]
  /\ sh' = [sh EXCEPT ![t] = FALSE]
  /\ kids' = [kids EXCEPT ![t] = FALSE]
  /\ UNCHANGED <<dmnVars, startPc, entryVars, loopVars, diskVars, report, lifeline>>

(* Someone outside (the OOM killer, a user) SIGKILLs the runner alone. *)
RunnerKilled(t) ==
  /\ "runner-killed" \in Ops
  /\ runner[t] = "alive"
  /\ runner' = [runner EXCEPT ![t] = Exited(t)]
  /\ UNCHANGED <<dmnVars, startPc, entryVars, loopVars, diskVars, sh, kids, report, lifeline>>

-----------------------------------------------------------------------------
StartActions(t) ==
  StartCheck(t) \/ StartSpawn(t) \/ StartPersist(t) \/ StartPersistFails(t)
    \/ StartInsert(t) \/ StartWatch(t)

RequestActions(t) ==
  Stop(t) \/ MarkBackground(t) \/ BackgroundWrite(t) \/ BackgroundRename(t)

WatchActions(t) ==
  ReaperFires(t) \/ ReaperKills(t) \/ TimeoutFires(t) \/ TimeoutKills(t) \/ WatchReport(t)
    \/ WatchRunnerExit(t) \/ Finalize(t) \/ ReapRunner(t) \/ GuardianGone(t) \/ GroupPoll(t)

GroupActions(t) ==
  ShellExits(t) \/ Fork(t) \/ KidsExit(t) \/ RunnerReports(t) \/ RunnerExits(t)
    \/ LifelineBroken(t) \/ RunnerKilled(t)

ShutdownActions ==
  ShutdownAsked \/ ShutdownRefresh \/ ShutdownTerminate \/ ShutdownKill
    \/ (\E t \in Task : ShutdownKills(t)) \/ ShutdownSettle \/ ShutdownForce \/ ShutdownExit

Next ==
  \/ \E t \in Task : StartActions(t) \/ RequestActions(t) \/ WatchActions(t) \/ GroupActions(t)
  \/ \E t \in Task : ShutdownSession(SessionOf[t])
  \/ ShutdownActions
  \/ Crash
  \/ \E t \in Task : CrashWhileFinalizing(t)
  \/ Restart

Spec == Init /\ [][Next]_vars

(* What the daemon and the kernel do by themselves keeps happening: the    *)
(* runtime polls every spawned task, timers expire, and an exiting process *)
(* is seen. No client request, no exit of a command and no crash is owed.  *)
Fairness ==
  /\ \A t \in Task :
       /\ WF_vars(StartSpawn(t)) /\ WF_vars(StartPersist(t)) /\ WF_vars(StartInsert(t))
       /\ WF_vars(StartWatch(t))
       /\ WF_vars(ReaperFires(t)) /\ WF_vars(ReaperKills(t)) /\ WF_vars(TimeoutKills(t))
       /\ WF_vars(ShutdownKills(t))
       /\ WF_vars(WatchReport(t)) /\ WF_vars(WatchRunnerExit(t)) /\ WF_vars(Finalize(t))
       /\ WF_vars(ReapRunner(t)) /\ WF_vars(GuardianGone(t)) /\ WF_vars(GroupPoll(t))
       /\ WF_vars(RunnerReports(t)) /\ WF_vars(RunnerExits(t)) /\ WF_vars(LifelineBroken(t))
  /\ WF_vars(ShutdownRefresh) /\ WF_vars(ShutdownTerminate) /\ WF_vars(ShutdownKill)
  /\ WF_vars(ShutdownSettle) /\ WF_vars(ShutdownForce) /\ WF_vars(ShutdownExit)

FairSpec == Spec /\ Fairness

-----------------------------------------------------------------------------
(* Properties *)

BeingKilled(t) ==
  hard[t] # "off" \/ doomed[t] # "off" \/ watch[t] \in {"kill", "kill-again"}

(* Once a task is finished in memory, its record on disk says the same,    *)
(* unless the copy mark_background wrote without the lock came after it.   *)
(* (As long as records can be written: see DisksWork.)                     *)
RecordsAgree ==
  DisksWork => \A t \in Task : mem[t].status \in Terminal => disk[t] = mem[t] \/ bg[t] = "late"

(* A kill that was accepted while the task ran decides its record: it ends *)
(* as killed, for the reason taken, however the exit itself, a later       *)
(* request or the shutdown interleave with it; and a task that had ended   *)
(* already takes none.                                                     *)
RequestedKillSticks ==
  \A t \in Task :
    reason[t] # "none" /\ mem[t].status \in Terminal
      => mem[t] = [status |-> "killed", why |-> reason[t]]

(* events.jsonl has a task.exit line for a finished task: one, never two,  *)
(* except after a late background write; none only if a manager crashed.   *)
ExitLoggedOnce ==
  DisksWork => \A t \in Task :
    /\ exits[t] > 1 => bg[t] = "late"
    /\ exits[t] = 1 => disk[t].status \in Terminal \/ bg[t] = "late"
    /\ disk[t].status \in Terminal /\ exits[t] = 0 => crashed

GroupOwned(t) ==
  Up /\ lifeline[t] /\ startPc[t] \in {"inserted", "done"} /\ HasOthers(t)
    => OwnsLiveGroup(t) \/ BeingKilled(t) \/ stage = "sealed"

(* The guardian of what a report had left was killed from outside. *)
GuardianLost(t) ==
  "runner-killed" \in Ops /\ seen[t].left = "guarded" /\ runner[t] \in {"zombie", "gone"}

(* While the manager runs, processes of a task it started belong to a task *)
(* it would still kill on stop and shutdown: a group never slips out of    *)
(* its hands between the report, the guardian's exit and the polls. (Not   *)
(* while a kill is in progress, nor once the shutdown only has to exit.)   *)
(* The one way out is the loss of the guardian of an announced remainder.  *)
LiveGroupOwned == \A t \in Task : GroupOwned(t) \/ GuardianLost(t)

(* The comment on Leftover::Guarded: the guardian's exit means empty. *)
GuardianExitMeansEmpty == \A t \in Task : GroupOwned(t)

(* The id of a task's process group is taken as long as the runner is not  *)
(* reaped or anything else is left of the group.                           *)
IdTaken(t) == runner[t] \in {"alive", "zombie"} \/ HasOthers(t)

(* Where the daemon may signal a group whose id is free again, and so may  *)
(* be another group's: nowhere but between the reaping of the runner and   *)
(* the step that records the exit or gives the group up, between two polls *)
(* of what is left of it, and in a kill a reaper or the shutdown had       *)
(* decided before, under the lock, and sends after it.  In particular not  *)
(* in the timeout's rounds, nor before the exit watch has seen the end.    *)
PgidHeld ==
  \A t \in Task :
    OwnsLiveGroup(t) \/ BeingKilled(t) =>
      \/ IdTaken(t)
      \/ watch[t] \in {"drain-exited", "reaped"}
      \/ watch[t] = "done" /\ (poller[t] \/ hard[t] # "off" \/ doomed[t] # "off")

(* Not true of the code (daemon.rs 1597-1607, 1612): a group that is being *)
(* killed still has its id.                                                *)
SignalsOwnGroup == \A t \in Task : BeingKilled(t) => IdTaken(t)

(* While records can be written, one is orphaned only if a manager really died without a shutdown.  *)
OrphanMeansCrash ==
  DisksWork => \A t \in Task : disk[t] = Orphaned => crashed

(* The contract every reader of a record relies on. *)
Contract == INSTANCE TaskContract WITH record <- disk, alive <- Up
ImplementsContract == Contract!Spec

(* No process of a task outlives for ever the manager that started it, if  *)
(* its runner does: however far the start, a kill or the shutdown had come *)
(* when the manager ended, the runner does not leave before it is alone.   *)
(* (Not if somebody SIGKILLs the runner meanwhile.)                        *)
GroupDiesWithManager ==
  \A t \in Task : (~lifeline[t] /\ runner[t] = "alive") ~> ~HasOthers(t)

(* Not true of the code (runner.rs 11; daemon.rs 1554-1566): nothing of a  *)
(* task outlives its manager.  A SIGKILL for the group takes the runner    *)
(* too, and whoever survives it has no guardian.                           *)
NothingOutlives ==
  \A t \in Task : (~lifeline[t] /\ startPc[t] # "none") ~> ~HasOthers(t)

(* Not true of the code (daemon.rs 1320): a start that failed leaves no    *)
(* process.                                                                *)
FailedStartLeavesNothing ==
  \A t \in Task : Up /\ startPc[t] = "failed" => ~HasOthers(t)

(* What is to end ends: a task whose command ended, or that was asked to   *)
(* stop, is recorded as finished, unless its manager is gone first; and a  *)
(* shutdown that was asked for ends the manager, whatever tasks do.        *)
EndIsReached ==
  /\ \A t \in Task : reason[t] # "none" \/ (IsRunning(t) /\ ~sh[t]) ~> ~IsRunning(t)
  /\ stage # "run" ~> ~Up
=============================================================================
