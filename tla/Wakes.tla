--------------------------------- MODULE Wakes ---------------------------------
(***************************************************************************)
(* How the model learns that a command has ended: by the result of its     *)
(* bash call (bash-override.ts), or, once the call has put the command in  *)
(* the background, by one wake.  The wake's paths are the task_exited      *)
(* event, the exit gate that waits for a late mark (exit-notify-gate.ts),  *)
(* the sync with the manager's list or with the records on disk            *)
(* (index.ts, work-index.ts), the watchdog that syncs unasked              *)
(* (exit-watchdog.ts), and the batch of exit notices (notify.ts).          *)
(*                                                                         *)
(* The manager is its records and one ordered wire per connection; what    *)
(* the wire held when a connection is lost never arrives, and the requests *)
(* it answered are asked again (module Client).                            *)
(***************************************************************************)
EXTENDS Naturals, Sequences, SequencesExt, FiniteSets

CONSTANTS
  Task,        \* commands, one bash call each
  Background,  \* those run with run_in_background
  Ops,         \* faults that may occur
  MaxFaults    \* bound: how many of them

AllOps == {"drop",     \* the connection is lost, the manager lives
           "crash",    \* the manager dies; its tasks with it
           "exhaust",  \* the reconnect window passes
           "abort",    \* the user aborts the bash call
           "look"}     \* task_list, /tasks or task_stop syncs

ASSUME WakesAssumption ==
  Background \subseteq Task /\ Ops \subseteq AllOps /\ MaxFaults \in Nat

VARIABLES
  call,        \* each bash call
  rec,         \* the manager's record of its task
  unsaid,      \* ended tasks whose task_exited is still to be pushed
  asks,        \* requests the client waits for
  wire,        \* answers and events on their way to the client
  link,        \* the client: up, retrying (reconnectLoop), unavailable
  notifyOnExit,
  gate,        \* ExitNotifyGate.notify
  recent,      \* ExitNotifyGate.recent: exits whose mark may still come
  known,       \* tasks whose start time taskMeta has
  row,         \* the work index's row of each task
  armed,       \* the watchdog's interval
  inFlight,    \* its tick
  disk,        \* ended tasks found on disk, not applied yet
  settled,     \* how often deliverExit ran for each task
  pending,     \* NotifyCenter.pendingExits
  sent,        \* the tasks whose exit has been announced
  faults

bashVars  == <<call>>
gateVars  == <<notifyOnExit, gate, recent, settled, pending, row>>
wireVars  == <<rec, unsaid, asks, wire, link>>
watchVars == <<armed, inFlight, disk>>
vars == <<call, rec, unsaid, asks, wire, link, notifyOnExit, gate, recent, known, row,
          armed, inFlight, disk, settled, pending, sent, faults>>

TaskAsk == {"start", "wait", "recover"}
ListAsk == {"tick", "look", "reconnect"}   \* list(true), by who asked
Ask == [what : TaskAsk, of : Task] \cup [what : ListAsk]

TypeOK ==
  /\ call \in [Task -> {"new", "starting", "waiting", "done", "background", "aborted", "local"}]
  /\ rec \in [Task -> {"none", "running", "ended"}]
  /\ asks \subseteq Ask
  /\ link \in {"up", "retrying", "unavailable"}
  /\ link # "up" => wire = <<>>
  /\ gate \subseteq notifyOnExit
  /\ unsaid \cup notifyOnExit \cup recent \cup known \cup pending \cup sent \subseteq Task
  /\ row \in [Task -> {"none", "live", "ended"}]
  /\ {armed, inFlight} \subseteq BOOLEAN
  /\ disk \subseteq SUBSET Task /\ Cardinality(disk) <= 1
  /\ settled \in [Task -> 0..2]
  /\ faults \in 0..MaxFaults

Init ==
  /\ call = [t \in Task |-> "new"] /\ rec = [t \in Task |-> "none"] /\ unsaid = {}
  /\ asks = {} /\ wire = <<>> /\ link = "up"
  /\ notifyOnExit = {} /\ gate = {} /\ recent = {} /\ known = {}
  /\ row = [t \in Task |-> "none"]
  /\ armed = FALSE /\ inFlight = FALSE /\ disk = {}
  /\ settled = [t \in Task |-> 0] /\ pending = {} /\ sent = {}
  /\ faults = 0

Fault(op) == op \in Ops /\ faults < MaxFaults /\ faults' = faults + 1

-----------------------------------------------------------------------------
(* The manager.                                                            *)

About(what, t) == [what |-> what, of |-> t]
Answer(a, says) == [answers |-> {a}, says |-> says]
Event(what, t) == [answers |-> {}, says |-> <<what, t>>]
Ended == {t \in Task : rec[t] = "ended"}

\* handle_start: task_started is pushed before the answer; a start asked again
\* is answered with the task it started, and pushes nothing.
AnswerStart(t) ==
  LET a == About("start", t) IN
  /\ link = "up" /\ a \in asks /\ asks' = asks \ {a}
  /\ wire' = wire \o (IF rec[t] = "none" THEN <<Event("started", t)>> ELSE <<>>)
                  \o <<Answer(a, "ok")>>
  /\ rec' = [rec EXCEPT ![t] = IF @ = "none" THEN "running" ELSE @]
  /\ UNCHANGED <<call, unsaid, link, gateVars, known, watchVars, sent, faults>>

\* handle_wait: at the end of the task or of the budget
AnswerWait(t) ==
  LET a == About("wait", t) IN
  /\ link = "up" /\ a \in asks /\ asks' = asks \ {a}
  /\ wire' = Append(wire, Answer(a, IF rec[t] = "ended" THEN "done" ELSE "budget"))
  /\ UNCHANGED <<call, rec, unsaid, link, gateVars, known, watchVars, sent, faults>>

\* handle_list
AnswerList(a) ==
  /\ link = "up" /\ a \in asks /\ a.what \in ListAsk \cup {"recover"} /\ asks' = asks \ {a}
  /\ wire' = Append(wire, Answer(a, Ended))
  /\ UNCHANGED <<call, rec, unsaid, link, gateVars, known, watchVars, sent, faults>>

\* finalize_exit: the record, then task_exited, which nobody hears while the
\* session is disconnected.
TaskEnds(t) ==
  /\ rec[t] = "running"
  /\ rec' = [rec EXCEPT ![t] = "ended"]
  /\ unsaid' = unsaid \cup {t}
  /\ UNCHANGED <<call, asks, wire, link, gateVars, known, watchVars, sent, faults>>

TaskExited(t) ==
  /\ t \in unsaid /\ unsaid' = unsaid \ {t}
  /\ wire' = IF link = "up" THEN Append(wire, Event("exited", t)) ELSE wire
  /\ UNCHANGED <<call, rec, asks, link, gateVars, known, watchVars, sent, faults>>

-----------------------------------------------------------------------------
(* Wakes (index.ts, exit-notify-gate.ts, work-index.ts).                   *)

\* The mutant goes on listing the command as running.
DeliverExitAwaited(ts, marked) ==
  /\ notifyOnExit' = marked
  /\ settled' = [t \in Task |-> IF t \in ts /\ settled[t] < 2 THEN settled[t] + 1 ELSE settled[t]]
  /\ pending' = pending \cup {t \in ts : settled[t] = 0}

\* deliverExit, with the set notifyOnExit had before: the notice is queued
\* (notifyTaskExit, once per task).
DeliverExit(ts, marked) ==
  /\ notifyOnExit' = marked \ ts
  /\ settled' = [t \in Task |-> IF t \in ts /\ settled[t] < 2 THEN settled[t] + 1 ELSE settled[t]]
  /\ pending' = pending \cup {t \in ts : settled[t] = 0}

NoDelivery(marked) ==
  notifyOnExit' = marked /\ UNCHANGED <<settled, pending>>

\* patchExited, and deliverExit's patch: the row, if there is one, is closed.
Patched(ts) == [t \in Task |-> IF t \in ts /\ row[t] # "none" THEN "ended" ELSE row[t]]

\* The mutant leaves the mark where it is.
OnExitKeepsMark(ts) ==
  /\ recent' = recent \cup (ts \ gate)
  /\ UNCHANGED gate

\* ExitNotifyGate.onExit: which of these exits are for the model to hear now
OnExit(ts) ==
  /\ gate' = gate \ ts
  /\ recent' = recent \cup (ts \ gate)

\* onEvent, task_exited
ExitEvent(t) ==
  /\ OnExit({t}) /\ row' = Patched({t})
  /\ IF t \in gate THEN DeliverExit({t}, notifyOnExit) ELSE NoDelivery(notifyOnExit)

\* markNotifyOnExit, ExitNotifyGate.mark, up to the request for a start time
\* that was missed (see `Missed`).
MarkNotifyOnExit(t) ==
  /\ armed' = TRUE
  /\ recent' = recent \ {t}
  /\ IF t \in recent
     THEN DeliverExit({t}, notifyOnExit \cup {t}) /\ gate' = gate \ {t} /\ row' = Patched({t})
     ELSE /\ NoDelivery(notifyOnExit \cup {t})
          /\ gate' = gate \cup {t}
          /\ row' = [row EXCEPT ![t] = IF t \in known THEN "live" ELSE @]

Missed(t) == IF t \in recent \cup known THEN {} ELSE {About("recover", t)}

\* The stash is kept for 30 s.
StashExpires(t) ==
  /\ t \in recent /\ call[t] \in {"starting", "waiting"}
  /\ recent' = recent \ {t}
  /\ UNCHANGED <<bashVars, wireVars, notifyOnExit, gate, settled, pending, row,
                 known, watchVars, sent, faults>>

\* staleLive: the rows still shown as live
StaleLive(ended) == {t \in ended : row[t] = "live"}

\* The end of syncWithManager
Settle(ended) ==
  LET stale == StaleLive(ended) IN
  /\ OnExit(stale \cap notifyOnExit) /\ row' = Patched(stale)
  /\ DeliverExit(stale \cap notifyOnExit \cap gate, notifyOnExit)

-----------------------------------------------------------------------------
(* The bash tool (bash-override.ts).                                       *)

\* ensureAvailable, client.start
Bash(t) ==
  /\ call[t] = "new" /\ link = "up"
  /\ call' = [call EXCEPT ![t] = "starting"]
  /\ asks' = asks \cup {About("start", t)}
  /\ UNCHANGED <<rec, unsaid, wire, link, gateVars, known, watchVars, sent, faults>>

\* The start is answered: mark at once, or wait for the foreground budget.
Started(t) ==
  IF t \in Background
  THEN /\ call' = [call EXCEPT ![t] = "background"]
       /\ MarkNotifyOnExit(t)
       /\ asks' = asks \cup Missed(t)
  ELSE /\ call' = [call EXCEPT ![t] = "waiting"]
       /\ asks' = asks \cup {About("wait", t)}
       /\ UNCHANGED <<gateVars, armed>>

\* The wait is answered.
Waited(t, done) ==
  IF call[t] # "waiting"
  THEN UNCHANGED <<call, asks, gateVars, armed>>          \* aborted meanwhile
  ELSE IF done
  THEN call' = [call EXCEPT ![t] = "done"] /\ UNCHANGED <<asks, gateVars, armed>>
  ELSE /\ call' = [call EXCEPT ![t] = "background"]
       /\ MarkNotifyOnExit(t)
       /\ asks' = asks \cup Missed(t)

\* withAbort: the task is stopped and the call throws.
Abort(t) ==
  /\ call[t] = "waiting" /\ Fault("abort")
  /\ call' = [call EXCEPT ![t] = "aborted"]
  /\ UNCHANGED <<wireVars, gateVars, known, watchVars, sent>>

-----------------------------------------------------------------------------
(* What the client reads.                                                  *)

\* The list after markNotifyOnExit: the row, unless the wake has been sent.
Recovered(t) ==
  /\ known' = IF t \in notifyOnExit THEN known \cup {t} ELSE known
  /\ row' = [row EXCEPT ![t] = IF t \in notifyOnExit THEN "live" ELSE @]
  /\ UNCHANGED <<notifyOnExit, gate, recent, settled, pending>>

Receive ==
  /\ wire # <<>> /\ wire' = Tail(wire)
  /\ LET m == Head(wire) IN
     \/ /\ m.answers = {}
        /\ LET t == m.says[2] IN
           IF m.says[1] = "started"
           THEN /\ known' = known \cup {t}
                /\ row' = [row EXCEPT ![t] = IF t \in notifyOnExit THEN "live" ELSE @]
                /\ UNCHANGED <<notifyOnExit, gate, recent, settled, pending>>
           ELSE ExitEvent(t) /\ UNCHANGED known
        /\ UNCHANGED <<call, asks, armed, inFlight>>
     \/ \E a \in m.answers :
          \/ /\ a.what = "start" /\ Started(a.of)
             /\ UNCHANGED <<known, inFlight>>
          \/ /\ a.what = "wait" /\ Waited(a.of, m.says = "done")
             /\ UNCHANGED <<known, inFlight>>
          \/ /\ a.what = "recover" /\ Recovered(a.of)
             /\ UNCHANGED <<call, asks, armed, inFlight>>
          \/ /\ a.what \in ListAsk /\ Settle(m.says)
             /\ inFlight' = (inFlight /\ a.what # "tick")
             /\ UNCHANGED <<call, asks, known, armed>>
  /\ UNCHANGED <<rec, unsaid, link, disk, sent, faults>>

\* NotifyCenter.flushExits, 200 ms after the first exit of the batch
FlushExits ==
  /\ pending # {}
  /\ sent' = sent \cup pending
  /\ pending' = {}
  /\ UNCHANGED <<bashVars, wireVars, notifyOnExit, gate, recent, settled, row, known,
                 watchVars, faults>>

\* task_list, /tasks and task_stop sync when somebody looks: with the disk
\* even while the client reconnects.
Look ==
  /\ Fault("look")
  /\ IF link = "up"
     THEN asks' = asks \cup {[what |-> "look"]} /\ UNCHANGED disk
     ELSE disk = {} /\ disk' = {Ended} /\ UNCHANGED asks
  /\ UNCHANGED <<call, rec, unsaid, wire, link, gateVars, known, armed, inFlight, sent>>

\* loadDiskTasks has read the records: what runs under a dead daemon has ended.
DiskRead ==
  /\ \E ended \in disk : Settle(ended)
  /\ disk' = {}
  /\ inFlight' = FALSE
  /\ UNCHANGED <<call, wireVars, known, armed, sent, faults>>

-----------------------------------------------------------------------------
(* The watchdog (exit-watchdog.ts).                                        *)

\* The mutant only minds what has no row yet instead of what is awaited.
HasPendingRows == \E t \in Task : row[t] = "none" /\ t \in notifyOnExit

HasPending == notifyOnExit # {}

\* onTick: dispose, or tick unless a tick is in flight
Tick ==
  /\ armed
  /\ IF ~HasPending
     THEN armed' = FALSE /\ UNCHANGED inFlight
     ELSE ~inFlight /\ inFlight' = TRUE /\ UNCHANGED armed
  /\ UNCHANGED <<call, wireVars, gateVars, known, disk, sent, faults>>

TickAsked ==
  \/ [what |-> "tick"] \in asks
  \/ \E i \in DOMAIN wire : [what |-> "tick"] \in wire[i].answers

\* ensureAvailable has returned: sync with the manager, or with the disk.
TickSyncs ==
  /\ inFlight /\ ~TickAsked /\ disk = {}
  /\ \/ /\ link # "retrying"
        /\ link' = "up"                   \* ensureAvailable connects again
        /\ asks' = asks \cup {[what |-> "tick"]} /\ UNCHANGED disk
     \/ /\ link = "unavailable"
        /\ disk' = {Ended} /\ UNCHANGED <<asks, link>>
  /\ UNCHANGED <<call, rec, unsaid, wire, gateVars, known, armed, inFlight, sent, faults>>

-----------------------------------------------------------------------------
(* The connection (module Client has its detail).                          *)

\* What was asked and not heard is asked again after a reconnect.
Unheard == asks \cup UNION {wire[i].answers : i \in DOMAIN wire}

Drop ==
  /\ link = "up" /\ Fault("drop")
  /\ link' = "retrying" /\ asks' = Unheard /\ wire' = <<>>
  /\ UNCHANGED <<call, rec, unsaid, gateVars, known, watchVars, sent>>

\* A start that was not heard of is run again by the next manager.
Crash ==
  /\ link = "up" /\ Fault("crash")
  /\ link' = "retrying" /\ asks' = Unheard /\ wire' = <<>>
  /\ rec' = [t \in Task |-> IF rec[t] = "none" \/ call[t] = "starting" THEN "none" ELSE "ended"]
  /\ unsaid' = {}
  /\ UNCHANGED <<call, gateVars, known, watchVars, sent>>

\* reconnectLoop succeeds; onReconnect syncs.
Reconnect ==
  /\ link = "retrying" /\ link' = "up"
  /\ asks' = asks \cup {[what |-> "reconnect"]}
  /\ UNCHANGED <<call, rec, unsaid, wire, gateVars, known, watchVars, sent, faults>>

\* reconnectLoop gives up and every request fails: a start runs locally, a
\* wait has lost contact and marks, a list settles nothing.
Lost == {t \in Task : call[t] = "waiting"}
GiveUp ==
  /\ link = "retrying" /\ "exhaust" \in Ops /\ UNCHANGED faults
  /\ link' = "unavailable" /\ asks' = {}
  /\ call' = [t \in Task |-> IF call[t] = "starting" THEN "local"
                             ELSE IF call[t] = "waiting" THEN "background" ELSE call[t]]
  /\ LET late == Lost \cap recent
         awaited == Lost \ recent
     IN /\ recent' = recent \ late
        /\ gate' = gate \cup awaited
        /\ notifyOnExit' = notifyOnExit \cup awaited
        /\ settled' = [t \in Task |-> IF t \in late THEN settled[t] + 1 ELSE settled[t]]
        /\ pending' = pending \cup {t \in late : settled[t] = 0}
        /\ row' = [t \in Task |-> IF t \in awaited \cap known THEN "live" ELSE row[t]]
  /\ armed' = (armed \/ Lost # {})
  /\ inFlight' = (inFlight /\ [what |-> "tick"] \notin asks)
  /\ UNCHANGED <<rec, unsaid, wire, known, disk, sent>>

Next ==
  \/ \E t \in Task : \/ Bash(t) \/ AnswerStart(t) \/ AnswerWait(t) \/ TaskEnds(t) \/ TaskExited(t)
                     \/ Abort(t) \/ StashExpires(t)
  \/ \E a \in asks : AnswerList(a)
  \/ Receive \/ FlushExits \/ Look \/ DiskRead
  \/ Tick \/ TickSyncs
  \/ Drop \/ Crash \/ Reconnect \/ GiveUp

Spec == Init /\ [][Next]_vars

\* The manager answers, the extension's event loop turns and its timers fire.
\* Nothing makes a task end, and nobody need look.
Fairness ==
  /\ \A t \in Task : WF_vars(AnswerStart(t)) /\ WF_vars(AnswerWait(t)) /\ WF_vars(TaskExited(t))
  /\ \A a \in Ask : WF_vars(AnswerList(a))
  /\ WF_vars(Receive) /\ WF_vars(FlushExits) /\ WF_vars(DiskRead)
  /\ WF_vars(Tick) /\ WF_vars(TickSyncs) /\ WF_vars(Reconnect)

FairSpec == Spec /\ Fairness

-----------------------------------------------------------------------------
(* Properties.                                                             *)

\* The model is told of an end by the result of its bash call or by a wake,
\* never by both and never twice: the event, the stash, a reconnect's sync, the
\* watchdog's and a look may all find the same exit, in any order.
ToldOnce ==
  \A t \in Task :
    /\ settled[t] <= 1
    /\ call[t] \in {"done", "aborted", "local"} => settled[t] = 0

\* listStillRunning, which every wake ends with, never names a command whose
\* exit was announced or is in the batch being announced, and names every other
\* command whose wake the model was promised.
StillRunningTrue ==
  notifyOnExit = {t \in Task : call[t] = "background" /\ t \notin pending \cup sent}

\* The wake of a command whose start time was missed and could not be asked for
\* has no row to be found by.
Blind(t) ==
  t \in notifyOnExit /\ row[t] = "none" /\ About("recover", t) \notin Unheard

\* A backgrounded command that has ended wakes the model, though the event, the
\* reconnect and every look may fail: the watchdog finds it.
WakeComes ==
  \A t \in Task :
    call[t] = "background" /\ rec[t] = "ended" ~> settled[t] > 0 \/ Blind(t)
===============================================================================
