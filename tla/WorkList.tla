------------------------------- MODULE WorkList -------------------------------
(***************************************************************************)
(* What is running, as the extension knows it: the work index              *)
(* (work-index.ts) with a row per backgrounded command, monitor and        *)
(* subagent, fed by the manager's events, by bash's marks, by the monitor  *)
(* registry and by the subagent registry (index.ts), the records of the    *)
(* subagents on disk (agent-records.ts), and task_list and task_stop       *)
(* (task-tools.ts), which put the three together.                          *)
(*                                                                         *)
(* How an exit becomes a wake is module Wakes, what a monitor says is      *)
(* Monitors, how a subagent comes to its status is Subagents.  Here a      *)
(* connection that is lost loses exits and answers, never what a start is   *)
(* answered with (Wakes and Monitors have that case).                       *)
(***************************************************************************)
EXTENDS Naturals, Sequences, FiniteSets, Functions

CONSTANTS
  Shell,       \* commands of the bash tool
  Mon,         \* monitors
  Children,    \* the children of the one run, a sequence without repetition
  Retain,      \* WORK_RETAIN_MS, in units of time
  FinishedCap, \* WORK_FINISHED_CAP
  Ops,         \* what may occur, of AllOps
  MaxOps       \* bound: how often, in all

AllOps == {"drop",     \* the connection is lost and made again
           "exhaust",  \* it is lost, and the client gives up until somebody calls
           "fail",     \* a list request ends by its timer, or with a failed upgrade
           "restart",  \* pi dies and resumes the session within the grace period
           "stop",     \* task_stop
           "timeout"}  \* a monitor's timeout

Task == Shell \cup Mon
Agent == Range(Children)
Id == Task \cup Agent

WorkListConstants ==
  /\ Shell \cap Mon = {} /\ Task \cap Agent = {}
  /\ Children \in Seq(Agent) /\ IsInjective(Children)
  /\ {Retain, FinishedCap, MaxOps} \subseteq Nat /\ Ops \subseteq AllOps

ASSUME WorkListAssumption == WorkListConstants

VARIABLES
  rec,       \* the manager's record of each task
  wire,      \* events and answers on their way to the extension
  asks,      \* the list requests at the manager
  bash,      \* the bash call of each command
  monitor,   \* MonitorRegistry.entries
  early,     \* exits that met no entry and no mark
  awaited,   \* notifyOnExit
  promised,  \* commands the model was told run in the background
  child,     \* the registry's status of each child
  disk,      \* and the one in its record on disk
  row,       \* WorkIndex.items
  listing,   \* the task_list call
  ops

managerVars == <<rec, wire, asks>>
shellVars   == <<bash, awaited, promised>>
vars == <<rec, wire, asks, bash, monitor, early, awaited, promised, child, disk, row,
          listing, ops>>

Active == {"pending", "running"}
Terminal == {"completed", "interrupted"}
NoRow == [status |-> "none", age |-> 0]   \* age: the time since endedAt, up to Retain + 1
Idle == [step |-> "idle", since |-> {}, over |-> {}, tasks |-> <<>>]

\* Who asks the manager for its list: task_list, twice, and every other sync.
ListAsk == {"sync", "list", "resync"}

TypeOK ==
  /\ rec \in [Task -> {"none", "running", "ended"}]
  /\ asks \subseteq ListAsk
  /\ bash \in [Shell -> {"new", "open", "late", "background", "done"}]
  /\ monitor \in [Mon -> {"new", "open", "active", "stopping", "closed"}]
  /\ early \subseteq Task /\ awaited \subseteq Shell /\ promised \subseteq Shell
  /\ child \in [Agent -> [status : {"new", "gone"} \cup Active \cup Terminal, age : 0..(Retain + 1)]]
  /\ disk \in [Agent -> {"none"} \cup Active \cup Terminal]
  /\ row \in [Id -> [status : {"none", "ended"} \cup Active \cup Terminal, age : 0..(Retain + 1)]]
  /\ listing.step \in {"idle", "syncing", "listing", "answered"}
  /\ ops \in 0..MaxOps

Init ==
  /\ rec = [t \in Task |-> "none"] /\ wire = <<>> /\ asks = {}
  /\ bash = [s \in Shell |-> "new"] /\ monitor = [m \in Mon |-> "new"]
  /\ early = {} /\ awaited = {} /\ promised = {}
  /\ child = [a \in Agent |-> [status |-> "new", age |-> 0]] /\ disk = [a \in Agent |-> "none"]
  /\ row = [i \in Id |-> NoRow]
  /\ listing = Idle /\ ops = 0

Op(what) == what \in Ops /\ ops < MaxOps /\ ops' = ops + 1

-----------------------------------------------------------------------------
(* The index (work-index.ts).                                              *)

Live(r, i) == r[i].status \in Active
Finished(r) == {i \in Id : r[i].status # "none" /\ ~Live(r, i)}

\* prune: what is past its time goes, and of the rest the oldest beyond the cap.
Prunings(r) ==
  LET recent == {i \in Finished(r) : r[i].age <= Retain}
      Newest(K) == \A i \in K, j \in recent \ K : r[i].age <= r[j].age
      kept == {K \in SUBSET recent : /\ Newest(K)
                                     /\ K = recent \/ Cardinality(K) = FinishedCap
                                     /\ Cardinality(K) <= FinishedCap}
  IN {[i \in Id |-> IF i \in Finished(r) \ K THEN NoRow ELSE r[i]] : K \in kept}

Now(status) == [status |-> status, age |-> 0]

\* upsert
Upsert(r, i, item) == Prunings([r EXCEPT ![i] = item])

\* patch: a row that is not there stays so
Patch(r, i) == IF r[i].status = "none" THEN {r} ELSE Upsert(r, i, Now("ended"))

\* list: what it holds, pruned; it emits nothing
Listed == Prunings(row)

-----------------------------------------------------------------------------
(* The manager.                                                            *)

Message(what, t) == [is |-> what, of |-> t]
Said(what, t) == \E k \in DOMAIN wire : wire[k] = Message(what, t)

\* bash and monitor calls: handle_start, task_started
Start(t) ==
  /\ rec[t] = "none"
  /\ rec' = [rec EXCEPT ![t] = "running"]
  /\ wire' = Append(wire, Message("started", t))
  /\ UNCHANGED <<asks, shellVars, monitor, early, child, disk, row, listing, ops>>

\* finalize_exit, task_exited
Ended(t) == rec' = [rec EXCEPT ![t] = "ended"] /\ wire' = Append(wire, Message("exited", t))

TaskEnds(t) ==
  /\ rec[t] = "running" /\ Ended(t)
  /\ UNCHANGED <<asks, shellVars, monitor, early, child, disk, row, listing, ops>>

\* handle_wait: bash waits for the command, or for its budget
AnswerWait(s) ==
  /\ bash[s] = "open" /\ ~Said("done", s) /\ ~Said("budget", s)
  /\ wire' = Append(wire, Message(IF rec[s] = "ended" THEN "done" ELSE "budget", s))
  /\ UNCHANGED <<rec, asks, shellVars, monitor, early, child, disk, row, listing, ops>>

\* handle_list
AnswerList(a) ==
  /\ a \in asks /\ asks' = asks \ {a}
  /\ wire' = Append(wire, [is |-> a, rec |-> rec])
  /\ listing' = IF a = "sync" THEN [listing EXCEPT !.over = {t \in Task : rec[t] = "ended"}]
                ELSE listing
  /\ UNCHANGED <<rec, shellVars, monitor, early, child, disk, row, ops>>

-----------------------------------------------------------------------------
(* What the extension makes of it (index.ts).                              *)

\* A start event: a monitor gets its row; a command gets none until it is
\* marked.  The call goes on with the answer that follows.
StartedEvent(t) ==
  /\ IF t \in Mon
     THEN /\ monitor' = [monitor EXCEPT ![t] = "open"] /\ UNCHANGED bash
          /\ row' \in IF row[t].status = "none" THEN Upsert(row, t, Now("running")) ELSE {row}
     ELSE /\ bash' = [bash EXCEPT ![t] = "open"] /\ UNCHANGED <<monitor, row>>
  /\ UNCHANGED <<early, awaited, promised, listing, asks>>

\* A mark or an entry for it is still to come.
Claimed(t) == IF t \in Mon THEN monitor[t] = "open" ELSE bash[t] \in {"open", "late"}

\* An exit: the registry closes the monitor, or keeps the exit for one that
\* is starting; the row is closed; the wake is given, or the exit stashed.
ExitEvent(t) ==
  /\ IF t \in Mon /\ monitor[t] \in {"active", "stopping"}
     THEN monitor' = [monitor EXCEPT ![t] = "closed"] /\ UNCHANGED early
     ELSE /\ early' = early \cup IF Claimed(t) THEN {t} ELSE {}
          /\ UNCHANGED monitor
  /\ awaited' = awaited \ {t}
  /\ row' \in Patch(row, t)
  /\ UNCHANGED <<bash, promised, listing, asks>>

\* The rows to close with the manager's list: staleLive, and the monitors
\* that reconcile closes.
Stale(r, tasks) == {t \in Task : tasks[t] = "ended" /\ Live(r, t)}

\* Each is patched, which prunes; as they are the newest, that comes to one
\* pruning at the end.
Closings(r, ts) ==
  IF ts = {} THEN {r} ELSE Prunings([i \in Id |-> IF i \in ts THEN Now("ended") ELSE r[i]])

\* The end of syncWithManager
Settle(tasks) ==
  /\ monitor' = [m \in Mon |-> IF tasks[m] = "ended" /\ monitor[m] \in {"active", "stopping"}
                               THEN "closed" ELSE monitor[m]]
  /\ row' \in Closings(row, Stale(row, tasks))
  /\ awaited' = awaited \ Stale(row, tasks)
  /\ UNCHANGED <<bash, promised, early>>

Receive ==
  /\ wire # <<>> /\ wire' = Tail(wire)
  /\ LET m == Head(wire) IN
     \/ m.is = "started" /\ StartedEvent(m.of)
     \/ m.is = "exited" /\ ExitEvent(m.of)
     \/ /\ m.is \in {"budget", "done"}
        /\ bash' = [bash EXCEPT ![m.of] = IF m.is = "done" THEN "done" ELSE "late"]
        /\ early' = IF m.is = "done" THEN early \ {m.of} ELSE early
        /\ UNCHANGED <<monitor, awaited, promised, row, listing, asks>>
     \/ /\ m.is \in {"sync", "resync"} /\ Settle(m.rec)
        /\ IF m.is = "resync" THEN UNCHANGED <<listing, asks>>
           ELSE /\ listing' = [listing EXCEPT !.step = "listing"]
                /\ asks' = asks \cup {"list"}
     \/ /\ m.is = "list"
        /\ listing' = [listing EXCEPT !.step = "answered", !.tasks = m.rec]
        /\ UNCHANGED <<shellVars, monitor, early, row, asks>>
  /\ UNCHANGED <<rec, child, disk, ops>>

\* markNotifyOnExit with the gate: an exit that came in the same read as the
\* answer has been stashed.
MarkNotifyOnExit(s) ==
  IF s \in early
  THEN row' \in Patch(row, s) /\ UNCHANGED awaited
  ELSE row' \in Upsert(row, s, Now("running")) /\ awaited' = awaited \cup {s}

\* bash goes on after the wait: the command is in the background.
Background(s) ==
  /\ bash[s] = "late" /\ bash' = [bash EXCEPT ![s] = "background"]
  /\ MarkNotifyOnExit(s)
  /\ promised' = promised \cup {s} /\ early' = early \ {s}
  /\ UNCHANGED <<managerVars, monitor, child, disk, listing, ops>>

\* The mutant does not look for an exit that came first.
RegisterBlind(m) ==
  /\ monitor[m] = "open"
  /\ monitor' = [monitor EXCEPT ![m] = "active"]
  /\ early' = early \ {m}
  /\ row' \in Upsert(row, m, Now("running"))
  /\ UNCHANGED <<managerVars, shellVars, child, disk, listing, ops>>

\* MonitorRegistry.start goes on after the answer: the entry, onChange, and the
\* exit that came first.  "Never revive a row that already ended".
Register(m) ==
  /\ monitor[m] = "open"
  /\ monitor' = [monitor EXCEPT ![m] = IF m \in early THEN "closed" ELSE "active"]
  /\ early' = early \ {m}
  /\ LET shown == IF row[m].status = "ended" THEN {row} ELSE Upsert(row, m, Now("running"))
     IN row' \in IF m \in early THEN UNION {Patch(r, m) : r \in shown} ELSE shown
  /\ UNCHANGED <<managerVars, shellVars, child, disk, listing, ops>>

\* MonitorRegistry.timeout: the stop is asked for (the task ends by TaskEnds,
\* or has ended), then the entry goes: only the exit or a sync closes the row.
Timeout(m) ==
  /\ monitor[m] = "active" /\ Op("timeout")
  /\ monitor' = [monitor EXCEPT ![m] = "stopping"]
  /\ UNCHANGED <<managerVars, shellVars, early, child, disk, row, listing>>

Cleanup(m) ==
  /\ monitor[m] = "stopping"
  /\ monitor' = [monitor EXCEPT ![m] = "closed"]
  /\ asks' = asks \cup {"resync"}
  /\ UNCHANGED <<rec, wire, shellVars, early, child, disk, row, listing, ops>>

-----------------------------------------------------------------------------
(* The subagents: registry, record and row.                                *)

\* Put one after the other, each row is followed by a pruning.
PutAll(next) ==
  LET put[n \in 0..Len(Children)] ==
        IF n = 0 THEN {row}
        ELSE IF next[Children[n]].status \in {"new", "gone"} THEN put[n - 1]
        ELSE UNION {Upsert(r, Children[n], next[Children[n]]) : r \in put[n - 1]}
  IN put[Len(Children)]

\* onTransition: for every child of the run its record is written and its row
\* put, with what the registry says.
Emit(next) ==
  /\ child' = next
  /\ disk' = [a \in Agent |-> IF next[a].status \in {"new", "gone"} THEN disk[a]
                              ELSE next[a].status]
  /\ row' \in PutAll(next)

Transition(a, from, to) ==
  /\ child[a].status \in from
  /\ Emit([child EXCEPT ![a] = Now(to)])
  /\ UNCHANGED <<managerVars, shellVars, monitor, early, listing, ops>>

AddChild(a) == Transition(a, {"new"}, "pending")
AdmitChild(a) == Transition(a, {"pending"} \cup Terminal, "running")     \* or a resume
SettleChild(a) == \E to \in Terminal : Transition(a, Active, to)

-----------------------------------------------------------------------------
(* The tools (task-tools.ts).                                              *)

\* What goes on: commands whose wake is owed, monitors, subagents.
Going ==
  {t \in awaited \cup Mon : rec[t] = "running"} \cup {a \in Agent : child[a].status \in Active}

\* task_list: requireClient, then a sync
TaskList ==
  /\ listing = Idle
  /\ listing' = [Idle EXCEPT !.step = "syncing", !.since = Going]
  /\ asks' = asks \cup {"sync"}
  /\ UNCHANGED <<rec, wire, shellVars, monitor, early, child, disk, row, ops>>

\* The mutants list only what has a row, and the records as they were left.
FromManagerIndexed(r, seen, all) ==
  {<<t, listing.tasks[t]>> : t \in {u \in Task \ seen : /\ listing.tasks[u] # "none"
                                                        /\ (all \/ listing.tasks[u] = "running")
                                                        /\ r[u].status # "none"}}

FromDiskAsLeft(seen, all) ==
  {<<a, disk[a]>> : a \in {b \in Agent \ seen : /\ disk[b] # "none" /\ child[b].status \notin Active
                                                /\ all \/ disk[b] \in Active}}

\* What it prints: the index first, then the manager's tasks (a command that
\* is not in the index is one that bash waits for), then the records on disk,
\* where a child nobody holds any more has been interrupted.
FromIndex(r, all) ==
  {<<i, r[i].status>> : i \in {j \in Id : r[j].status # "none" /\ (all \/ Live(r, j))}}

FromManager(r, seen, all) ==
  {<<t, listing.tasks[t]>> : t \in {u \in Task \ seen : /\ listing.tasks[u] # "none"
                                                        /\ (all \/ listing.tasks[u] = "running")
                                                        /\ u \in Shell => r[u].status # "none"}}

FromDisk(seen, all) ==
  {<<a, IF disk[a] \in Active THEN "interrupted" ELSE disk[a]>> :
     a \in {b \in Agent \ seen : disk[b] # "none" /\ all /\ child[b].status \notin Active}}

Ids(entries) == {e[1] : e \in entries}
Entries(r, all) ==
  LET indexed == FromIndex(r, all)
      both == indexed \cup FromManager(r, Ids(indexed), all)
  IN both \cup FromDisk(Ids(both), all)

ListTasks ==
  /\ listing.step = "answered" /\ listing' = Idle
  /\ row' \in Listed
  /\ UNCHANGED <<managerVars, shellVars, monitor, early, child, disk, ops>>

\* task_stop of a task: the stop is answered, and whatever came of it, a sync
\* follows.  (Of a subagent: interrupt, which is SettleChild.)
TaskStop(t) ==
  /\ rec[t] # "none" /\ Op("stop")
  /\ asks' = asks \cup {"resync"}
  /\ UNCHANGED <<rec, wire, shellVars, monitor, early, child, disk, row, listing>>

-----------------------------------------------------------------------------
(* Time, connections, processes.                                           *)

\* A unit is minutes: nothing that only waits for an answer takes one.
TimePasses ==
  LET Older(items) == [i \in DOMAIN items |->
        IF items[i].status \in Terminal \cup {"ended"} /\ items[i].age <= Retain
        THEN [status |-> items[i].status, age |-> items[i].age + 1] ELSE items[i]]
  IN /\ wire = <<>> /\ asks = {} /\ listing = Idle
     /\ \A s \in Shell : bash[s] # "late"
     /\ \A m \in Mon : monitor[m] # "open"
     /\ row' = Older(row) /\ child' = Older(child)
     /\ <<row, child>>' # <<row, child>>
     /\ UNCHANGED <<managerVars, shellVars, monitor, early, disk, listing, ops>>

\* ExitWatchdog: while a wake is owed it syncs on its own.  (Bound: every 30 s,
\* so when nothing is on its way.  TaskStop asks for the same at any moment.)
Watchdog ==
  /\ awaited # {} /\ wire = <<>> /\ asks = {}
  /\ asks' = asks \cup {"resync"}
  /\ UNCHANGED <<rec, wire, shellVars, monitor, early, child, disk, row, listing, ops>>

\* No start is on its way, and no call has its answer but not gone on: between
\* an answer and what follows it there is room for the rest of what was read
\* with it, not for the end of a connection.
Between ==
  /\ \A k \in DOMAIN wire : wire[k].is # "started"
  /\ \A s \in Shell : bash[s] # "late"
  /\ \A m \in Mon : monitor[m] # "open"

\* reconnectLoop: what was not heard is asked again, and onReconnect syncs.
Drop ==
  /\ Between /\ Op("drop")
  /\ wire' = <<>>
  /\ asks' = asks \cup ({wire[k].is : k \in DOMAIN wire} \cap ListAsk) \cup {"resync"}
  /\ UNCHANGED <<rec, shellVars, monitor, early, child, disk, row, listing>>

\* reconnectLoop gives up and failAllPending ends every request: task_list
\* fails, a bash call that waits says it lost contact and marks its command.
\* The connect() that somebody asks for later runs no onReconnect handler.
GiveUp ==
  /\ Between /\ Op("exhaust")
  /\ wire' = <<>> /\ asks' = {} /\ listing' = Idle
  /\ LET cut == {s \in Shell : bash[s] = "open"}
         marked == cut \ early
     IN /\ bash' = [s \in Shell |-> IF s \in cut THEN "background" ELSE bash[s]]
        /\ promised' = promised \cup cut /\ awaited' = awaited \cup marked
        /\ early' = early \ cut
        /\ row' \in IF marked = {} THEN {row}
                   ELSE Prunings([i \in Id |-> IF i \in marked THEN Now("running") ELSE row[i]])
  /\ UNCHANGED <<rec, monitor, child, disk>>

\* A list that fails: syncWithManager returns, and task_list asks on after its
\* sync and fails with its list.
RequestFails(a) ==
  /\ a \in asks /\ Op("fail")
  /\ asks' = (asks \ {a}) \cup IF a = "sync" THEN {"list"} ELSE {}
  /\ listing' = CASE a = "sync" -> [listing EXCEPT !.step = "listing", !.over = {}]
                  [] a = "list" -> Idle
                  [] OTHER -> listing
  /\ UNCHANGED <<rec, wire, shellVars, monitor, early, child, disk, row>>

\* Everything but the manager's tasks and the files is new.
Restart ==
  /\ Op("restart")
  /\ wire' = <<>> /\ asks' = {} /\ early' = {} /\ awaited' = {} /\ listing' = Idle
  /\ bash' = [s \in Shell |-> IF rec[s] = "none" THEN "new" ELSE "done"]
  /\ monitor' = [m \in Mon |-> IF rec[m] = "none" THEN "new" ELSE "closed"]
  /\ child' = [a \in Agent |-> IF child[a].status = "new" THEN child[a] ELSE [status |-> "gone", age |-> 0]]
  /\ row' = [i \in Id |-> NoRow]
  /\ UNCHANGED <<rec, promised, disk>>

Next ==
  \/ \E t \in Task : Start(t) \/ TaskEnds(t) \/ TaskStop(t)
  \/ \E s \in Shell : AnswerWait(s) \/ Background(s)
  \/ \E m \in Mon : Register(m) \/ Timeout(m) \/ Cleanup(m)
  \/ \E a \in Agent : AddChild(a) \/ AdmitChild(a) \/ SettleChild(a)
  \/ \E a \in ListAsk : AnswerList(a) \/ RequestFails(a)
  \/ Receive \/ TaskList \/ ListTasks \/ TimePasses \/ Watchdog
  \/ Drop \/ GiveUp \/ Restart

Spec == Init /\ [][Next]_vars

-----------------------------------------------------------------------------
(* Properties.                                                             *)

\* task_list leaves out nothing that went on from its call to its answer, be it
\* known from an event, a mark, a transition or the manager's list alone, and
\* names nothing twice.
ListComplete ==
  [][ListTasks =>
       \A all \in BOOLEAN : LET shown == Entries(row', all) IN
       /\ \A i \in listing.since \cap Going : \E e \in shown : e[1] = i /\ e[2] \in Active
       /\ \A e, f \in shown : e[1] = f[1] => e = f]_vars

\* It shows nothing as running that had ended when the manager answered its
\* sync, lost exits and late marks and registrations notwithstanding, and no
\* subagent that an earlier process of this session left in the files.
ListHonest ==
  [][ListTasks =>
       \A all \in BOOLEAN : \A e \in Entries(row', all) : e[2] \in Active =>
         /\ e[1] \in Task => e[1] \notin listing.over
         /\ e[1] \in Agent => child[e[1]].status = e[2]]_vars

\* A row still live although its task has ended is looked after: the exit is on
\* its way, or a list that will close the row is, or one is asked for, or the
\* watchdog asks for one.  Otherwise nothing closes it until the user or the
\* model looks: a row is never too old to be shown as live.
Unlooked(t) ==
  /\ rec[t] = "ended" /\ Live(row, t)
  /\ t \notin awaited /\ ~Said("exited", t)
  /\ asks \cap {"sync", "resync"} = {}
  /\ ~\E k \in DOMAIN wire : wire[k].is \in {"sync", "resync"} /\ wire[k].rec[t] = "ended"

\* A backgrounded command's row is always looked after, a monitor's until the
\* list that is to close it fails or the client gives up: not a lost event, an
\* exit before the registration, a stop, a timeout or a plain reconnect.
RowsLookedAfter ==
  [][\A t \in Task : Unlooked(t)' =>
       t \in Mon /\ (Unlooked(t) \/ GiveUp \/ \E a \in ListAsk : RequestFails(a))]_vars

\* index.ts:162 of syncWithManager: "Runs when the user or model looks
\* (task_list, /tasks), after task_stop, after a monitor timeout, and after a
\* reconnect."
NoRowForgotten == \A t \in Task : ~Unlooked(t)

\* task-tools.ts:106: task_list lists the "background work this session
\* started: shell/monitor tasks and subagent children".
SessionListed ==
  [][ListTasks =>
       \A s \in promised : rec[s] = "running" => s \in Ids(Entries(row', TRUE))]_vars
=============================================================================
