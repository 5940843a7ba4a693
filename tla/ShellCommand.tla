----------------------------- MODULE ShellCommand -----------------------------
(***************************************************************************)
(* One shell command, from the call of the bash tool to its answer and to  *)
(* the later looks the model takes at it: the parent's bash                *)
(* (bash-override.ts) with its fall back on a local process, a subagent's  *)
(* bash (child-bash.ts), what both share (shell-exec.ts), the task_output  *)
(* and task_stop tools (task-tools.ts), and the little of the manager they *)
(* rest on (daemon.rs: start, wait, stop, the hard timeout).               *)
(*                                                                         *)
(* Time passes in ticks, and only once every timer that is due has fired.  *)
(* How a task ends is module TaskLifecycle, how requests survive a         *)
(* connection is module Client, and how a marked task wakes the model is   *)
(* module Wakes; here they are reduced to what a tool call can observe.    *)
(***************************************************************************)
EXTENDS Integers, FiniteSets, FiniteSetsExt

CONSTANTS
  Tools,      \* "bash", "background" (run_in_background) and "child"
  Limits,     \* values of the timeout parameter, in ticks
  Budget,     \* foregroundBudgetMs
  Slice,      \* WAIT_SLICE_MS
  Window,     \* SHELL_OUTPUT_WINDOW_BYTES, in units of output
  MaxSize,    \* bound: units of output the command prints
  Ops,        \* faults and rare events that may occur
  MaxFaults   \* bound: how many of them

Off      == -1     \* a timer that is not armed, a number that is not known
NoLimit  == -2     \* no timeout parameter
BadLimit == -3     \* one resolveTimeoutMs refuses

AllOps == {"unavailable",   \* ensureAvailable() says no
           "drop",          \* the connection breaks
           "crash",         \* the daemon dies
           "timeout",       \* a request's own timer fires, its answer never sent
           "no-shell",      \* a local shell cannot be spawned
           "session-end"}

ShellConstants ==
  /\ Tools \subseteq {"bash", "background", "child"}
  /\ Limits \subseteq Nat \ {0} /\ {Budget, Slice, Window} \subseteq Nat \ {0}
  /\ {MaxSize, MaxFaults} \subseteq Nat /\ Ops \subseteq AllOps

ASSUME ShellAssumption == ShellConstants

VARIABLES
  call,      \* the call's parameters
  pc,        \* which await the tool stands at
  answer,    \* what the tool has told the model
  aborted,   \* signal.aborted
  marked,    \* markNotifyOnExit was called
  task,      \* the command as the manager runs it
  runs,      \* how often the command has been started, in any way
  limitLeft, \* the manager's timeout for the task
  waitLeft,  \* the budget of the `wait` the daemon holds
  budget,    \* the budget_ms of that request
  ownLeft,   \* child-bash's `deadline - now`
  stop,      \* the `stop` an abort sends: on its way, or lost
  link,      \* the client's connection: on, off (reconnecting), gone
  daemon,    \* the manager process
  read,      \* collectOutput: where it began and where its cursor stands
  local,     \* executeLocal's process
  look,      \* task_output: lastRunningSize, next_cursor, the last refusal
  faults

netVars   == <<link, daemon>>
timers    == <<limitLeft, waitLeft, budget, ownLeft>>
callVars  == <<call, pc, answer, aborted, marked>>
vars == <<call, pc, answer, aborted, marked, task, runs, limitLeft, waitLeft, budget,
          ownLeft, stop, link, daemon, read, local, look, faults>>

Call == [tool : Tools, limit : Limits \cup {NoLimit, BadLimit},
         idle : BOOLEAN]   \* a bare sleep or idle loop
Awaits  == {"ensuring", "starting", "waiting", "stopping", "collecting", "asking"}
Answers == {"none", "refused", "unavailable", "output", "exit", "killed", "timed out",
            "aborted", "background", "lost", "error"}

TypeOK ==
  /\ call \in Call
  /\ pc \in Awaits \cup {"new", "local", "told"}
  /\ answer \in Answers /\ (answer = "none") <=> (pc # "told")
  /\ {aborted, marked} \subseteq BOOLEAN
  /\ task \in [cmd : {"none", "running", "ended"}, code : {"none", "zero", "other", "signal"},
               kill : {"none", "tool", "timeout"}, lost : BOOLEAN, known : BOOLEAN,
               size : 0..MaxSize]
  /\ runs \in 0..(MaxFaults + 2)
  /\ limitLeft \in Limits \cup (Off..Max(Limits \cup {0}))
  /\ waitLeft \in Off..Max({Budget, Slice}) /\ budget \in 0..Max({Budget, Slice})
  /\ ownLeft \in Off..Max(Limits \cup {0})
  /\ stop \in {"none", "sent", "lost"}
  /\ link \in {"on", "off", "gone"} /\ daemon \in {"up", "down"}
  /\ read \in [from : Off..MaxSize, to : Off..MaxSize]
  /\ local \in [at : {"none", "running", "ended"}, heard : BOOLEAN,
                cut : SUBSET {"abort", "timeout"}, left : Off..Max(Limits \cup {0})]
  /\ look \in [size : Off..MaxSize, next : 0..MaxSize, refused : {"none", "all read", "unread"}]
  /\ faults \in 0..MaxFaults

Init ==
  /\ call \in Call
  /\ pc = "new" /\ answer = "none" /\ aborted = FALSE /\ marked = FALSE
  /\ task = [cmd |-> "none", code |-> "none", kill |-> "none", lost |-> FALSE,
             known |-> FALSE, size |-> 0]
  /\ runs = 0 /\ limitLeft = Off /\ waitLeft = Off /\ budget = 0 /\ ownLeft = Off
  /\ stop = "none" /\ link = "on" /\ daemon = "up"
  /\ read = [from |-> Off, to |-> Off]
  /\ local = [at |-> "none", heard |-> FALSE, cut |-> {}, left |-> Off]
  /\ look = [size |-> Off, next |-> 0, refused |-> "none"]
  /\ faults = 0

Fault(op) == op \in Ops /\ faults < MaxFaults /\ faults' = faults + 1

Parent   == call.tool # "child"
Limited  == call.limit \in Limits
Reached  == link = "on" /\ daemon = "up"   \* a request is handled and answered

-----------------------------------------------------------------------------
(* Answers.                                                                *)

Tell(a) == pc' = "told" /\ answer' = a

\* formatBackgroundNotice, "Lost contact ...": the parent is to be woken.
Leave(a) == Tell(a) /\ marked' = TRUE

-----------------------------------------------------------------------------
(* The local fall back (executeLocal).                                     *)

\* The listener is attached to a signal that may have fired already, and
\* then never hears it.
SpawnLocal ==
  /\ pc' = "local" /\ UNCHANGED answer
  /\ local' = [at |-> "running", heard |-> ~aborted, cut |-> {},
               left |-> IF Limited THEN call.limit ELSE Off]
  /\ runs' = runs + 1

RunLocal ==
  \/ /\ call.limit = BadLimit
     /\ Tell("refused")
     /\ UNCHANGED <<local, runs>>
  \/ /\ call.limit # BadLimit
     /\ SpawnLocal
  \/ /\ call.limit # BadLimit /\ "no-shell" \in Ops
     /\ Tell("error")
     /\ UNCHANGED <<local, runs>>

LocalTimeout ==
  /\ local.at = "running" /\ local.left = 0
  /\ local' = [local EXCEPT !.left = Off, !.cut = @ \cup {"timeout"}]
  /\ UNCHANGED <<callVars, task, runs, timers, stop, netVars, read, look, faults>>

\* "close": the flags are read in this order, whatever the exit was.
LocalAnswer(code) ==
  IF "abort" \in local.cut THEN "aborted"
  ELSE IF "timeout" \in local.cut THEN "timed out"
  ELSE IF code = "signal" THEN "killed"
  ELSE IF code = "zero" THEN "output" ELSE "exit"

\* The shell and all that hold its pipes end, of SIGTERM or otherwise; no
\* SIGKILL follows, and nothing else ends the wait.
LocalEnds ==
  /\ local.at = "running"
  /\ local' = [local EXCEPT !.at = "ended", !.left = Off]
  /\ \E code \in {"zero", "other", "signal"} : Tell(LocalAnswer(code))
  /\ UNCHANGED <<call, aborted, marked, task, runs, timers, stop, netVars, read, look, faults>>

-----------------------------------------------------------------------------
(* The bash tools.                                                         *)

\* execute up to its first await: bareSleepError, getClient.
Execute ==
  /\ pc = "new"
  /\ \/ call.idle /\ Tell("refused")
     \/ ~call.idle /\ pc' = "ensuring" /\ UNCHANGED answer
  /\ UNCHANGED <<call, aborted, marked, task, runs, timers, stop, netVars, read, local, look, faults>>

Ensured ==
  /\ pc = "ensuring" /\ Reached
  /\ \/ call.limit = BadLimit /\ Tell("refused")
     \/ call.limit # BadLimit /\ pc' = "starting" /\ UNCHANGED answer
  /\ UNCHANGED <<call, aborted, marked, task, runs, timers, stop, netVars, read, local, look, faults>>

\* The parent's bash runs the command itself; a child's has no fall back.
Unavailable ==
  /\ pc = "ensuring"
  /\ \/ Parent /\ (link = "gone" \/ "unavailable" \in Ops) /\ RunLocal
     \/ /\ ~Parent /\ (link = "gone" \/ "unavailable" \in Ops)
        /\ Tell("unavailable")
        /\ UNCHANGED <<local, runs>>
  /\ UNCHANGED <<call, aborted, marked, task, timers, stop, netVars, read, look, faults>>

\* handle_start: the daemon spawns the command once per key.
Spawn ==
  /\ pc = "starting" /\ Reached /\ ~task.known
  /\ task' = [task EXCEPT !.cmd = "running", !.code = "none", !.kill = "none",
                          !.lost = FALSE, !.known = TRUE]
  /\ limitLeft' = IF Limited THEN call.limit ELSE Off
  /\ runs' = runs + 1
  /\ UNCHANGED <<callVars, waitLeft, budget, ownLeft, stop, netVars, read, local, look, faults>>

NextBudget(left) ==
  IF Parent THEN Budget
  ELSE IF left = Off THEN Slice ELSE Min({Slice, Max({1, left})})

Arm(left) == budget' = NextBudget(left) /\ waitLeft' = Off

\* Mutant: the listener is told, the task is not.
AbortsUnsent == Tell("aborted") /\ UNCHANGED stop

\* withAbort's handler, and its way with a signal that has fired already.
\* The stop is not awaited, and its failure is ignored.
Aborts == stop' = (IF link = "gone" THEN "lost" ELSE "sent") /\ Tell("aborted")

\* The first wait begins, unless the user has aborted meanwhile.
BeginWait(left) ==
  /\ ownLeft' = left /\ Arm(left)
  /\ IF aborted THEN Aborts ELSE pc' = "waiting" /\ UNCHANGED <<answer, stop>>

\* The parent's start is answered: run_in_background returns at once.
ParentStarted ==
  /\ pc = "starting" /\ Reached /\ task.known /\ Parent
  /\ IF call.tool = "background"
     THEN Leave("background") /\ UNCHANGED <<budget, waitLeft, ownLeft, stop>>
     ELSE BeginWait(Off) /\ UNCHANGED marked
  /\ UNCHANGED <<call, aborted, task, runs, limitLeft, netVars, read, local, look, faults>>

\* A subagent's: its deadline is measured from here.
ChildStartedAt(left) ==
  /\ pc = "starting" /\ Reached /\ task.known /\ ~Parent
  /\ BeginWait(left)
  /\ UNCHANGED <<call, aborted, marked, task, runs, limitLeft, netVars, read, local, look, faults>>

\* Mutant: the deadline is measured from before the start was sent.
ChildStartedEarly == ChildStartedAt(IF Limited THEN call.limit - 1 ELSE Off)

ChildStarted == ChildStartedAt(IF Limited THEN call.limit ELSE Off)

\* handle_wait holds the request.
HandleWait ==
  /\ pc = "waiting" /\ Reached /\ waitLeft = Off /\ task.cmd = "running"
  /\ waitLeft' = budget
  /\ UNCHANGED <<callVars, task, runs, limitLeft, budget, ownLeft, stop, netVars, read, local, look, faults>>

\* done: true. collectOutput begins with its probe.
WaitDone ==
  /\ pc = "waiting" /\ Reached /\ task.cmd = "ended"
  /\ pc' = "collecting" /\ waitLeft' = Off
  /\ UNCHANGED <<call, answer, aborted, marked, task, runs, limitLeft, budget, ownLeft, stop, netVars,
                 read, local, look, faults>>

\* done: false.  A timer armed earlier that is due as well fires before it.
Expired == pc = "waiting" /\ Reached /\ waitLeft = 0 /\ limitLeft # 0 /\ task.cmd = "running"

\* Mutant: the parent waits another slice, as a subagent's bash does.
MoveToBackgroundNever ==
  /\ Expired /\ Parent
  /\ Arm(Off)
  /\ UNCHANGED <<call, pc, answer, aborted, marked, task, runs, limitLeft, ownLeft, stop,
                 netVars, read, local, look, faults>>

MoveToBackground ==
  /\ Expired /\ Parent
  /\ Leave("background")
  /\ waitLeft' = Off
  /\ UNCHANGED <<call, aborted, task, runs, limitLeft, budget, ownLeft, stop, netVars,
                 read, local, look, faults>>

WaitAgain ==
  /\ Expired /\ ~Parent
  /\ IF ownLeft = 0 THEN pc' = "stopping" /\ waitLeft' = Off /\ UNCHANGED budget
                    ELSE Arm(ownLeft) /\ UNCHANGED pc
  /\ UNCHANGED <<call, answer, aborted, marked, task, runs, limitLeft, ownLeft, stop, netVars,
                 read, local, look, faults>>

\* request_kill keeps the first reason; a task that has ended keeps its status.
Killed(t, why) ==
  IF t.cmd = "running" /\ t.kill = "none" THEN [t EXCEPT !.kill = why] ELSE t

\* A child's own deadline: the stop is awaited, its failure ignored, and what
\* there is of the output is told with the timeout.
StopAtDeadline ==
  /\ pc = "stopping"
  /\ \/ Reached /\ task' = Killed(task, "timeout") /\ UNCHANGED faults
     \/ link = "gone" /\ UNCHANGED <<task, faults>>
     \/ Fault("timeout") /\ UNCHANGED task
  /\ Tell("timed out")
  /\ UNCHANGED <<call, aborted, marked, runs, timers, stop, netVars, read, local, look>>

\* No exit code: it was killed, unless the manager says "completed".
Completed == task.code = "none" /\ task.kill = "none" /\ ~task.lost

Finished ==
  \/ (task.code = "zero" \/ Completed) /\ Tell("output")
  \/ task.code = "other" /\ Tell("exit")
  \/ task.code \in {"none", "signal"} /\ ~Completed /\ pc' = "asking" /\ UNCHANGED answer

\* collectOutput: the probe's total_size fixes where it begins, then pages of
\* at most a frame until one reaches total_size.
Collect ==
  /\ pc = "collecting" /\ Reached
  /\ \/ /\ read.to = Off
        /\ LET first == Max({0, task.size - Window})
           IN read' = [from |-> first, to |-> first]
        /\ UNCHANGED <<pc, answer>>
     \/ /\ read.to # Off
        /\ \E next \in (IF read.to = task.size THEN {read.to} ELSE (read.to + 1)..task.size) :
             /\ read' = [read EXCEPT !.to = next]
             /\ IF next > read.to /\ next < task.size THEN UNCHANGED <<pc, answer>> ELSE Finished
  /\ UNCHANGED <<call, aborted, marked, task, runs, timers, stop, netVars, local, look, faults>>

\* killedStatus: a list that fails only costs the reason.
KilledStatus ==
  /\ pc = "asking"
  /\ \/ /\ Reached
        /\ Tell(IF task.kill = "timeout" /\ ~task.lost /\ Limited THEN "timed out" ELSE "killed")
        /\ UNCHANGED faults
     \/ link = "gone" /\ Tell("killed") /\ UNCHANGED faults
     \/ Fault("timeout") /\ Tell("killed")
  /\ UNCHANGED <<call, aborted, marked, task, runs, timers, stop, netVars, read, local, look>>

\* The awaited request rejects: the parent's bash runs the command itself, or
\* tells the model that it may still run; a subagent's only throws.
ParentRejected ==
  /\ Parent
  /\ \/ pc = "starting" /\ RunLocal /\ UNCHANGED marked
     \/ pc = "waiting" /\ Leave("lost") /\ UNCHANGED <<local, runs>>
     \/ pc = "collecting" /\ Tell("error") /\ UNCHANGED <<marked, local, runs>>

ChildRejected ==
  /\ ~Parent
  /\ \/ pc \in {"starting", "collecting"} /\ Tell("error")
     \/ pc = "waiting" /\ Tell("lost")
  /\ UNCHANGED <<marked, local, runs>>

Rejected ==
  /\ ParentRejected \/ ChildRejected
  /\ waitLeft' = Off
  /\ UNCHANGED <<call, aborted, task, limitLeft, budget, ownLeft, stop, netVars, read, look>>

LinkGone == link = "gone" /\ Rejected /\ UNCHANGED faults

RequestTimesOut == link # "gone" /\ Fault("timeout") /\ Rejected

-----------------------------------------------------------------------------
(* The user aborts the call.                                               *)

Abort ==
  /\ ~aborted /\ pc \in Awaits \cup {"local"}
  /\ aborted' = TRUE
  /\ IF pc = "waiting"
     THEN Aborts /\ waitLeft' = Off
     ELSE UNCHANGED <<pc, answer, stop, waitLeft>>
  /\ local' = IF pc = "local" /\ local.heard THEN [local EXCEPT !.cut = @ \cup {"abort"}] ELSE local
  /\ UNCHANGED <<call, marked, task, runs, limitLeft, budget, ownLeft, netVars, read, look, faults>>

-----------------------------------------------------------------------------
(* Later looks: task_output with the poll guard; and stops by others.      *)

CanLook == answer \in {"background", "lost"} /\ Reached /\ task.known

\* A read from the returned next_cursor; guardPoll runs after the read.
TaskOutput ==
  /\ CanLook
  /\ \E next \in (IF look.next = task.size THEN {look.next} ELSE (look.next + 1)..task.size) :
       look' = IF task.cmd # "running" THEN [size |-> Off, next |-> next, refused |-> "none"]
               ELSE IF look.size = task.size
               THEN [look EXCEPT !.refused = IF look.next = task.size THEN "all read" ELSE "unread"]
               ELSE [size |-> task.size, next |-> next, refused |-> "none"]
  /\ UNCHANGED <<callVars, task, runs, timers, stop, netVars, read, local, faults>>

\* task_stop, /tasks or the CLI, at any moment, during the call as well: for
\* a subagent's command it is the parent's tool.
TaskStop ==
  /\ task.cmd # "none" /\ daemon = "up"
  /\ task' = Killed(task, "tool")
  /\ UNCHANGED <<callVars, runs, timers, stop, netVars, read, local, look, faults>>

-----------------------------------------------------------------------------
(* The manager and the connection.                                         *)

Writes ==
  /\ task.cmd = "running" /\ task.size < MaxSize
  /\ task' = [task EXCEPT !.size = @ + 1]
  /\ UNCHANGED <<callVars, runs, timers, stop, netVars, read, local, look, faults>>

Ended(code) ==
  /\ task' = [task EXCEPT !.cmd = "ended", !.code = code]
  /\ limitLeft' = Off
  /\ UNCHANGED <<callVars, runs, waitLeft, budget, ownLeft, stop, netVars, read, local, look, faults>>

\* The command ends by itself or of a stranger's signal; an outcome nobody
\* saw has no code.
EndsItself ==
  /\ task.cmd = "running" /\ daemon = "up"
  /\ \E code \in {"zero", "other", "signal", "none"} : Ended(code)

\* SIGTERM, which the command may handle, then SIGKILL.
Dies ==
  /\ task.cmd = "running" /\ daemon = "up" /\ task.kill # "none"
  /\ Ended("signal")

\* timeout_ms
LimitReached ==
  /\ limitLeft = 0
  /\ task' = Killed(task, "timeout") /\ limitLeft' = Off
  /\ UNCHANGED <<callVars, runs, waitLeft, budget, ownLeft, stop, netVars, read, local, look, faults>>

\* handle_stop, for the stop an abort sent and nobody waits for.
StopHandled ==
  /\ stop = "sent" /\ Reached
  /\ task' = Killed(task, "tool") /\ stop' = "none"
  /\ UNCHANGED <<callVars, runs, timers, netVars, read, local, look, faults>>

\* Its own timer fires first, or an upgrade that fails cancels it.
StopLost ==
  /\ stop = "sent" /\ Fault("timeout")
  /\ stop' = "lost"
  /\ UNCHANGED <<callVars, task, runs, timers, netVars, read, local, look>>

\* failAllPending, and close().
Discarded == stop' = IF stop = "sent" THEN "lost" ELSE stop

Drop ==
  /\ link = "on" /\ Fault("drop")
  /\ link' = "off" /\ waitLeft' = Off
  /\ UNCHANGED <<callVars, task, runs, limitLeft, budget, ownLeft, stop, daemon, read, local, look>>

\* The guardians end its tasks before the next daemon has read their records
\* (which name no code and no reason); what it knew of a key is gone.
Crash ==
  /\ daemon = "up" /\ Fault("crash")
  /\ daemon' = "down" /\ link' = IF link = "gone" THEN "gone" ELSE "off"
  /\ waitLeft' = Off /\ limitLeft' = Off
  /\ task' = [task EXCEPT !.cmd = IF @ = "running" THEN "ended" ELSE @,
                          !.lost = @ \/ task.cmd = "running",
                          !.known = @ /\ pc # "starting"]
  /\ UNCHANGED <<callVars, runs, budget, ownLeft, stop, read, local, look>>

\* reconnectLoop: the requests are sent again, or all of them rejected.
Reconnect ==
  /\ link = "off"
  /\ link' = "on" /\ daemon' = "up"
  /\ UNCHANGED <<callVars, task, runs, timers, stop, read, local, look, faults>>

GiveUp ==
  /\ link = "off"
  /\ link' = "gone" /\ Discarded
  /\ UNCHANGED <<callVars, task, runs, timers, daemon, read, local, look, faults>>

\* session_shutdown: shutdown_session if the client is connected, then close().
SessionEnds ==
  /\ link # "gone" /\ Fault("session-end")
  /\ task' = IF Reached THEN Killed(task, "tool") ELSE task
  /\ link' = "gone" /\ waitLeft' = Off /\ Discarded
  /\ UNCHANGED <<callVars, runs, limitLeft, budget, ownLeft, daemon, read, local, look>>

Due == {limitLeft, waitLeft, local.left}

Less(n) == IF n > 0 THEN n - 1 ELSE n

Tick ==
  /\ 0 \notin Due /\ Due # {Off}
  /\ limitLeft' = Less(limitLeft) /\ waitLeft' = Less(waitLeft) /\ ownLeft' = Less(ownLeft)
  /\ local' = [local EXCEPT !.left = Less(@)]
  /\ UNCHANGED <<callVars, task, runs, budget, stop, netVars, read, look, faults>>

-----------------------------------------------------------------------------
Answering == \/ Execute \/ Ensured \/ Unavailable \/ Spawn \/ ParentStarted \/ ChildStarted
             \/ HandleWait \/ WaitDone \/ MoveToBackground \/ WaitAgain \/ StopAtDeadline
             \/ Collect \/ KilledStatus \/ LinkGone \/ LocalTimeout
Manager == LimitReached \/ StopHandled \/ Dies \/ (Reconnect \/ GiveUp)

Next ==
  \/ Answering \/ Manager \/ Tick
  \/ RequestTimesOut \/ Abort \/ LocalEnds \/ EndsItself \/ Writes
  \/ TaskOutput \/ TaskStop \/ StopLost \/ Drop \/ Crash \/ SessionEnds

Spec == Init /\ [][Next]_vars

\* Nothing makes a command end, nor a user abort a call.
FairSpec ==
  /\ Spec
  /\ WF_vars(Answering) /\ WF_vars(Manager) /\ WF_vars(Tick)

-----------------------------------------------------------------------------
(* Properties.                                                             *)

\* Where the managed command may be when the tool has said that it ended.
WholeTail == read.to = task.size /\ read.from <= Max({0, task.size - Window})

\* What the model is told of a command is true of it (bash-override.ts
\* 385-448, child-bash.ts 136-178): a result is told only of a command that
\* has ended, with the whole window of its output read; a timeout only when
\* the manager's own timer for the limit has run out, and the command has been
\* cut by it (a subagent's may also be one that others had stopped and that
\* was still there at its limit); a command the parent leaves running is one
\* whose end will wake it; and an aborted one has ended, is being killed, or
\* has a stop that is on its way or was lost on it.  The timeout is the
\* delicate part: a subagent's bash measures it in the extension while the
\* manager measures its own.
AnswersTrue ==
  pc = "told" =>
    /\ answer \in {"output", "exit", "killed"} /\ local.at = "none" =>
         task.cmd = "ended" /\ WholeTail
    /\ answer = "timed out" =>
         IF local.at = "none"
         THEN limitLeft = Off /\ (task.kill = "timeout" \/ (~Parent /\ task.kill = "tool"))
         ELSE "timeout" \in local.cut
    /\ answer \in {"background", "lost"} /\ Parent => marked
    /\ answer = "aborted" /\ local.at = "none" =>
         task.cmd # "running" \/ task.kill # "none" \/ stop # "none"

\* A managed call that may not take for ever is answered whatever the command,
\* the daemon and the connection do: the parent's within its budget, a
\* subagent's once its limit is over or its user aborts ("degrade, do not
\* hang").  The local fall back is left out: nothing bounds its wait.
Bounded == Parent \/ Limited \/ aborted
CallAnswers == (pc \in Awaits /\ Bounded) ~> (pc \in {"told", "local"})

\* A command whose call was aborted does end, even one aborted before its wait
\* began or while the connection was down, unless the stop itself is lost: by
\* a client that gave up or was closed, by its own timer, or by an upgrade
\* that failed.
AbortStops == (answer = "aborted" /\ local.at = "none") ~> (task.cmd # "running" \/ stop = "lost")

\* Not true of the code (bash-override.ts 384, 388, child-bash.ts 144): what
\* is told as stopped has a stop that is on its way or has arrived.
AbortHonest ==
  answer = "aborted" /\ local.at = "none" /\ task.cmd = "running" =>
    task.kill # "none" \/ stop = "sent"

\* Not true of the code (child-bash.ts 156-161): what is told as timed out has
\* been ended by its timeout.
TimeoutHonest == answer = "timed out" /\ local.at = "none" => task.kill = "timeout"

\* Not true of the code (task-tools.ts guardPoll, 214-220): a read is refused
\* as "No new output ... since your last read" only when all has been read.
RefusalHonest == look.refused # "unread"

\* Not true of the code (bash-override.ts 363-366): a command whose start was
\* refused an answer, but took place, is run again beside it.
RunsOnce == runs <= 1

\* Not true of the code (bash-override.ts 214, 346): the fall back heeds an
\* abort that came before it.
AbortHeeded == (aborted /\ pc = "told") => answer \notin {"output", "exit"}

\* Not true of the code (child-bash.ts 151-154): a subagent's bash that has
\* answered leaves no command behind that nobody has asked to stop.
ChildLeavesNothing ==
  pc = "told" /\ ~Parent /\ task.cmd = "running" => task.kill # "none" \/ stop # "none"
===============================================================================
