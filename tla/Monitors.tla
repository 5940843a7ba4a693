------------------------------- MODULE Monitors -------------------------------
(***************************************************************************)
(* One monitor: a command whose lines wake the model.  The manager pushes  *)
(* what it prints as output events (daemon.rs), over a connection that may *)
(* be lost or handed to an upgraded daemon; the extension's registry       *)
(* batches and throttles the lines and ends the monitor once               *)
(* (monitor.ts, monitor-batching.ts); the NotifyCenter wakes the model,    *)
(* holds what is not worth a turn, and of the events that come while the   *)
(* model works shows the last and counts the others (notify.ts).           *)
(*                                                                         *)
(* A line is its number, an output event a range of lines: cursors count   *)
(* lines, not bytes.  The token bucket and the saturation window appear as *)
(* the verdicts they give.  Frames that arrive in one socket read are all  *)
(* handled before the promises they resolve go on: `jobs` holds those      *)
(* continuations, and no timer or tool call comes between.                 *)
(***************************************************************************)
EXTENDS Naturals, Sequences, FiniteSets, SequencesExt

CONSTANTS
  MaxLines,    \* bound: lines the command prints
  Ops,         \* faults and requests that may occur
  MaxFaults,   \* bound: how many connections are lost
  MaxRare      \* bound: how many of the other things in Ops happen

AllOps == {"drop",      \* the connection is lost, the manager lives
           "upgrade",   \* the manager execs its successor
           "exhaust",   \* the reconnect window passes
           "limit",     \* the rate limiter refuses a batch
           "timeout",   \* the monitor's own timer
           "stop"}      \* task_stop

ASSUME MonitorsAssumption ==
  Ops \subseteq AllOps /\ {MaxLines, MaxFaults, MaxRare} \subseteq Nat

VARIABLES
  over,      \* the manager's record of the command
  printed,   \* lines it has printed
  fanned,    \* delivered_cursor: lines the fanout has pushed
  watching,  \* our connection is among the task's watchers
  carried,   \* watch_sessions: where an upgraded daemon resumes, or None
  unsaid,    \* finalize_exit has the record written, task_exited not pushed
  link, wire, asks,
  jobs,      \* continuations the last socket read has queued
  s,         \* the registry, the monitor's entry and the NotifyCenter
  gap,       \* lines the manager will not send again
  deaf,      \* the monitor's end can no longer be heard
  faults, rare

taskVars == <<over, printed, unsaid>>
fanVars  == <<fanned, watching, carried, gap>>
wireVars == <<link, wire, asks, faults>>
vars == <<over, printed, fanned, watching, carried, unsaid, link, wire, asks, jobs, s,
          gap, deaf, faults, rare>>

None  == MaxLines + 1
Lines == 1..MaxLines
Span(from, to) == [i \in 1..(to - from) |-> from + i]   \* the lines after `from`

\* Requests in flight, a rewatch and its list by the loss they follow.
Ask == {<<what, 0>> : what \in {"start", "watch", "stop", "task_stop", "look"}}
         \cup {<<what, n>> : what \in {"watch", "list"}, n \in 1..MaxFaults}

Output(from, to) == [is |-> "output", from |-> from, to |-> to]
Exited(how)      == [is |-> "exited", how |-> how]
Answer(a, how)   == [is |-> "answer", to |-> a, how |-> how]
Hello            == [is |-> "hello"]

Ended == {"clean", "other"}   \* exit code 0 by itself; anything else
Event == "event"
Ends  == {"exited", "timeout", "limit"}
Item(kind, lines, more, drops, wakes) ==
  [kind |-> kind, lines |-> lines, more |-> more, drops |-> drops, wakes |-> wakes]
NoEvents == [lines |-> <<>>, more |-> <<>>, drops |-> <<>>, quiet |-> FALSE]

IsLines(q) == q \in Seq(Lines)
IsItems(q) == \A i \in DOMAIN q : /\ q[i].kind \in Ends \cup {Event} /\ q[i].wakes \in BOOLEAN
                                  /\ IsLines(q[i].lines) /\ IsLines(q[i].more)
                                  /\ IsLines(q[i].drops)

TypeOK ==
  /\ over \in {"unborn", "running", "killing"} \cup Ended
  /\ printed \in 0..MaxLines /\ fanned \in 0..printed
  /\ carried \in 0..fanned \cup {None} /\ (carried # None => ~watching)
  /\ unsaid => over \in Ended
  /\ link \in {"up", "closing", "down", "unavailable", "hello", "rehello"}
  /\ link \in {"down", "unavailable"} => wire = <<>> /\ jobs = <<>> /\ ~watching
  /\ asks \subseteq Ask
  /\ s.entry \in {"starting", "live", "gone"} /\ s.cursor \in 0..fanned
  /\ s.entry = "gone" => s.buffer = <<>>
  /\ s.entry = "live" => (s.stopped <=> s.stopping # "none")
  /\ IsLines(s.buffer) /\ IsLines(s.drops) /\ IsLines(s.taken)
  /\ IsLines(s.pend.lines) /\ IsLines(s.pend.more)
  /\ IsItems(s.held) /\ IsItems(s.told)
  /\ s.agent \in {"idle", "starting", "busy"}
  /\ gap \subseteq Lines /\ faults \in 0..MaxFaults /\ rare \in 0..MaxRare

Init ==
  /\ over = "unborn" /\ printed = 0 /\ fanned = 0 /\ watching = FALSE
  /\ carried = None /\ unsaid = FALSE
  /\ link = "up" /\ wire = <<>> /\ asks = {<<"start", 0>>} /\ jobs = <<>>
  /\ s = [entry |-> "starting", early |-> <<>>, earlyExit |-> "none",
          cursor |-> 0, recovering |-> FALSE, queued |-> <<>>,
          buffer |-> <<>>, drops |-> <<>>, evented |-> FALSE,
          stopped |-> FALSE, stopping |-> "none", asked |-> FALSE, taken |-> <<>>,
          agent |-> "busy", runPending |-> FALSE, held |-> <<>>, pend |-> NoEvents,
          told |-> <<>>]
  /\ gap = {} /\ deaf = FALSE /\ faults = 0 /\ rare = 0

-----------------------------------------------------------------------------
(* NotifyCenter (notify.ts).  Each operator gives the state it leaves.     *)

Idle(x) == x.agent # "busy"   \* ctx.isIdle(): a turn that is starting counts

\* deliver: a trigger or a steer; either way a run is now pending
Deliver(x, i) ==
  [x EXCEPT !.told = Append(@, [i EXCEPT !.wakes = TRUE]), !.runPending = TRUE,
            !.agent = IF @ = "idle" THEN "starting" ELSE @]

\* notify, passive
Passive(x, i) ==
  IF x.runPending \/ ~Idle(x) THEN [x EXCEPT !.held = Append(@, i)]
                              ELSE [x EXCEPT !.told = Append(@, i)]

\* The mutant keeps what it has delivered.
FlushMonitorAgain(x, quiet) ==
  LET i == Item(Event, x.pend.lines, x.pend.more, x.pend.drops, FALSE)
  IN IF x.pend.lines = <<>> THEN x
     ELSE IF quiet \/ x.pend.quiet THEN Passive(x, i) ELSE Deliver(x, i)

\* flushMonitor: "N events, last: ...".  The last event is shown; the others,
\* `more`, are only in the count.
FlushMonitor(x, quiet) ==
  LET y == [x EXCEPT !.pend = NoEvents]
      i == Item(Event, x.pend.lines, x.pend.more, x.pend.drops, FALSE)
  IN IF x.pend.lines = <<>> THEN x
     ELSE IF quiet \/ x.pend.quiet THEN Passive(y, i) ELSE Deliver(y, i)

\* notify: the monitor's own notice, its coalesced events first
Notify(x, i, passive, quiet) ==
  LET y == FlushMonitor(x, quiet) IN IF passive THEN Passive(y, i) ELSE Deliver(y, i)

\* The mutant starts the count anew.
MonitorEventUncounted(x, lines, drops, quiet) ==
  LET y == [x EXCEPT !.pend = [lines |-> lines, more |-> <<>>, drops |-> @.drops \o drops,
                               quiet |-> @.quiet \/ quiet]]
  IN IF Idle(x) /\ x.pend.lines = <<>> /\ ~quiet
       THEN Deliver(x, Item(Event, lines, <<>>, drops, FALSE))
     ELSE IF Idle(x) /\ ~quiet THEN FlushMonitor(y, FALSE) ELSE y

\* notifyMonitorEvent: coalescing keeps the last event, counts the earlier
\* ones and adds up what the limiter dropped.
MonitorEvent(x, lines, drops, quiet) ==
  LET y == [x EXCEPT !.pend = [lines |-> lines, more |-> @.more \o @.lines,
                               drops |-> @.drops \o drops, quiet |-> @.quiet \/ quiet]]
  IN IF Idle(x) /\ x.pend.lines = <<>> /\ ~quiet
       THEN Deliver(x, Item(Event, lines, <<>>, drops, FALSE))
     ELSE IF Idle(x) /\ ~quiet THEN FlushMonitor(y, FALSE) ELSE y

Settled(x) ==
  LET y == FlushMonitor([x EXCEPT !.runPending = FALSE], FALSE)
  IN IF y.runPending THEN y ELSE [y EXCEPT !.told = @ \o y.held, !.held = <<>>]

-----------------------------------------------------------------------------
(* The registry (monitor.ts).                                              *)

\* onBatch, on what LineBatcher emits; `ok` and `full` are what the limiter and
\* the saturation window say.  autoStop marks the entry before it awaits.
OnBatch(x, ok, full) ==
  LET y == [x EXCEPT !.buffer = <<>>]
  IN IF x.buffer = <<>> \/ x.stopped THEN y
     ELSE IF ok THEN MonitorEvent([y EXCEPT !.drops = <<>>, !.evented = TRUE],
                                  x.buffer, x.drops, x.asked)
     ELSE IF full /\ ~x.asked
       THEN [y EXCEPT !.drops = @ \o x.buffer, !.stopped = TRUE, !.stopping = "limit"]
     ELSE [y EXCEPT !.drops = @ \o x.buffer]

\* The mutant leaves the batcher its lines and its timer.
CleanupUndisposed(x) == [x EXCEPT !.entry = "gone", !.stopped = TRUE]

Cleanup(x) == [x EXCEPT !.entry = "gone", !.stopped = TRUE, !.buffer = <<>>]

\* The mutant announces the exit of a monitor that a stop has silenced.
HandleExitTwice(x, how, soon, ok, full) ==
  LET b == OnBatch(x, ok, full)
  IN IF x.entry = "starting" THEN [x EXCEPT !.earlyExit = how]
     ELSE IF x.entry = "gone" THEN x
     ELSE Notify(Cleanup(b), Item("exited", <<>>, <<>>, b.drops, FALSE),
                 (how = "clean" /\ b.evented /\ soon) \/ b.asked, b.asked)

\* handleExit: an unknown id is kept until start() claims it.  The exit of a
\* monitor already stopped is not announced; one that an event just caused, or
\* the model asked for, starts no turn.
HandleExit(x, how, soon, ok, full) ==
  LET b == OnBatch(x, ok, full)
  IN IF x.entry = "starting" THEN [x EXCEPT !.earlyExit = how]
     ELSE IF x.entry = "gone" THEN x
     ELSE IF b.stopped THEN Cleanup(b)
     ELSE Notify(Cleanup(b), Item("exited", <<>>, <<>>, b.drops, FALSE),
                 (how = "clean" /\ b.evented /\ soon) \/ b.asked, b.asked)

\* acceptOutput: what the cursor has passed is cut off; a disposed batcher
\* takes nothing.
Accept(x, o) ==
  LET new == Span(IF o.from < x.cursor THEN x.cursor ELSE o.from, o.to)
      y   == [x EXCEPT !.cursor = o.to]
  IN IF o.to <= x.cursor THEN x
     ELSE IF x.entry = "gone" THEN y
     ELSE [y EXCEPT !.buffer = @ \o new, !.taken = @ \o new]

AcceptAll(x, os) ==
  LET after[n \in 0..Len(os)] == IF n = 0 THEN x ELSE Accept(after[n - 1], os[n])
  IN after[Len(os)]

HandleOutput(x, o) ==
  CASE x.entry = "starting"              -> [x EXCEPT !.early = Append(@, o)]
    [] x.entry = "live" /\ x.recovering  -> [x EXCEPT !.queued = Append(@, o)]
    [] x.entry = "live" /\ ~x.recovering -> Accept(x, o)
    [] OTHER -> x

\* Array.sort by cursor: stable
ByCursor(q) ==
  LET Before(k) == {j \in DOMAIN q : q[j].to < q[k].to \/ (q[j].to = q[k].to /\ j < k)}
  IN [i \in DOMAIN q |-> q[CHOOSE k \in DOMAIN q : Cardinality(Before(k)) = i - 1]]

\* rewatchAll, once the watch is answered or refused
Rewatched(x) == AcceptAll([x EXCEPT !.recovering = FALSE, !.queued = <<>>], ByCursor(x.queued))

\* reconcile, with what a list says of the task
Reconcile(x, how, soon, ok, full) ==
  IF how \in Ended /\ x.entry = "live" THEN HandleExit(x, how, soon, ok, full) ELSE x

\* The end of timeout() or autoStop()
StopNotice(x) ==
  Cleanup(Notify(x, Item(x.stopping, <<>>, <<>>, x.drops, FALSE), FALSE, FALSE))

-----------------------------------------------------------------------------
(* The manager (daemon.rs, handover.rs).                                   *)

Hears  == link \in {"up", "hello", "rehello"}   \* the session has a connection
Followed == s.entry # "gone"   \* bound: what comes after the monitor is not explored
Push(m) == wire' = IF Hears THEN Append(wire, m) ELSE wire

\* handle_start: a start asked again finds its task, and watches nothing.
AnswerStart ==
  LET a == <<"start", 0>> IN
  /\ link = "up" /\ a \in asks /\ asks' = asks \ {a}
  /\ over' = IF over = "unborn" THEN "running" ELSE over
  /\ watching' = (watching \/ over = "unborn")
  /\ Push(Answer(a, "ok"))
  /\ UNCHANGED <<printed, fanned, carried, gap, unsaid, link, jobs, s, deaf, faults, rare>>

\* handle_watch; handle_stop, which signals and answers; handle_list.  Each
\* request runs in a task of its own: they are answered in any order.
AnswerAsk(a) ==
  /\ link = "up" /\ a \in asks /\ a[1] # "start" /\ over # "unborn"
  /\ asks' = asks \ {a}
  /\ watching' = (watching \/ a[1] = "watch")
  /\ over' = IF a[1] \in {"stop", "task_stop"} /\ over = "running" THEN "killing" ELSE over
  /\ IF a = <<"watch", 0>> THEN wire' = wire ELSE Push(Answer(a, over))
  /\ UNCHANGED <<printed, fanned, carried, gap, unsaid, link, jobs, s, deaf, faults, rare>>

PrintLine ==
  /\ over \in {"running", "killing"} /\ printed < MaxLines /\ Followed
  /\ printed' = printed + 1
  /\ UNCHANGED <<over, unsaid, fanVars, wireVars, jobs, s, deaf, rare>>

\* run_output_fanout: a task of its own, which may be behind the command
FanOut ==
  /\ fanned < printed /\ Followed
  /\ \E to \in (fanned + 1)..printed :
       /\ fanned' = to
       /\ wire' = IF watching /\ Hears THEN Append(wire, Output(fanned, to)) ELSE wire
       /\ gap' = IF watching \/ carried # None THEN gap ELSE gap \cup (fanned + 1)..to
  /\ UNCHANGED <<taskVars, watching, carried, link, asks, faults, jobs, s, deaf, rare>>

\* finalize_exit, once the pumps (not the fanout) have drained
Exits ==
  /\ \/ over = "running" /\ over' \in Ended
     \/ over = "killing" /\ over' = "other"
  /\ unsaid' = TRUE
  /\ UNCHANGED <<printed, fanVars, wireVars, jobs, s, deaf, rare>>

PushExit ==
  /\ unsaid /\ unsaid' = FALSE
  /\ Push(Exited(over))
  /\ UNCHANGED <<over, printed, fanVars, link, asks, jobs, s, deaf, faults, rare>>

-----------------------------------------------------------------------------
(* The connection.                                                         *)

Answered(q)  == {q[i].to : i \in {j \in DOMAIN q : q[j].is = "answer"}}
LinesIn(q)   == UNION {(q[i].from + 1)..q[i].to : i \in {j \in DOMAIN q : q[j].is = "output"}}
LeastOf(S)   == CHOOSE n \in S : \A m \in S : n <= m
Quiet        == jobs = <<>>   \* the event loop is between two socket reads
Rare(op)     == op \in Ops /\ rare < MaxRare /\ rare' = rare + 1
Lose(op)     == op \in Ops /\ faults < MaxFaults /\ faults' = faults + 1 /\ Quiet /\ Followed

\* Whether the client has, or may still get, a connection to send on
Sends == link \notin {"unavailable", "rehello"}

\* What the limiter and the window say of a batch
Verdict(ok, full) ==
  \/ ok /\ ~full /\ rare' = rare
  \/ ~ok /\ (full => Sends) /\ Rare("limit")

\* A plain loss: what was on the wire is gone, and the watch with it.
Drop ==
  /\ link \in {"up", "hello"} /\ Lose("drop")
  /\ link' = "down" /\ wire' = <<>> /\ asks' = asks \cup Answered(wire)
  /\ watching' = FALSE /\ gap' = gap \cup LinesIn(wire)
  /\ UNCHANGED <<taskVars, fanned, carried, jobs, s, deaf, rare>>

\* close_all_connections, carry_watches: the writers get some of the wire out,
\* and the cursor they got to is carried to the next image.
Upgrade ==
  /\ link = "up" /\ ~unsaid /\ Lose("upgrade")
  /\ \E k \in 0..Len(wire) :
       LET lost == SubSeq(wire, k + 1, Len(wire)) IN
       /\ wire' = SubSeq(wire, 1, k)
       /\ asks' = asks \cup Answered(lost)
       /\ carried' = IF ~watching THEN None
                     ELSE IF LinesIn(lost) = {} THEN fanned ELSE LeastOf(LinesIn(lost)) - 1
       /\ gap' = IF watching THEN gap ELSE gap \cup LinesIn(lost)
  /\ link' = "closing" /\ watching' = FALSE
  /\ UNCHANGED <<taskVars, fanned, jobs, s, deaf, rare>>

Closed ==
  /\ link = "closing" /\ wire = <<>> /\ Quiet /\ link' = "down"
  /\ UNCHANGED <<taskVars, fanVars, wire, asks, faults, jobs, s, deaf, rare>>

\* resume_carried_watches: from the carried cursor to what has been fanned out
Replay ==
  IF carried # None /\ carried < fanned THEN <<Output(carried, fanned)>> ELSE <<>>

\* A hello: of reconnectLoop, or of connect() once that gave up
SayHello ==
  /\ \/ link = "down" /\ link' = "hello"
     \/ link = "unavailable" /\ link' = "rehello"
  /\ wire' = <<Hello>> \o Replay
  /\ watching' = (carried # None) /\ carried' = None
  /\ UNCHANGED <<taskVars, fanned, gap, asks, faults, jobs, s, deaf, rare>>

\* reconnectLoop gives up and failAllPending rejects every request: a stop is
\* caught and announced, a task_stop undoes its note, a watch ends its
\* recovery.  The sync that follows reads the records on disk.
Exhaust ==
  /\ "exhaust" \in Ops /\ link = "down" /\ Quiet /\ link' = "unavailable"
  /\ asks' = {}
  /\ \E soon, ok, full \in BOOLEAN :
       LET a == [s EXCEPT !.asked = @ /\ <<"task_stop", 0>> \notin asks]
           b == IF a.recovering THEN Rewatched(a) ELSE a
           c == IF <<"stop", 0>> \in asks THEN StopNotice(b) ELSE b
           d == IF c.entry = "starting" THEN Cleanup(c) ELSE c
       IN /\ ~full /\ Verdict(ok, full)
          /\ s' = IF \E n \in 1..MaxFaults : {<<"watch", n>>, <<"list", n>>} \cap asks # {}
                       \/ <<"task_stop", 0>> \in asks
                    THEN Reconcile(d, over, soon, ok, full) ELSE d
  /\ deaf' = (deaf \/ s'.entry = "live")
  /\ UNCHANGED <<taskVars, fanVars, wire, faults, jobs>>

-----------------------------------------------------------------------------
(* The extension's event loop.                                             *)

\* A stop that OnBatch has begun is sent; without a connection it is refused.
After(y, more) ==
  LET begun == s.stopping = "none" /\ y.stopping # "none" IN
  /\ s' = IF begun /\ ~Sends THEN StopNotice(y) ELSE y
  /\ asks' = asks \cup (IF begun /\ Sends THEN {<<"stop", 0>>} ELSE {}) \cup more

\* dispatch: events are handled at once, an answer queues its continuation
Receive ==
  /\ wire # <<>> /\ link \in {"up", "closing", "hello", "rehello"} /\ wire' = Tail(wire)
  /\ LET m == Head(wire) IN
     \/ /\ m.is = "output" /\ s' = HandleOutput(s, m)
        /\ UNCHANGED <<asks, jobs, rare>>
     \/ /\ m.is = "exited"
        /\ \E soon, ok, full \in BOOLEAN :
             Verdict(ok, full) /\ After(HandleExit(s, m.how, soon, ok, full), {})
        /\ UNCHANGED jobs
     \/ /\ m.is \in {"answer", "hello"} /\ jobs' = Append(jobs, m)
        /\ UNCHANGED <<asks, s, rare>>
  /\ UNCHANGED <<taskVars, fanVars, link, deaf, faults>>

Job(is, what) == /\ jobs # <<>> /\ Head(jobs).is = is /\ jobs' = Tail(jobs)
                 /\ (is = "answer" => Head(jobs).to[1] = what)
Nothing == UNCHANGED <<taskVars, fanVars, link, wire, faults>>

\* Nothing on its way says that the command has ended.
Unheard ==
  /\ over \in Ended /\ ~unsaid /\ \A i \in DOMAIN wire : wire[i].is # "exited"
  /\ \A n \in 1..MaxFaults : <<"list", n>> \notin asks \cup Answered(wire) \cup Answered(jobs)
  /\ \A n \in 1..MaxFaults : <<"watch", n>> \notin asks \cup Answered(wire) \cup Answered(jobs)

\* start(), after its answer: the entry, then what came before it, the lines
\* first; an explicit watch for older managers.
Started ==
  /\ Job("answer", "start") /\ s.entry = "starting"
  /\ \E soon, ok, full \in BOOLEAN :
       LET live == AcceptAll([s EXCEPT !.entry = "live", !.early = <<>>], s.early) IN
       IF s.earlyExit = "none" THEN After(live, {<<"watch", 0>>}) /\ deaf' = Unheard /\ rare' = rare
       ELSE /\ Verdict(ok, full) /\ deaf' = deaf
            /\ After(HandleExit(live, s.earlyExit, soon, ok, full), {})
  /\ Nothing

\* reconnectLoop, after its hello: rewatchAll marks the entry and asks again,
\* or has nothing to watch and goes on to sync.  After connect() nobody does.
Reconnected ==
  /\ Job("hello", "") /\ link \in {"hello", "rehello"} /\ link' = "up"
  /\ LET live == s.entry = "live" IN
     IF link = "hello"
       THEN /\ s' = [s EXCEPT !.recovering = live]
            /\ asks' = asks \cup {<<IF live THEN "watch" ELSE "list", faults>>}
       ELSE UNCHANGED <<s, asks>>
  /\ UNCHANGED <<taskVars, fanVars, wire, faults, rare, deaf>>

\* The mutant is content with the watch.
WatchAnsweredOnly ==
  /\ Job("answer", "watch")
  /\ After(Rewatched(s), {})
  /\ UNCHANGED <<deaf, rare>> /\ Nothing

WatchAnswered ==
  /\ Job("answer", "watch")
  /\ After(Rewatched(s), {<<"list", Head(jobs).to[2]>>})
  /\ UNCHANGED <<deaf, rare>> /\ Nothing

\* syncWithManager
Synced ==
  /\ Job("answer", "list") \/ Job("answer", "look")
  /\ \E soon, ok, full \in BOOLEAN :
       Verdict(ok, full) /\ After(Reconcile(s, Head(jobs).how, soon, ok, full), {})
  /\ UNCHANGED deaf /\ Nothing

\* timeout() and autoStop(), after their stop
Stopped ==
  /\ Job("answer", "stop")
  /\ s' = StopNotice(s)
  /\ UNCHANGED <<asks, deaf, rare>> /\ Nothing

\* task_stop, after its stop: it syncs
TaskStopped ==
  /\ Job("answer", "task_stop")
  /\ After(s, {<<"look", 0>>})
  /\ UNCHANGED <<deaf, rare>> /\ Nothing

\* LineBatcher's window ends
Emit ==
  /\ Quiet /\ s.buffer # <<>>
  /\ \E ok, full \in BOOLEAN : Verdict(ok, full) /\ After(OnBatch(s, ok, full), {})
  /\ UNCHANGED <<jobs, deaf>> /\ Nothing

Timeout ==
  /\ Rare("timeout") /\ Quiet /\ s.entry = "live" /\ ~s.stopped
  /\ After([s EXCEPT !.stopped = TRUE, !.stopping = "timeout"], {})
  /\ UNCHANGED <<jobs, deaf>> /\ Nothing

\* task_stop: the note is taken before the stop is sent
TaskStop ==
  /\ Rare("stop") /\ Quiet /\ s.agent = "busy" /\ s.entry = "live" /\ Sends /\ ~s.asked
  /\ s' = [s EXCEPT !.asked = TRUE]
  /\ asks' = asks \cup {<<"task_stop", 0>>}
  /\ UNCHANGED <<jobs, deaf>> /\ Nothing

-----------------------------------------------------------------------------
(* The agent: its turns, and the settled event that ends them.             *)

TurnBegins ==
  /\ Quiet /\ s.agent # "busy"
  /\ s' = [s EXCEPT !.agent = "busy"]
  /\ UNCHANGED <<asks, jobs, deaf, rare>> /\ Nothing

\* The model waits for task_stop: for the stop, then for the sync.
InTaskStop ==
  {<<"task_stop", 0>>, <<"look", 0>>} \cap (asks \cup Answered(wire) \cup Answered(jobs)) # {}

TurnEnds ==
  /\ Quiet /\ s.agent = "busy" /\ ~InTaskStop
  /\ s' = Settled([s EXCEPT !.agent = "idle"])
  /\ UNCHANGED <<asks, jobs, deaf, rare>> /\ Nothing

-----------------------------------------------------------------------------
Next ==
  \/ AnswerStart \/ (\E a \in Ask : AnswerAsk(a)) \/ PrintLine \/ FanOut \/ Exits \/ PushExit
  \/ Drop \/ Upgrade \/ Closed \/ SayHello \/ Exhaust
  \/ Receive \/ Started \/ Reconnected \/ WatchAnswered \/ Synced \/ Stopped \/ TaskStopped
  \/ Emit \/ Timeout \/ TaskStop \/ TurnBegins \/ TurnEnds

Spec == Init /\ [][Next]_vars

\* The manager answers and pushes, a signalled command dies, the client reads
\* and reconnects, timers fire, turns begin and end.  A command need not end, a
\* client that gave up need not connect again.
Fairness ==
  /\ WF_vars(AnswerStart) /\ \A a \in Ask : WF_vars(AnswerAsk(a))
  /\ WF_vars(FanOut) /\ WF_vars(PushExit) /\ WF_vars(over = "killing" /\ Exits)
  /\ WF_vars(Closed) /\ WF_vars(link = "down" /\ SayHello)
  /\ WF_vars(Receive) /\ WF_vars(Started) /\ WF_vars(Reconnected)
  /\ WF_vars(WatchAnswered) /\ WF_vars(Synced) /\ WF_vars(Stopped) /\ WF_vars(TaskStopped)
  /\ WF_vars(Emit) /\ WF_vars(s.agent = "starting" /\ TurnBegins) /\ WF_vars(TurnEnds)

FairSpec == Spec /\ Fairness

-----------------------------------------------------------------------------
(* Properties.                                                             *)

EndsIn(q) == {i \in DOMAIN q : q[i].kind \in Ends}
LinesOf(q) == UNION {ToSet(q[i].lines) : i \in DOMAIN q}
MoreOf(q)  == UNION {ToSet(q[i].more) : i \in DOMAIN q}
DropsOf(q) == UNION {ToSet(q[i].drops) : i \in DOMAIN q}

Ascending(q) == \A i, j \in DOMAIN q : i < j => q[i] < q[j]
Below(p, q)  == \A l \in ToSet(p), k \in ToSet(q) : l < k

\* Of the events a notice stands for it shows the last.
Newest(i) == i.more # <<>> => i.lines # <<>> /\ Below(i.more, i.lines)

\* The model hears the lines in the order they were printed and none twice:
\* through the stash of a start that is not answered yet, the queue of a
\* rewatch, a replay by an upgraded manager, coalescing and holding.
LinesInOrder ==
  \A j \in DOMAIN s.told :
    /\ Ascending(s.told[j].lines)
    /\ \A i \in DOMAIN s.told : i < j => Below(s.told[i].lines, s.told[j].lines)

\* A monitor ends once for the model, by an exit, a timeout or the rate limit,
\* whichever of them meet; and nothing of it wakes the model afterwards.
EndIsLast ==
  LET said == s.told \o s.held IN
  \A i \in EndsIn(said) : \A j \in DOMAIN said :
    j # i => said[j].kind = Event /\ (j > i => ~said[j].wakes)

\* When a monitor has ended by itself, no line it took from the manager went
\* unsaid: it was shown, is one of the events a notice only counts, which then
\* shows a later one, or was counted among the dropped.
ExitTellsAll ==
  LET said == s.told \o s.held IN
  (\E i \in DOMAIN said : said[i].kind = "exited") =>
    /\ ToSet(s.taken) = LinesOf(said) \cup MoreOf(said) \cup DropsOf(said)
    /\ \A i \in DOMAIN said : Newest(said[i])

\* notify(): "the model must not hear "exited" ahead of the lines the command
\* printed".  Lines lost with a dropped connection apart, the exit comes when
\* every line has been taken.
TailHeard ==
  \A i \in DOMAIN s.told : s.told[i].kind = "exited" =>
    \A l \in 1..printed : l \in gap \cup ToSet(s.taken)

\* The end of a monitor's command reaches the model, though the event, the
\* connection and the manager's image may be lost on the way; unless the client
\* gave up and came back by connect(), or the start itself was answered late.
EndIsTold ==
  (s.entry = "live" /\ over \in Ended) ~> (EndsIn(s.told) # {} \/ deaf)
===============================================================================
