------------------------------ MODULE Subagents ------------------------------
(***************************************************************************)
(* The children of one subagent run: the worker pool that submits them     *)
(* (extension/src/subagent/pool.ts), the registry with its global slots    *)
(* (registry.ts), the handle that takes a child through its generations    *)
(* (runner.ts), and the tool actions of the parent (tool.ts).              *)
(*                                                                         *)
(* JavaScript runs one callback at a time, and all the promise reactions   *)
(* it leaves before the next callback.  The reactions whose order matters  *)
(* are actions of their own: a slot handed over (Admit) and a result seen  *)
(* by the pool (Report).  A slot is handed over by settle() before it      *)
(* resolves the result, and the result reaches the pool a reaction later,  *)
(* so Admit goes first.  All other actions wait until none is left.        *)
(*                                                                         *)
(* A chain is the pool with one worker and failFast: a step that is not    *)
(* completed keeps the following ones from starting.                       *)
(***************************************************************************)
EXTENDS Naturals, Sequences, FiniteSets

CONSTANTS
  NChildren,     \* children of the run, numbered by their ordinal
  Workers,       \* concurrency of the pool
  FailFast,      \* the run's fail_fast
  MaxSlots,      \* maxConcurrentChildren
  Budget,        \* sessions that may be started in the hour the model covers
  StallRetries,  \* stall retries of a turn
  MaxTurns       \* bound: turns of a child, one by start and one by resume

ASSUME SubagentsAssumption ==
  /\ NChildren \in Nat \ {0} /\ MaxSlots \in Nat \ {0}
  /\ Workers \in 1..NChildren
  /\ Budget \in Nat /\ StallRetries \in Nat /\ MaxTurns \in Nat \ {0}
  /\ FailFast \in BOOLEAN

Child == 1..NChildren

VARIABLES
  \* the pool
  next,       \* the ordinal to submit next
  idle,       \* workers about to take a task
  waiting,    \* submitted children whose first result a worker awaits
  failed,     \* some result was not "completed"
  finalized,  \* finalizeRun has been called
  echo,       \* first results on their way to the pool
  \* the registry
  listed,     \* the run has not been disposed
  rec,        \* InternalChild.status
  spent,      \* sessions the spawn budget was charged for
  active,     \* activeSlots
  queue,      \* slotWaiters: child and generation
  granted,    \* waiters whose promise is resolved but who have not run yet
  \* the handles and their sessions
  h

poolVars == <<next, idle, waiting, failed, finalized>>
slotVars == <<active, queue, granted>>
vars == <<next, idle, waiting, failed, finalized, echo,
          listed, rec, spent, active, queue, granted, h>>

Over   == {"completed", "failed", "interrupted"}
Status == Over \cup {"pending", "running"}

Handle ==
  [visible : BOOLEAN,    \* the registry has the handle (child.handle)
   st      : Status,     \* status_
   gen     : Nat,        \* generation
   turn    : Nat,        \* result promises made so far
   settled : BOOLEAN,    \* settledFlag: the current result is resolved
   retired : BOOLEAN,    \* retiredGen is the current generation
   stalls  : Nat,        \* stallAttempts
   slot    : BOOLEAN,    \* releaseSlot is set
   abort   : BOOLEAN,    \* abortPromise is set
   retry   : {"none", "delay", "drain"},  \* a stall retry: its timer, its wait for the abort
   drains  : Nat,        \* resume() calls waiting for the abort
   disposed: BOOLEAN,
   session : {"none", "creating", "open", "closed"},
   run     : Nat,        \* the generation whose run is in progress in the session, or 0
   replaced: BOOLEAN]    \* history: a turn was begun while the result of the last was open

Unstarted ==
  [visible |-> FALSE, st |-> "pending", gen |-> 0, turn |-> 0, settled |-> FALSE,
   retired |-> FALSE, stalls |-> 0, slot |-> FALSE, abort |-> FALSE, retry |-> "none",
   drains |-> 0, disposed |-> FALSE, session |-> "none", run |-> 0, replaced |-> FALSE]

TypeOK ==
  /\ next \in 1..NChildren + 1
  /\ idle \in 0..Workers
  /\ waiting \subseteq Child
  /\ failed \in BOOLEAN /\ finalized \in BOOLEAN /\ listed \in BOOLEAN
  /\ echo \in Seq(Child)
  /\ rec \in [Child -> Status]
  /\ spent \in 0..Budget
  /\ active \in 0..MaxSlots
  /\ queue \in Seq(Child \X Nat)
  /\ granted \in Seq(Child \X Nat)
  /\ h \in [Child -> Handle]

Init ==
  /\ next = 1 /\ idle = Workers /\ waiting = {}
  /\ failed = FALSE /\ finalized = FALSE /\ echo = <<>>
  /\ listed = TRUE /\ rec = [c \in Child |-> "pending"] /\ spent = 0
  /\ active = 0 /\ queue = <<>> /\ granted = <<>>
  /\ h = [c \in Child |-> Unstarted]

-----------------------------------------------------------------------------
(* Helpers *)

(* No reaction is left to run: the next callback may start. *)
Quiet == idle = 0 /\ granted = <<>> /\ echo = <<>> /\ (waiting # {} \/ finalized)

(* acquireSlot, for generation g of c. *)
Acquire(c, g) ==
  IF active < MaxSlots
    THEN /\ active' = active + 1
         /\ granted' = Append(granted, <<c, g>>)
         /\ UNCHANGED queue
    ELSE /\ queue' = Append(queue, <<c, g>>)
         /\ UNCHANGED <<active, granted>>

(* Mutant: the count goes down although a waiter gets the slot. *)
ReleaseAll(n, rest) ==
  LET k == IF n < Len(queue) THEN n ELSE Len(queue)
  IN  /\ granted' = rest \o SubSeq(queue, 1, k)
      /\ queue' = SubSeq(queue, k + 1, Len(queue))
      /\ active' = active - n

(* Mutant: the slot is given back, the waiters stay in the queue. *)
ReleaseUnseen(n, rest) ==
  /\ granted' = rest
  /\ active' = active - n
  /\ UNCHANGED queue

(* releaseSlot, n times; the grants of rest are yet to run.  A slot goes   *)
(* to the first waiter, or the count goes down.                            *)
ReleaseSlots(n, rest) ==
  LET k == IF n < Len(queue) THEN n ELSE Len(queue)
  IN  /\ granted' = rest \o SubSeq(queue, 1, k)
      /\ queue' = SubSeq(queue, k + 1, Len(queue))
      /\ active' = active - (n - k)

HeldSlots(S) == Cardinality({c \in S : h[c].slot})

(* Mutants: the slot is kept; the status is final but the result is not resolved. *)
SettledKeepsSlot(x, how) ==
  [x EXCEPT !.st = how, !.settled = TRUE, !.retry = "none", !.drains = 0]
SettledUnresolved(x, how) ==
  [x EXCEPT !.st = how, !.slot = FALSE, !.retry = "none", !.drains = 0]

(* settle: timers are cleared and those who wait for the abort give up. *)
Settled(x, how) ==
  [x EXCEPT !.st = how, !.settled = TRUE, !.slot = FALSE, !.retry = "none", !.drains = 0]

(* settleChild, what a resolved result makes of a record. *)
SettleChild(was, how) ==
  IF listed /\ was \in {"pending", "running"} THEN how ELSE was

(* settle() of a handle whose fields are x otherwise, its record was: the  *)
(* slot goes first, then the result is resolved; the pool awaits the first.*)
Settle(c, x, was, how, rest) ==
  /\ h' = [h EXCEPT ![c] = Settled(x, how)]
  /\ rec' = [rec EXCEPT ![c] = SettleChild(was, how)]
  /\ echo' = IF x.turn = 1 THEN Append(echo, c) ELSE echo
  /\ ReleaseSlots(IF x.slot THEN 1 ELSE 0, rest)

(* armTimeout, armStall, session.prompt.  pi refuses a prompt while a run  *)
(* is active.                                                              *)
Prompt(c, x, was, rest) ==
  IF x.run # 0
    THEN Settle(c, x, was, "failed", rest)
    ELSE /\ h' = [h EXCEPT ![c] = [x EXCEPT !.run = x.gen]]
         /\ rec' = [rec EXCEPT ![c] = was]
         /\ granted' = rest
         /\ UNCHANGED <<echo, active, queue>>

(* isCurrent, of the current generation *)
Current(c) == ~h[c].settled /\ ~h[c].retired /\ ~h[c].disposed

-----------------------------------------------------------------------------
(* The worker pool *)

(* startChild, for the next task *)
Submit(c) ==
  /\ next' = c + 1
  /\ waiting' = waiting \cup {c}
  /\ UNCHANGED failed
  /\ IF spent = Budget
       THEN \* failWithoutSession
            /\ rec' = [rec EXCEPT ![c] = "failed"]
            /\ h' = [h EXCEPT ![c] = [@ EXCEPT !.visible = TRUE, !.st = "failed",
                                               !.turn = 1, !.settled = TRUE]]
            /\ echo' = Append(echo, c)
            /\ UNCHANGED <<spent, slotVars>>
       ELSE \* runner.start: launch, beginGeneration
            /\ spent' = spent + 1
            /\ h' = [h EXCEPT ![c] = [@ EXCEPT !.gen = 1, !.turn = 1]]
            /\ Acquire(c, 1)
            /\ UNCHANGED <<rec, echo>>

(* A worker takes the next task, or returns.  With failFast the remaining  *)
(* ones are skipped; in a disposed run they throw.                         *)
TakeTask ==
  /\ idle > 0
  /\ LET skip == (FailFast /\ failed) \/ ~listed
     IN  \/ /\ next > NChildren \/ skip
            /\ next' = NChildren + 1
            /\ failed' = (failed \/ (next <= NChildren /\ ~listed))
            /\ UNCHANGED <<waiting, echo, rec, spent, slotVars, h>>
         \/ next <= NChildren /\ ~skip /\ Submit(next)
  /\ idle' = idle - 1
  /\ UNCHANGED <<finalized, listed>>

(* A worker's await returns: results[ordinal] decides about failed. *)
Report ==
  /\ idle = 0 /\ granted = <<>> /\ echo # <<>>
  /\ failed' = (failed \/ h[Head(echo)].st # "completed")
  /\ waiting' = waiting \ {Head(echo)}
  /\ idle' = idle + 1
  /\ echo' = Tail(echo)
  /\ UNCHANGED <<next, finalized, listed, rec, spent, slotVars, h>>

(* The record a child never submitted is left with. *)
FinalRecord(c) ==
  IF listed /\ rec[c] = "pending" /\ ~h[c].visible THEN "interrupted" ELSE rec[c]

(* All workers have returned: finalizeRun. *)
FinalizeRun ==
  /\ idle = 0 /\ granted = <<>> /\ echo = <<>> /\ waiting = {} /\ ~finalized
  /\ finalized' = TRUE
  /\ rec' = [c \in Child |-> FinalRecord(c)]
  /\ UNCHANGED <<next, idle, waiting, failed, echo, listed, spent, slotVars, h>>

-----------------------------------------------------------------------------
(* Admission, and what beginGeneration does after it *)

(* shouldStart is forgotten once the first result has settled the record. *)
ShouldCancel(c) == FailFast /\ failed /\ h[c].turn = 1

Admit ==
  /\ idle = 0 /\ granted # <<>>
  /\ LET c == Head(granted)[1]
         g == Head(granted)[2]
         x == h[c]
         rest == Tail(granted)
         stale == x.gen # g \/ x.settled
         y == [x EXCEPT !.slot = TRUE, !.st = "running"]
     IN  \/ \* unknown child, or cancelled: the slot goes on, the turn ends
            /\ ~listed \/ ShouldCancel(c)
            /\ IF stale
                 THEN ReleaseSlots(1, rest) /\ UNCHANGED <<h, rec, echo>>
                 ELSE Settle(c, [y EXCEPT !.visible = listed], rec[c], "interrupted", rest)
         \/ \* the turn was settled while it queued: its result is wired late
            /\ listed /\ ~ShouldCancel(c) /\ stale
            /\ rec' = [rec EXCEPT ![c] = IF x.settled THEN x.st ELSE "running"]
            /\ ReleaseSlots(1, rest)
            /\ UNCHANGED <<h, echo>>
         \/ /\ listed /\ ~ShouldCancel(c) /\ ~stale
            /\ IF x.session = "none"
                 THEN /\ h' = [h EXCEPT ![c] = [y EXCEPT !.session = "creating"]]
                      /\ rec' = [rec EXCEPT ![c] = "running"]
                      /\ granted' = rest
                      /\ UNCHANGED <<echo, active, queue>>
                 ELSE Prompt(c, y, "running", rest)
  /\ UNCHANGED <<poolVars, listed, spent>>

(* createSession resolves, and the first prompt is sent; or it rejects.    *)
(* Either way launch() returns, and startChild keeps the handle: in the    *)
(* record of a child that may have been forgotten meanwhile.               *)
SessionCreated(c) ==
  /\ Quiet
  /\ h[c].session = "creating"
  /\ \/ Prompt(c, [h[c] EXCEPT !.session = "open", !.visible = TRUE], rec[c], granted)
     \/ Settle(c, [h[c] EXCEPT !.session = "none", !.visible = TRUE], rec[c], "failed", granted)
  /\ UNCHANGED <<poolVars, listed, spent>>

(* session.prompt() resolves or rejects: the run is over.  If it is that   *)
(* of the current generation, finishGeneration settles the turn.           *)
RunEnds(c) ==
  /\ Quiet
  /\ h[c].run # 0
  /\ LET x == [h[c] EXCEPT !.run = 0]
     IN  IF Current(c) /\ h[c].run = x.gen
           THEN \E how \in {"completed", "failed"} : Settle(c, x, rec[c], how, granted)
           ELSE h' = [h EXCEPT ![c] = x] /\ UNCHANGED <<rec, echo, slotVars>>
  /\ UNCHANGED <<poolVars, listed, spent>>

-----------------------------------------------------------------------------
(* Timers *)

(* The timers of the current turn run from its first prompt until settle. *)
Prompted(c) == ~h[c].settled /\ h[c].st = "running" /\ h[c].session = "open"

(* The turn's timeout; it does not care about a stall being retried. *)
Timeout(c) ==
  /\ Quiet
  /\ Prompted(c)
  /\ Settle(c, [h[c] EXCEPT !.abort = TRUE], rec[c], "interrupted", granted)
  /\ UNCHANGED <<poolVars, listed, spent>>

(* handleStall: the run is aborted, and retried after a delay or given up. *)
Stall(c) ==
  /\ Quiet
  /\ Prompted(c) /\ Current(c)
  /\ LET x == [h[c] EXCEPT !.stalls = @ + 1, !.retired = TRUE, !.abort = TRUE]
     IN  IF x.stalls > StallRetries
           THEN Settle(c, x, rec[c], "failed", granted)
           ELSE /\ h' = [h EXCEPT ![c] = [x EXCEPT !.retry = "delay"]]
                /\ UNCHANGED <<rec, echo, slotVars>>
  /\ UNCHANGED <<poolVars, listed, spent>>

(* beginGeneration with reuseSlot: no admission, the turn goes on, and so  *)
(* does its timeout, which may be spent.                                   *)
Retry(c) ==
  LET x == [h[c] EXCEPT !.gen = @ + 1, !.retired = FALSE, !.retry = "none", !.abort = FALSE]
  IN  \/ Prompt(c, x, rec[c], granted)
      \/ Settle(c, x, rec[c], "interrupted", granted)

(* The retry timer fires: retryAfterAbort. *)
RetryFires(c) ==
  /\ Quiet
  /\ h[c].retry = "delay"
  /\ IF h[c].run # 0
       THEN /\ h' = [h EXCEPT ![c] = [@ EXCEPT !.retry = "drain", !.abort = FALSE]]
            /\ UNCHANGED <<rec, echo, slotVars>>
       ELSE Retry(c)
  /\ UNCHANGED <<poolVars, listed, spent>>

(* awaitAbortBounded returns to a retry: the run has ended, or stallMs are over. *)
RetryDrained(c) ==
  /\ Quiet
  /\ h[c].retry = "drain"
  /\ \/ h[c].run = 0 /\ Retry(c)
     \/ h[c].run # 0 /\ Settle(c, h[c], rec[c], "failed", granted)
  /\ UNCHANGED <<poolVars, listed, spent>>

-----------------------------------------------------------------------------
(* What the parent does *)

(* A handle the parent can reach through the registry. *)
Reachable(c) == listed /\ h[c].visible /\ h[c].gen > 0

(* interrupt(), by the subagent tool, task_stop or /tasks.  The abort is   *)
(* not remembered.                                                         *)
Interrupt(c) ==
  /\ Quiet
  /\ Reachable(c) /\ ~h[c].settled
  /\ Settle(c, h[c], rec[c], "interrupted", granted)
  /\ UNCHANGED <<poolVars, listed, spent>>

(* The second half of resume(): a new turn, which asks for a slot.  An     *)
(* earlier releaseSlot is overwritten when the new one comes.              *)
NewTurn(c, x) ==
  /\ h' = [h EXCEPT ![c] = [x EXCEPT !.gen = @ + 1, !.turn = @ + 1, !.settled = FALSE, !.retry = "none",
                                     !.retired = FALSE, !.stalls = 0, !.st = "pending",
                                     !.replaced = @ \/ ~x.settled]]
  /\ Acquire(c, x.gen + 1)
  /\ UNCHANGED <<rec, echo>>

(* resume(): a stall's or timeout's abort is awaited first. *)
Resume(c) ==
  /\ Quiet
  /\ Reachable(c) /\ h[c].st \in Over /\ rec[c] \in Over
  /\ h[c].session = "open" /\ h[c].turn + h[c].drains < MaxTurns
  /\ LET x == [h[c] EXCEPT !.abort = FALSE]
     IN  IF h[c].abort /\ h[c].run # 0
           THEN /\ h' = [h EXCEPT ![c] = [x EXCEPT !.drains = @ + 1]]
                /\ UNCHANGED <<rec, echo, slotVars>>
           ELSE NewTurn(c, x)
  /\ UNCHANGED <<poolVars, listed, spent>>

(* The awaited abort is over or took too long; in the latter case, or when *)
(* the handle was disposed, resume() throws.                               *)
ResumeDrained(c) ==
  /\ Quiet
  /\ h[c].drains > 0
  /\ LET x == [h[c] EXCEPT !.drains = @ - 1]
     IN  IF h[c].run = 0 /\ ~h[c].disposed
           THEN NewTurn(c, x)
           ELSE h' = [h EXCEPT ![c] = x] /\ UNCHANGED <<rec, echo, slotVars>>
  /\ UNCHANGED <<poolVars, listed, spent>>

(* What disposeRun makes of a record. *)
DisposedRecord(c) == IF rec[c] \in Over THEN rec[c] ELSE "interrupted"

(* handle.interrupt() and dispose() *)
Disposed(x) ==
  LET y == [x EXCEPT !.disposed = TRUE, !.session = "closed", !.run = 0]
  IN  IF x.settled THEN y ELSE Settled(y, "interrupted")

(* disposeRun, when the session of the parent ends or is replaced: the     *)
(* handles the registry has are interrupted and disposed in one go.        *)
DisposeRun ==
  /\ Quiet
  /\ listed
  /\ listed' = FALSE
  /\ rec' = [c \in Child |-> DisposedRecord(c)]
  /\ LET S == {c \in Child : h[c].visible /\ h[c].gen > 0}
         first == {c \in S : ~h[c].settled /\ h[c].turn = 1}
     IN  /\ h' = [c \in Child |-> IF c \in S THEN Disposed(h[c]) ELSE h[c]]
         /\ ReleaseSlots(HeldSlots(S), granted)
         /\ echo' \in {e \in [1..Cardinality(first) -> first] :
                          \A i, j \in DOMAIN e : i < j => e[i] < e[j]}
  /\ UNCHANGED <<poolVars, spent>>

Next ==
  \/ TakeTask \/ Report \/ FinalizeRun \/ Admit \/ DisposeRun
  \/ \E c \in Child :
       \/ SessionCreated(c) \/ RunEnds(c)
       \/ Timeout(c) \/ Stall(c) \/ RetryFires(c) \/ RetryDrained(c)
       \/ Interrupt(c) \/ Resume(c) \/ ResumeDrained(c)

Spec == Init /\ [][Next]_vars

(* The event loop runs what is due, timers fire, and pi's createSession    *)
(* returns.  That a run ends, or obeys an abort, is not assumed.           *)
Fairness ==
  /\ WF_vars(TakeTask) /\ WF_vars(Report) /\ WF_vars(FinalizeRun) /\ WF_vars(Admit)
  /\ \A c \in Child :
       /\ WF_vars(SessionCreated(c)) /\ WF_vars(Timeout(c))
       /\ WF_vars(RetryFires(c)) /\ WF_vars(RetryDrained(c)) /\ WF_vars(ResumeDrained(c))

FairSpec == Spec /\ Fairness

-----------------------------------------------------------------------------
(* Properties *)

(* A resume() that waited for an abort has begun a turn over an open one   *)
(* (runner.ts:261-279): the slot of that turn, if it has one, is lost.     *)
Replaced == \E c \in Child : h[c].replaced

(* No slot is lost and none is counted twice: the counter is the number of *)
(* grants under way and of turns that hold one, and a settled turn holds   *)
(* none, whatever was interrupted, retried or disposed while it queued;    *)
(* and a child waits for a slot only while all of them are taken.          *)
SlotsAccounted ==
  ~Replaced =>
    /\ active = Len(granted) + HeldSlots(Child)
    /\ active <= MaxSlots
    /\ \A c \in Child : h[c].slot => ~h[c].settled
    /\ queue # <<>> => active = MaxSlots

(* A result that was promised and not given is not replaced by another,    *)
(* and so resolves for whoever holds it, save by one call: a resume() that *)
(* was let in before that result was promised and has awaited an abort     *)
(* since (runner.ts resume).  Stalls, retries, timeouts, disposal and a    *)
(* resume() that need not wait replace none.                               *)
TurnsAnswered ==
  [][\A c \in Child : h'[c].turn # h[c].turn =>
       h[c].turn = 0 \/ h[c].settled \/ h'[c].drains < h[c].drains]_vars

(* Not true: a call of resume is said to have resumed the subagent, and    *)
(* its turn is the one that is told (tool.ts:612-614).                     *)
NoTurnReplaced ==
  [][\A c \in Child : h'[c].turn # h[c].turn => h[c].turn = 0 \/ h[c].settled]_vars

(* With fail_fast no child gets a session once a sibling's result is known *)
(* not to be "completed".                                                  *)
FailFastCancels ==
  [][\A c \in Child :
       h[c].session = "none" /\ h'[c].session = "creating" =>
         ~(FailFast /\ \E d \in Child : h[d].settled /\ h[d].turn = 1 /\ h[d].st # "completed")]_vars

(* The sessions of a disposed run are disposed. *)
SessionsReleased == ~listed /\ Quiet => \A c \in Child : h[c].session # "open"

(* Every turn gets its result, although a run may hang, a stalled session  *)
(* ignore its abort and the slots be fewer than the children; and with the *)
(* results the run of the pool ends, with no record left pending; unless a *)
(* slot is lost to a turn that was replaced.                               *)
TurnsEnd ==
  /\ \A c \in Child : (h[c].turn > 0 /\ ~h[c].settled) ~> h[c].settled \/ Replaced
  /\ <>((finalized /\ \A c \in Child : rec[c] # "pending") \/ Replaced)
=============================================================================
