--------------------------------- MODULE Comms ---------------------------------
(***************************************************************************)
(* What a parent agent and the subagents of a run tell each other: the     *)
(* subagent tool's waits and wakes (extension/src/subagent/tool.ts), the   *)
(* mailbox of decision requests (comms/mailbox.ts, comms/comms.ts), and    *)
(* the stall watchdog a decision pauses (subagent/runner.ts).              *)
(*                                                                         *)
(* The run is a "tasks" run with a worker for each child, or a chain whose *)
(* steps run one after the other (subagent/pool.ts).  How slots are handed *)
(* out, fail_fast and stall retries are in Subagents.tla; here a submitted *)
(* child is admitted at some time, and a stall ends its turn.              *)
(*                                                                         *)
(* pi, the agent runtime, is external: it refuses a prompt while a run is  *)
(* active in the session, and an aborted run ends when its tools have      *)
(* returned.  contact_supervisor ignores the abort signal; other tools     *)
(* obey it.                                                                *)
(***************************************************************************)
EXTENDS Naturals, FiniteSets, Sequences

CONSTANTS
  Child,     \* the children of the run
  Label,     \* names a chain's steps may give to their results
  MaxTurns,  \* bound: turns of a child
  MaxAsks    \* bound: decisions a child asks for

ASSUME CommsAssumption ==
  IsFiniteSet(Child) /\ MaxTurns \in Nat \ {0} /\ MaxAsks \in Nat

VARIABLES
  mode,    \* of startRun: "new", "waiting" in the foreground, "background", "delivered"
  live,    \* the session of the parent has not been shut down
  parent,  \* the tool call the parent agent is in
  watch,   \* children whose first result is resolved and not seen by watchChild yet
  pool,    \* children whose first result the pool awaits
  chain,   \* the steps of a chain, from the one at work on
  outputs, \* what a prompt may refer to: {previous} and the labels that have a text
  fin,     \* all first results are in, and finalizeRun has been called
  dones,   \* "subagent-done" wakes sent
  h        \* the children

vars == <<mode, live, parent, watch, pool, chain, outputs, fin, dones, h>>

Handle ==
  [rec     : {"pending", "running", "over"},          \* the registry's status
   st      : {"pending", "running", "over"},          \* status_ of the handle
   turn    : 0..MaxTurns,                             \* result promises made
   adm     : BOOLEAN,                                 \* waits for admission
   session : BOOLEAN,                                 \* has a session
   run     : {"none", "on", "interrupted", "aborted"},\* the run in the session
   depth   : 0..2,                                    \* toolDepth
   other   : BOOLEAN,                                 \* the run is in some other tool
   waiter  : BOOLEAN,                                 \* the mailbox has a waiter, the run awaits it
   paused  : BOOLEAN,                                 \* decisionPaused
   armed   : BOOLEAN,                                 \* the stall timer is set
   ok      : BOOLEAN,                                 \* a chain's step: its result is "completed"
   asks    : 0..MaxAsks,                              \* decisions asked for
   ring    : BOOLEAN,                                 \* resume's getResult().then is attached
   handed  : 0..2,                                    \* handovers of the current turn's result
   seen    : BOOLEAN]                                 \* the parent was told that result

Unstarted ==
  [rec |-> "pending", st |-> "pending", turn |-> 0, adm |-> FALSE, session |-> FALSE,
   run |-> "none", depth |-> 0, other |-> FALSE, waiter |-> FALSE, paused |-> FALSE,
   armed |-> FALSE, ok |-> FALSE, asks |-> 0, ring |-> FALSE, handed |-> 0, seen |-> FALSE]

(* A step of a chain: what its prompt refers to, and its label. *)
Step == [child : Child, refs : SUBSET (Label \cup {"previous"}), label : Label \cup {"none"}]

Free == [call |-> "free"]
Foreground == [call |-> "run"]

TypeOK ==
  /\ mode \in {"new", "waiting", "background", "delivered"}
  /\ live \in BOOLEAN /\ fin \in BOOLEAN
  /\ parent \in {Free, Foreground} \cup [call : {"interrupt", "resume"}, child : Child]
  /\ watch \subseteq pool /\ pool \subseteq Child
  /\ chain \in UNION {[1..n -> Step] : n \in 0..Cardinality(Child)}
  /\ outputs \subseteq Label \cup {"none", "previous"}
  /\ dones \in 0..1 + Cardinality(Child) * MaxTurns
  /\ h \in [Child -> Handle]

Init ==
  /\ mode = "new" /\ live = TRUE /\ parent = Free
  /\ watch = {} /\ pool = Child /\ chain = <<>> /\ outputs = {} /\ fin = FALSE /\ dones = 0
  /\ h = [c \in Child |-> Unstarted]

-----------------------------------------------------------------------------
(* Helpers *)

(* A turn that resume() made has ended, and its reaction is due. *)
Rings(c) == h[c].ring /\ h[c].st = "over"

(* All first results are in, and the pool has not been left yet. *)
PoolDue == pool = {} /\ ~fin

(* The chain has come to a step that is not submitted yet. *)
StepDue == chain # <<>> /\ h[Head(chain).child].turn = 0

(* No promise reaction is left to run: the next callback may start. *)
Quiet == live /\ watch = {} /\ ~PoolDue /\ ~StepDue /\ \A c \in Child : ~Rings(c)

(* settle(): timers are cleared, the result is resolved and the record is  *)
(* settled; the run in the session is what is left of it.                  *)
Settled(x, run) ==
  [x EXCEPT !.st = "over", !.rec = IF x.adm THEN @ ELSE "over", !.run = run,
            !.armed = FALSE, !.ok = FALSE]

(* Mutant: watchChild listens to every turn. *)
EndTurnWatched(c, run) ==
  /\ h' = [h EXCEPT ![c] = Settled(@, run)]
  /\ watch' = watch \cup {c}

(* The turn of c ends; watchChild has the first one's result. *)
EndTurn(c, run) ==
  /\ h' = [h EXCEPT ![c] = Settled(@, run)]
  /\ watch' = IF h[c].turn = 1 THEN watch \cup {c} ELSE watch

(* The children a handover calls still running: by their records. *)
StillRunning(c) == {d \in Child \ {c} : h[d].rec # "over"}

(* notifyChildHandover sends: a child of this run that was not handed over *)
(* before, while others are at work.                                       *)
HandsOver(c) == h[c].rec = "over" /\ StillRunning(c) # {} /\ h[c].handed = 0

(* Its wake has the prompt and result of the children of S. *)
HandOver(S) ==
  [c \in Child |-> IF c \in S THEN [h[c] EXCEPT !.handed = @ + 1, !.seen = TRUE] ELSE h[c]]

(* notifyRunCompleted, or the text of the call: all children's results. *)
AllTold == [c \in Child |-> [h[c] EXCEPT !.seen = @ \/ h[c].st = "over"]]

-----------------------------------------------------------------------------
(* The subagent tool: a run *)

(* Mutant: children that ended in the foreground are forgotten. *)
ArmBackgroundOnly == h

(* armBackground: children that have ended already are handed over. *)
ArmBackground == HandOver({c \in Child : HandsOver(c)})

(* A child whose first turn waits for admission, or one that is over the   *)
(* spawn budget and has failed without a session.                          *)
Submitted == [Unstarted EXCEPT !.turn = 1, !.adm = TRUE]
FailedWithoutSession == Settled([Unstarted EXCEPT !.turn = 1], "none")

(* Mutant: a step's own label counts as defined when its prompt is read. *)
ValidChainSelf(steps) ==
  \A i \in DOMAIN steps :
    /\ steps[i].refs \subseteq {steps[j].label : j \in 1..i} \cup {"previous" : j \in 1..i - 1}
    /\ steps[i].label \in Label => \A j \in 1..i - 1 : steps[j].label # steps[i].label

(* validateChainSteps: references go to earlier steps, labels are unique. *)
ValidChain(steps) ==
  \A i \in DOMAIN steps :
    /\ steps[i].refs \subseteq {steps[j].label : j \in 1..i - 1} \cup {"previous" : j \in 1..i - 1}
    /\ steps[i].label \in Label => \A j \in 1..i - 1 : steps[j].label # steps[i].label

(* The steps of a chain are the children, in an order that does not matter.*)
Chains ==
  LET n == Cardinality(Child)
      order == CHOOSE f \in [1..n -> Child] : \A c \in Child : \E i \in 1..n : f[i] = c
  IN  {s \in [1..n -> Step] : (\A i \in 1..n : s[i].child = order[i]) /\ ValidChain(s)}

(* startRun: "tasks" submits all children, of which F, over the spawn      *)
(* budget, fail at once.  Of a chain that is in order, runChain submits    *)
(* the first step.  An async run is in the background from the start.      *)
StartRun ==
  /\ mode = "new" /\ parent = Free /\ live
  /\ \/ \E F \in SUBSET Child :
          /\ h' = [c \in Child |-> IF c \in F THEN FailedWithoutSession ELSE Submitted]
          /\ watch' = F
          /\ UNCHANGED chain
     \/ /\ chain' \in Chains
        /\ UNCHANGED <<watch, h>>
  /\ \/ mode' = "background" /\ UNCHANGED parent
     \/ mode' = "waiting" /\ parent' = Foreground
  /\ UNCHANGED <<live, pool, outputs, fin, dones>>

(* runChain submits the step it has come to, its prompt interpolated. *)
StartStep ==
  /\ StepDue
  /\ LET c == Head(chain).child
     IN  \/ h' = [h EXCEPT ![c] = Submitted] /\ UNCHANGED watch
         \/ h' = [h EXCEPT ![c] = FailedWithoutSession] /\ watch' = {c}
  /\ UNCHANGED <<mode, live, parent, pool, chain, outputs, fin, dones>>

(* runChain goes on to the next step with the text of this one, or skips   *)
(* all that are left.                                                      *)
ChainGoesOn(c) ==
  IF h[c].ok
    THEN /\ pool' = pool \ {c}
         /\ chain' = Tail(chain)
         /\ outputs' = IF Len(chain) = 1 THEN {} ELSE outputs \cup {"previous", Head(chain).label}
    ELSE pool' = {} /\ chain' = <<>> /\ outputs' = {}

(* watchChild: the first result of c is resolved. *)
Watch(c) ==
  /\ c \in watch
  /\ watch' = watch \ {c}
  /\ IF chain = <<>> THEN pool' = pool \ {c} /\ UNCHANGED <<chain, outputs>> ELSE ChainGoesOn(c)
  /\ h' = IF mode = "background" /\ HandsOver(c) THEN HandOver({c}) ELSE h
  /\ UNCHANGED <<mode, live, parent, fin, dones>>

(* finalizeRun: children that were never submitted are skipped. *)
Finalized(g) == [c \in Child |-> IF g[c].turn = 0 THEN [g[c] EXCEPT !.rec = "over"] ELSE g[c]]

(* The pool's results are in: the call that waits returns them, or the     *)
(* parent is woken.                                                        *)
Tracked ==
  /\ live /\ PoolDue
  /\ fin' = TRUE
  /\ h' = Finalized(AllTold)
  /\ IF mode = "waiting"
       THEN mode' = "delivered" /\ parent' = Free /\ UNCHANGED dones
       ELSE dones' = dones + 1 /\ UNCHANGED <<mode, parent>>
  /\ UNCHANGED <<live, watch, pool, chain, outputs>>

(* raceBudget: the foreground budget is over, or the call is aborted. *)
BudgetOver ==
  /\ Quiet /\ mode = "waiting"
  /\ mode' = "background" /\ parent' = Free
  /\ h' = ArmBackground
  /\ UNCHANGED <<live, watch, pool, chain, outputs, fin, dones>>

-----------------------------------------------------------------------------
(* A child's turn *)

(* Admission, and the prompt after it.  A turn that was interrupted while  *)
(* it queued gets its record now.  resume() returns when the prompt is     *)
(* out, and listens to the result.                                         *)
Admit(c) ==
  /\ Quiet /\ h[c].adm
  /\ LET resumed == parent = [call |-> "resume", child |-> c]
         x == [h[c] EXCEPT !.adm = FALSE, !.rec = "running", !.session = TRUE, !.ring = resumed]
     IN  /\ parent' = IF resumed THEN Free ELSE parent
         /\ \/ /\ h[c].st = "over" \/ h[c].run # "none"
               /\ h' = [h EXCEPT ![c] = Settled(x, @.run)]
               /\ UNCHANGED watch
            \/ /\ h[c].st = "pending" /\ h[c].run = "none"
               /\ h' = [h EXCEPT ![c] = [x EXCEPT !.st = "running", !.run = "on", !.armed = TRUE]]
               /\ UNCHANGED watch
            \/ \* createSession rejects
               /\ h[c].turn = 1
               /\ h' = [h EXCEPT ![c] = [Settled(x, "none") EXCEPT !.session = FALSE]]
               /\ watch' = watch \cup {c}
  /\ UNCHANGED <<mode, live, pool, chain, outputs, fin, dones>>

(* The run of the turn ends by itself, completed or failed: a chain asks. *)
Completes(c) ==
  /\ Quiet /\ h[c].run = "on" /\ h[c].depth = 0
  /\ \E ok \in IF chain # <<>> /\ h[c].turn = 1 THEN BOOLEAN ELSE {FALSE} :
       h' = [h EXCEPT ![c] = [Settled(@, "none") EXCEPT !.ok = ok]]
  /\ watch' = IF h[c].turn = 1 THEN watch \cup {c} ELSE watch
  /\ UNCHANGED <<mode, live, parent, pool, chain, outputs, fin, dones>>

(* The turn's timeout, or the stall timer: abort() is not awaited. *)
TimesOut(c) ==
  /\ Quiet /\ h[c].run = "on"
  /\ EndTurn(c, "aborted")
  /\ UNCHANGED <<mode, live, parent, pool, chain, outputs, fin, dones>>

Stalls(c) ==
  /\ Quiet /\ h[c].armed
  /\ EndTurn(c, "aborted")
  /\ UNCHANGED <<mode, live, parent, pool, chain, outputs, fin, dones>>

(* An aborted run is over when its tools have returned; so is the call     *)
(* that awaits the abort.                                                  *)
RunDrains(c) ==
  /\ Quiet /\ h[c].run \in {"interrupted", "aborted"} /\ ~h[c].waiter
  /\ h' = [h EXCEPT ![c].run = "none", ![c].other = FALSE, ![c].depth = 0]
  /\ parent' = IF parent = [call |-> "interrupt", child |-> c] THEN Free ELSE parent
  /\ UNCHANGED <<mode, live, watch, pool, chain, outputs, fin, dones>>

-----------------------------------------------------------------------------
(* Tools of a child, and decisions *)

(* tool_execution_start and tool_execution_end, as the runner hears them *)
ToolStart(x) == [x EXCEPT !.depth = @ + 1, !.armed = FALSE]

ToolEnd(x) ==
  LET d == IF x.depth = 0 THEN 0 ELSE x.depth - 1
  IN  [x EXCEPT !.depth = d, !.armed = x.st = "running" /\ d = 0 /\ ~x.paused]

ToolStarts(c) ==
  /\ Quiet /\ h[c].run = "on" /\ ~h[c].other
  /\ h' = [h EXCEPT ![c] = [ToolStart(@) EXCEPT !.other = TRUE]]
  /\ UNCHANGED <<mode, live, parent, watch, pool, chain, outputs, fin, dones>>

ToolReturns(c) ==
  /\ Quiet /\ h[c].run = "on" /\ h[c].other
  /\ h' = [h EXCEPT ![c] = [ToolEnd(@) EXCEPT !.other = FALSE]]
  /\ UNCHANGED <<mode, live, parent, watch, pool, chain, outputs, fin, dones>>

(* contact_supervisor(need_decision): beginDecision, pauseStall.  While a  *)
(* request waits another one is refused, and nothing changes.              *)
Ask(c) ==
  /\ Quiet /\ h[c].run = "on" /\ ~h[c].waiter /\ h[c].asks < MaxAsks
  /\ h' = [h EXCEPT ![c] = [ToolStart(h[c]) EXCEPT !.waiter = TRUE, !.paused = TRUE, !.asks = @ + 1]]
  /\ UNCHANGED <<mode, live, parent, watch, pool, chain, outputs, fin, dones>>

(* resumeStall *)
ResumeStall(x) ==
  [x EXCEPT !.paused = FALSE, !.armed = x.st = "running" /\ x.depth = 0]

(* The waiter is gone and its promise resolved: the tool returns. *)
Answered(x) == ToolEnd(ResumeStall([x EXCEPT !.waiter = FALSE]))

(* resolveDecision: agent_message reply, or /reply *)
Reply(c) ==
  /\ Quiet /\ h[c].waiter
  /\ h' = [h EXCEPT ![c] = Answered(@)]
  /\ UNCHANGED <<mode, live, parent, watch, pool, chain, outputs, fin, dones>>

(* Mutant: the timer goes with the turn's other timers. *)
DecisionTimesOutInTurn(c) ==
  /\ Quiet /\ h[c].waiter /\ h[c].st = "running"
  /\ h' = [h EXCEPT ![c] = Answered(@)]
  /\ UNCHANGED <<mode, live, parent, watch, pool, chain, outputs, fin, dones>>

(* The waiter's own timer: ten minutes are over. *)
DecisionTimesOut(c) ==
  /\ Quiet /\ h[c].waiter
  /\ h' = [h EXCEPT ![c] = Answered(@)]
  /\ UNCHANGED <<mode, live, parent, watch, pool, chain, outputs, fin, dones>>

-----------------------------------------------------------------------------
(* The subagent tool: its actions, and the user's *)

(* interrupt(): a turn that still queues has no run to abort. *)
Interrupted(c) ==
  /\ h[c].session /\ h[c].st # "over"
  /\ EndTurn(c, IF h[c].run = "on" THEN "interrupted" ELSE h[c].run)

(* action "interrupt" awaits the abort; it finds active children by record. *)
ParentInterrupts(c) ==
  /\ Quiet /\ parent = Free /\ h[c].rec # "over" /\ Interrupted(c)
  /\ parent' = IF h'[c].run = "none" THEN Free ELSE [call |-> "interrupt", child |-> c]
  /\ UNCHANGED <<mode, live, pool, chain, outputs, fin, dones>>

(* /tasks, while the parent may be in a call *)
UserInterrupts(c) ==
  /\ Quiet /\ Interrupted(c)
  /\ UNCHANGED <<mode, live, parent, pool, chain, outputs, fin, dones>>

(* action "resume": a new turn, whose beginGeneration waits for a slot.    *)
(* The wait for a remembered abort is in Subagents.tla.                    *)
Resume(c) ==
  /\ Quiet /\ parent = Free
  /\ h[c].session /\ h[c].rec = "over" /\ h[c].st = "over" /\ ~h[c].adm
  /\ h[c].run # "aborted" /\ h[c].turn < MaxTurns
  /\ parent' = [call |-> "resume", child |-> c]
  /\ h' = [h EXCEPT ![c] = [h[c] EXCEPT !.st = "pending", !.turn = @ + 1, !.adm = TRUE,
                                        !.depth = 0, !.paused = FALSE, !.handed = 0, !.seen = FALSE]]
  /\ UNCHANGED <<mode, live, watch, pool, chain, outputs, fin, dones>>

(* The resumed turn has ended: a handover, or else the run is told as done. *)
ResumedEnds(c) ==
  /\ Rings(c) /\ live
  /\ IF HandsOver(c)
       THEN h' = [HandOver({c}) EXCEPT ![c].ring = FALSE] /\ UNCHANGED dones
       ELSE h' = [AllTold EXCEPT ![c].ring = FALSE] /\ dones' = dones + 1
  /\ UNCHANGED <<mode, live, parent, watch, pool, chain, outputs, fin>>

(* session_shutdown: disposeAll, comms.dispose.  Calls are abandoned. *)
Shutdown ==
  /\ Quiet
  /\ live' = FALSE /\ parent' = Free
  /\ h' = [c \in Child |->
             [Answered(Settled(h[c], "none")) EXCEPT !.session = FALSE, !.armed = FALSE]]
  /\ UNCHANGED <<mode, watch, pool, chain, outputs, fin, dones>>

Next ==
  \/ StartRun \/ StartStep \/ Tracked \/ BudgetOver \/ Shutdown
  \/ \E c \in Child :
       \/ Watch(c) \/ Admit(c) \/ Completes(c) \/ TimesOut(c) \/ Stalls(c) \/ RunDrains(c)
       \/ ToolStarts(c) \/ ToolReturns(c) \/ Ask(c) \/ Reply(c) \/ DecisionTimesOut(c)
       \/ ParentInterrupts(c) \/ UserInterrupts(c) \/ Resume(c) \/ ResumedEnds(c)

Spec == Init /\ [][Next]_vars

(* Reactions run, timers fire, slots come round, and a run that was        *)
(* aborted ends once its tools return.  No child has to end by itself, and *)
(* nobody has to reply.                                                    *)
Fairness ==
  /\ WF_vars(StartStep) /\ WF_vars(Tracked) /\ WF_vars(BudgetOver)
  /\ \A c \in Child :
       /\ WF_vars(Watch(c)) /\ WF_vars(ResumedEnds(c)) /\ WF_vars(Admit(c))
       /\ WF_vars(TimesOut(c)) /\ WF_vars(RunDrains(c)) /\ WF_vars(DecisionTimesOut(c))

FairSpec == Spec /\ Fairness

-----------------------------------------------------------------------------
(* Properties *)

(* A run that is not waited for keeps nothing to itself: once the          *)
(* reactions have run, the parent was told of every turn that ended, in a  *)
(* handover, a "done" wake or the call's own result; and no turn's result  *)
(* was handed over twice.                                                  *)
TurnsTold ==
  \A c \in Child :
    /\ Quiet /\ mode \in {"background", "delivered"} /\ h[c].st = "over" /\ ~h[c].adm =>
         h[c].seen
    /\ h[c].handed <= 1

(* "Done" means that every child of the run has finished. *)
DoneMeansOver == [][dones' # dones => \A c \in Child : h[c].turn = 0 \/ h[c].st = "over"]_vars

(* A chain's prompt refers to nothing that is missing when the step is     *)
(* submitted, so interpolateChainPrompt never meets a reference without a  *)
(* text ("Should be unreachable after validateChainSteps").                *)
PromptsFilled == [][StepDue /\ ~StepDue' => Head(chain).refs \subseteq outputs]_vars

(* Every call of the subagent tool returns, though the run it waits for    *)
(* goes on, the child it interrupts waits for a decision which the parent, *)
(* being in the call, cannot give, or the slots are taken.                 *)
ParentFreed == parent # Free ~> parent = Free
=============================================================================
