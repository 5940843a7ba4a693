-------------------------------- MODULE Messages --------------------------------
(***************************************************************************)
(* What agents of a session say to each other: agent_message and           *)
(* contact_supervisor (extension/src/comms/), and the /reply command of    *)
(* the user.                                                               *)
(*                                                                         *)
(* A message is delivered by an await on the target's session: children    *)
(* end, stall and are resumed while a call waits.  What a decision does to *)
(* the child that waits for it (its stall watchdog, its turn) is in        *)
(* Comms.tla; here the subject is who gets which words and what the        *)
(* mailbox says of it.                                                     *)
(*                                                                         *)
(* The session of a child (pi) is external: it takes a message or refuses  *)
(* it, and says so later.                                                  *)
(***************************************************************************)
EXTENDS Naturals, Sequences, FiniteSets, SequencesExt, Functions

CONSTANTS
  Registry,    \* the children of the session, in the order the registry lists them
  RunOf,       \* the run of each
  NameOf,      \* the display name of each; not unique
  Capacity,    \* entries a run's ring holds (200)
  LogLimit,    \* entries "list" shows (20)
  Talker,      \* bound: the children that call these tools
  MaxCalls,    \* bound: calls of agent_message, contact_supervisor and /reply
  MaxAgain     \* bound: resumes and stalls

Child == ToSet(Registry)
Run == {RunOf[c] : c \in Child}
Name == {NameOf[c] : c \in Child}

Supervisor == "supervisor"

(* An id is never "supervisor" (it starts with "ch_", registry.ts newId).  *)
ConstantsOK ==
  /\ Registry \in Seq(Child) /\ IsInjective(Registry) /\ Supervisor \notin Child
  /\ Talker \subseteq Child /\ Name \cap Child = {}
  /\ LogLimit \in Nat /\ Capacity \in Nat /\ 0 < LogLimit /\ LogLimit <= Capacity
  /\ MaxCalls \in Nat /\ MaxAgain \in Nat

ASSUME MessagesAssumption == ConstantsOK

VARIABLES
  ph,      \* a child is "pending", "between" (recorded as running, but it has no session
           \* or restarts after a stall), "running" or "over"
  inbox,   \* what a child's session took, in order
  waiter,  \* the mailbox: the request a child waits on, 0 if none
  reason,  \* a child's contact_supervisor calls
  answer,  \* what each returned
  call,    \* the agent_message call a sender awaits
  ring,    \* the mailbox: entries of each run
  live,    \* session_shutdown has not been
  again    \* resumes and stalls

VARIABLES  \* history
  said,    \* all entries ever appended
  calls,   \* calls of agents and of the user
  told     \* what broadcasts reported

control == <<ph, again>>
history == <<calls, told>>
vars == <<ph, again, inbox, waiter, reason, answer, call, ring, live, said, calls, told>>

Idle == [op |-> "idle"]
Sender == Child \cup {Supervisor}

(* A message knows who it is from, and whether its author named another    *)
(* child than the one it went to; what the mailbox answers is a text.      *)
Message(from) == [id |-> calls + 1, from |-> from, astray |-> FALSE]
Text(words) == [id |-> 0, from |-> words, astray |-> FALSE]

TypeOK ==
  /\ ph \in [Child -> {"pending", "between", "running", "over"}]
  /\ waiter \in [Child -> 0..MaxCalls]
  /\ DOMAIN reason = Child /\ DOMAIN answer = Child /\ DOMAIN call = Sender
  /\ \A c \in Child : Len(reason[c]) = Len(answer[c]) /\ Len(reason[c]) <= MaxCalls
  /\ \A s \in Sender : call[s].op \in {"idle", "send", "broadcast"}
  /\ \A r \in Run : Len(ring[r]) <= Capacity
  /\ live \in BOOLEAN /\ again \in 0..MaxAgain /\ calls \in 0..MaxCalls

(* The children's first turns run; how they get there is in Subagents.tla. *)
Init ==
  /\ ph = [c \in Child |-> "running"] /\ again = 0
  /\ inbox = [c \in Child |-> << >>]
  /\ waiter = [c \in Child |-> 0]
  /\ reason = [c \in Child |-> << >>] /\ answer = [c \in Child |-> << >>]
  /\ call = [s \in Sender |-> Idle]
  /\ ring = [r \in Run |-> << >>] /\ live = TRUE
  /\ said = << >> /\ calls = 0 /\ told = {}

-----------------------------------------------------------------------------
(* The mailbox *)

LastOf(s, n) == SubSeq(s, Len(s) - n + 1, Len(s))
Latest(s, n) == IF Len(s) <= n THEN s ELSE LastOf(s, n)

Entry(from, to, kind, message) ==
  [ts |-> Len(said) + 1, from |-> from, to |-> to, kind |-> kind,
   message |-> message, reply |-> Text("none")]

(* Mutant: a ring that is full keeps what it has. *)
AppendedUntilFull(r, e) == IF Len(ring[r]) = Capacity THEN ring[r] ELSE Append(ring[r], e)

(* append: the oldest entries of the run are dropped past its capacity. *)
Appended(r, e) == Latest(Append(ring[r], e), Capacity)

(* A reply is kept with its request's entry, if the ring still has that. *)
IsRequest(e, c, k) == e.kind = "need_decision" /\ e.from = c /\ e.message = k

(* Mutant: the reply is written on every request of that child. *)
WithReplyAll(entries, c, k, text) ==
  [i \in DOMAIN entries |->
     IF entries[i].kind = "need_decision" /\ entries[i].from = c
       THEN [entries[i] EXCEPT !.reply = text] ELSE entries[i]]

WithReply(entries, c, k, text) ==
  [i \in DOMAIN entries |->
     IF IsRequest(entries[i], c, k) THEN [entries[i] EXCEPT !.reply = text] ELSE entries[i]]

(* The waiter of c is resolved with text; e is appended first, if any. *)
Resolve(c, text, e) ==
  LET r == RunOf[c] IN
  /\ answer' = [answer EXCEPT ![c][waiter[c]] = text]
  /\ waiter' = [waiter EXCEPT ![c] = 0]
  /\ ring' = [ring EXCEPT ![r] =
                WithReply(IF e = << >> THEN @ ELSE Appended(r, Head(e)), c, waiter[c], text)]
  /\ said' = said \o e

(* log: the newest entries of a run. *)
Log(r, limit) == Latest(ring[r], limit)

(* "list" in the session of the parent: the newest entries of all runs. *)
Recent ==
  LET all == UNION {ToSet(Log(r, Capacity)) : r \in Run}
  IN  {e \in all : Cardinality({d \in all : d.ts > e.ts}) < LogLimit}

-----------------------------------------------------------------------------
(* Finding a child *)

(* resolveChildRef: an id, or a name only one child has. *)
ResolveChildRef(ref) ==
  IF ref \in Child THEN {ref}
  ELSE LET named == {c \in Child : NameOf[c] = ref}
       IN  IF Cardinality(named) = 1 THEN named ELSE {}

SameRun(a, b) == RunOf[a] = RunOf[b]

(* assertSiblingAllowed; the parent may talk to every child. *)
Allowed(s, c) == s # Supervisor => s # c /\ SameRun(s, c)

(* resolveSingleTerminalChild: the first child of the run with that id or  *)
(* name, or the only child of the run; if it is over.                      *)
TerminalChild(r, ref) ==
  LET children == SelectSeq(Registry, LAMBDA c : RunOf[c] = r)
      found == SelectSeq(children, LAMBDA c : ref \in {c, NameOf[c]})
  IN  {c \in Child : ph[c] = "over" /\ IF ref = "none" THEN children = <<c>>
                                       ELSE found # << >> /\ c = Head(found)}

(* A tool is called by an agent whose session runs and that awaits no      *)
(* other agent_message.                                                    *)
MayCall(s) ==
  /\ live /\ call[s] = Idle /\ calls < MaxCalls
  /\ s # Supervisor => s \in Talker /\ ph[s] = "running"

-----------------------------------------------------------------------------
(* agent_message *)

(* steer and followUp of a handle: only in a turn that runs.  The session  *)
(* has the message when the call starts to wait.                           *)
Takes(c) == ph[c] = "running"

(* "send": steered or queued. *)
Send(s, ref) ==
  /\ MayCall(s)
  /\ \E c \in ResolveChildRef(ref) :
       /\ Allowed(s, c) /\ Takes(c)
       /\ LET m == Message(s)
          IN  /\ inbox' = [inbox EXCEPT ![c] = Append(@, m)]
              /\ call' = [call EXCEPT ![s] = [op |-> "send", msg |-> m, run |-> RunOf[c],
                                              todo |-> {c}, waits |-> TRUE, got |-> {}]]
  /\ calls' = calls + 1
  /\ UNCHANGED <<control, waiter, reason, answer, ring, live, said, told>>

(* "broadcast": the children of the run that are recorded as running now. *)
Broadcast(s, r) ==
  /\ MayCall(s)
  /\ s # Supervisor => r = RunOf[s]
  /\ LET targets == {c \in Child : RunOf[c] = r /\ c # s /\ ph[c] \in {"between", "running"}}
     IN  call' = [call EXCEPT ![s] =
                    IF targets = {} THEN Idle
                    ELSE [op |-> "broadcast", run |-> r, todo |-> targets, waits |-> FALSE,
                          got |-> {}, msg |-> Message(s)]]
  /\ calls' = calls + 1
  /\ UNCHANGED <<control, inbox, waiter, reason, answer, ring, live, said, told>>

(* The target a call is at: the first in the order of the registry.        *)
Precedes(c, d) == \E i, j \in DOMAIN Registry : i <= j /\ Registry[i] = c /\ Registry[j] = d
At(s, c) == c \in call[s].todo /\ \A d \in call[s].todo : Precedes(c, d)

(* The call goes on after its target c, got being those that have the      *)
(* message; a broadcast then reports them.                                 *)
Continue(s, c, got) ==
  LET over == call[s].todo = {c} IN
  /\ call' = [call EXCEPT ![s] =
                IF over THEN Idle
                ELSE [call[s] EXCEPT !.todo = @ \ {c}, !.waits = FALSE, !.got = got]]
  /\ told' = IF over /\ call[s].op = "broadcast"
               THEN told \cup {[id |-> call[s].msg.id, got |-> got]} ELSE told

(* The target is steered, if its session takes it; it may be over, or      *)
(* resumed, since it was listed.                                           *)
Steer(s, c) ==
  /\ call[s].op = "broadcast" /\ ~call[s].waits /\ At(s, c)
  /\ live /\ Takes(c)
  /\ inbox' = [inbox EXCEPT ![c] = Append(@, call[s].msg)]
  /\ call' = [call EXCEPT ![s].waits = TRUE]
  /\ UNCHANGED <<control, waiter, reason, answer, ring, live, said, history>>

(* Or it is passed over: it does not run, or its session refuses. *)
PassOver(s, c) ==
  /\ call[s].op = "broadcast" /\ ~call[s].waits /\ At(s, c)
  /\ Continue(s, c, call[s].got)
  /\ UNCHANGED <<control, inbox, waiter, reason, answer, ring, live, said, calls>>

(* Mutant: a broadcast makes one entry, when its last target has it. *)
DeliveredAtEnd(s, c) ==
  LET e == Entry(s, c, call[s].op, call[s].msg)
      last == call[s].todo = {c}
  IN
  /\ call[s] # Idle /\ call[s].waits /\ At(s, c)
  /\ ring' = IF last THEN [ring EXCEPT ![call[s].run] = Appended(call[s].run, e)] ELSE ring
  /\ said' = IF last THEN Append(said, e) ELSE said
  /\ Continue(s, c, call[s].got \cup {c})
  /\ UNCHANGED <<control, inbox, waiter, reason, answer, live, calls>>

(* The session has answered: the entry is made. *)
Delivered(s, c) ==
  LET e == Entry(s, c, call[s].op, call[s].msg)
  IN
  /\ call[s] # Idle /\ call[s].waits /\ At(s, c)
  /\ ring' = [ring EXCEPT ![call[s].run] = Appended(call[s].run, e)]
  /\ said' = Append(said, e)
  /\ Continue(s, c, call[s].got \cup {c})
  /\ UNCHANGED <<control, inbox, waiter, reason, answer, live, calls>>

(* "reply" *)
Reply(s, ref) ==
  /\ MayCall(s)
  /\ \E c \in ResolveChildRef(ref) :
       /\ Allowed(s, c) /\ waiter[c] # 0
       /\ Resolve(c, Message(s), <<Entry(s, c, "reply", Message(s))>>)
  /\ calls' = calls + 1
  /\ UNCHANGED <<control, inbox, reason, call, live, told>>

(* /reply: the first word is looked up among the children that wait; with  *)
(* only one of them waiting, all words are its reply.                      *)
UserReply(word) ==
  LET pending == {c \in Child : waiter[c] # 0}
      matched == {c \in pending : word \in {c, NameOf[c]}}
      target == IF matched = {} THEN pending ELSE matched
      named == {c \in Child : word \in {c, NameOf[c]}}
  IN
  /\ live /\ calls < MaxCalls
  /\ Cardinality(target) = 1
  /\ \E c \in target :
       LET m == [Message(Supervisor) EXCEPT !.astray = named # {} /\ c \notin named]
       IN  Resolve(c, m, <<Entry(Supervisor, c, "reply", m)>>)
  /\ calls' = calls + 1
  /\ UNCHANGED <<control, inbox, reason, call, live, told>>

-----------------------------------------------------------------------------
(* contact_supervisor *)

(* What the call has returned, before the request it may be is answered. *)
Returned(why, refused) ==
  Text(IF why = "progress_update" THEN "ok" ELSE IF refused THEN "refused" ELSE "none")

(* "progress_update", and "need_decision": the entry comes first; a second *)
(* request while one waits is refused after that.                          *)
Contact(c, why) ==
  LET k == Len(reason[c]) + 1
      refused == why = "need_decision" /\ waiter[c] # 0
      e == Entry(c, Supervisor, why, k)
  IN
  /\ live /\ ph[c] = "running" /\ c \in Talker /\ calls < MaxCalls
  /\ reason' = [reason EXCEPT ![c] = Append(@, why)]
  /\ answer' = [answer EXCEPT ![c] = Append(@, Returned(why, refused))]
  /\ waiter' = IF why = "need_decision" /\ ~refused THEN [waiter EXCEPT ![c] = k] ELSE waiter
  /\ ring' = [ring EXCEPT ![RunOf[c]] = Appended(RunOf[c], e)]
  /\ said' = Append(said, e)
  /\ calls' = calls + 1
  /\ UNCHANGED <<control, inbox, call, live, told>>

(* The decision timer. *)
DecisionTimesOut(c) ==
  /\ live /\ waiter[c] # 0
  /\ Resolve(c, Text("timeout"), << >>)
  /\ UNCHANGED <<control, inbox, reason, call, live, history>>

-----------------------------------------------------------------------------
(* The subagent tool *)

(* action "resume": a new turn, that waits for admission. *)
Resume(r, ref) ==
  /\ live /\ again < MaxAgain
  /\ \E c \in TerminalChild(r, ref) : ph' = [ph EXCEPT ![c] = "pending"]
  /\ again' = again + 1
  /\ UNCHANGED <<inbox, waiter, reason, answer, call, ring, live, said, history>>

(* A turn that was resumed is admitted, or one that stalled starts again.  *)
Runs(c) ==
  /\ live /\ ph[c] \in {"pending", "between"}
  /\ ph' = [ph EXCEPT ![c] = "running"]
  /\ UNCHANGED <<again, inbox, waiter, reason, answer, call, ring, live, said, history>>

Stalls(c) ==
  /\ ph[c] = "running" /\ again < MaxAgain
  /\ ph' = [ph EXCEPT ![c] = "between"]
  /\ again' = again + 1
  /\ UNCHANGED <<inbox, waiter, reason, answer, call, ring, live, said, history>>

(* Its turn ends: completed, failed or interrupted.  A decision it waits   *)
(* for stays in the mailbox.                                               *)
Ends(c) ==
  /\ ph[c] # "over"
  /\ ph' = [ph EXCEPT ![c] = "over"]
  /\ UNCHANGED <<again, inbox, waiter, reason, answer, call, ring, live, said, history>>

(* session_shutdown: every run is disposed of, and the waiters resolve as  *)
(* if their time were over.                                                *)
Shutdown ==
  /\ live
  /\ live' = FALSE
  /\ ph' = [c \in Child |-> "over"]
  /\ waiter' = [c \in Child |-> 0]
  /\ answer' = [c \in Child |-> [k \in DOMAIN answer[c] |->
                                   IF k = waiter[c] THEN Text("timeout") ELSE answer[c][k]]]
  /\ ring' = [r \in Run |-> [i \in DOMAIN ring[r] |->
                LET e == ring[r][i] IN
                IF \E c \in Child : IsRequest(e, c, waiter[c])
                  THEN [e EXCEPT !.reply = Text("timeout")] ELSE e]]
  /\ UNCHANGED <<again, inbox, reason, call, said, history>>

Next ==
  \/ \E s \in Sender, ref \in Child \cup Name : Send(s, ref) \/ Reply(s, ref)
  \/ \E s \in Sender, r \in Run : Broadcast(s, r)
  \/ \E s \in Sender, c \in Child : Steer(s, c) \/ PassOver(s, c) \/ Delivered(s, c)
  \/ \E word \in Child \cup Name \cup {"words"} : UserReply(word)
  \/ \E c \in Child, why \in {"progress_update", "need_decision"} : Contact(c, why)
  \/ \E r \in Run, ref \in Child \cup Name \cup {"none"} : Resume(r, ref)
  \/ \E c \in Child : DecisionTimesOut(c) \/ Runs(c) \/ Stalls(c) \/ Ends(c)
  \/ Shutdown

Spec == Init /\ [][Next]_vars

-----------------------------------------------------------------------------
(* Properties *)

Entries == {said[i] : i \in DOMAIN said}
InFlight(c, m) ==
  \E s \in Sender : call[s].op # "idle" /\ call[s].waits /\ call[s].msg = m /\ At(s, c)

(* What the mailbox and a broadcast's report say was delivered is what the *)
(* sessions took: of every agent_message a session has, there is one entry *)
(* or the sender's call still waits for it; no child has a message twice,  *)
(* although it may end and be resumed while a broadcast goes round; and    *)
(* what comes from a child is from a sibling (Comms.send, broadcast,       *)
(* assertSiblingAllowed).                                                  *)
DeliveryAccounted ==
  /\ \A c \in Child : \A m \in ToSet(inbox[c]) :
       /\ Cardinality({i \in DOMAIN inbox[c] : inbox[c][i].id = m.id}) = 1
       /\ Cardinality({e \in Entries : e.to = c /\ e.message = m})
            = IF InFlight(c, m) THEN 0 ELSE 1
       /\ m.from \in Child => m.from # c /\ SameRun(m.from, c)
  /\ \A e \in Entries : e.kind \in {"send", "broadcast"} => e.message \in ToSet(inbox[e.to])
  /\ \A t \in told : t.got = {c \in Child : \E m \in ToSet(inbox[c]) : m.id = t.id}

Decisions(c) == {k \in DOMAIN reason[c] : reason[c][k] = "need_decision"}
Taken(m) == {x \in UNION {{c} \X Decisions(c) : c \in Child} : answer[x[1]][x[2]] = m}

(* Every reply the mailbox accepted is the answer of one request and no    *)
(* other, of the child the entry says; a request is unanswered exactly     *)
(* while the mailbox has its waiter; and a request's entry, as long as the *)
(* ring has it, shows its own answer and not that of a later or a refused  *)
(* one (contactSupervisor, Mailbox.resolveDecision).                       *)
AnswersKept ==
  /\ \A e \in Entries : e.kind = "reply" =>
       \E k \in Decisions(e.to) : Taken(e.message) = {<<e.to, k>>}
  /\ \A c \in Child : \A k \in Decisions(c) :
       /\ (answer[c][k] = Text("none")) <=> (waiter[c] = k)
       /\ \A i \in DOMAIN ring[RunOf[c]] :
            IsRequest(ring[RunOf[c]][i], c, k) =>
              ring[RunOf[c]][i].reply =
                IF answer[c][k] = Text("refused") THEN Text("none") ELSE answer[c][k]

RunOfEntry(e) == IF e.to \in Child THEN RunOf[e.to] ELSE RunOf[e.from]
Stamps(entries) == [i \in DOMAIN entries |-> entries[i].ts]

(* "list" shows the newest messages: rings that forget run by run never    *)
(* hide one of the newest of all, or of the run a child asks about.        *)
RecentIsRecent ==
  /\ {e.ts : e \in Recent} = ToSet(Stamps(Latest(said, LogLimit)))
  /\ \A r \in Run :
       Stamps(Log(r, LogLimit)) =
         Stamps(Latest(SelectSeq(said, LAMBDA e : RunOfEntry(e) = r), LogLimit))

(* VIOLATED.  /reply <child> <text> answers that child's request, or none: *)
(* "answer with `/reply <child> <text>`; the child continues"              *)
(* (docs/testing-guide.md:62).  When the named child's request has timed   *)
(* out and one other child waits, the words go to that other child.        *)
ReplyReachesNamed ==
  \A c \in Child : \A k \in Decisions(c) : ~answer[c][k].astray
=============================================================================
