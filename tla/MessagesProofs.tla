---------------------------- MODULE MessagesProofs ----------------------------
(***************************************************************************)
(* Theorems about Messages, for any children, runs and names, any          *)
(* capacities and any bounds: every reply answers one request, and a       *)
(* request's entry shows its answer (AnswersKept); what the mailbox and a  *)
(* broadcast's report say was delivered is what the sessions took          *)
(* (DeliveryAccounted).                                                    *)
(***************************************************************************)
EXTENDS Messages, FiniteSetTheorems, SequenceTheorems, TLAPS

(* Types.  A message of an agent has the number of the call it was said    *)
(* in; a text of the mailbox has none.                                     *)
MessageSet ==
  [id : Nat, from : Sender \cup {"ok", "refused", "none", "timeout"}, astray : BOOLEAN]

EntrySet ==
  [ts : Nat, from : Sender, to : Sender,
   kind : {"send", "broadcast", "reply", "progress_update", "need_decision"},
   message : MessageSet \cup Nat, reply : MessageSet]

CallSet ==
  {Idle} \cup [op : {"send", "broadcast"}, msg : MessageSet, run : Run,
                 todo : SUBSET Child, waits : BOOLEAN, got : SUBSET Child]

MailShapes ==
  /\ calls \in Nat
  /\ waiter \in [Child -> Nat]
  /\ reason \in [Child -> Seq({"progress_update", "need_decision"})]
  /\ answer \in [Child -> Seq(MessageSet)]
  /\ inbox \in [Child -> Seq(MessageSet)]
  /\ call \in [Sender -> CallSet]
  /\ ring \in [Run -> Seq(EntrySet)]
  /\ said \in Seq(EntrySet)

Held(r) == {ring[r][i] : i \in DOMAIN ring[r]}

(* What the mailbox owes a child: it waits on a decision it asked for, and *)
(* that is the one without an answer.                                      *)
AskedOk(c) ==
  /\ Len(answer[c]) = Len(reason[c])
  /\ waiter[c] # 0 => waiter[c] \in Decisions(c)
  /\ \A k \in DOMAIN answer[c] : answer[c][k].id <= calls
  /\ \A k \in Decisions(c) : answer[c][k] = Text("none") <=> waiter[c] = k

(* The reply the entry of a request shows. *)
Shown(a) == IF a = Text("refused") THEN Text("none") ELSE a

RequestOk(r, e) ==
  e.kind = "need_decision" =>
    /\ e.from \in Child /\ RunOf[e.from] = r
    /\ e.message \in Decisions(e.from)
    /\ e.reply = Shown(answer[e.from][e.message])

(* One request has the reply's words as its answer, of the child it went   *)
(* to.                                                                     *)
ReplyOk(e) ==
  e.kind = "reply" =>
    /\ e.to \in Child /\ e.message \in MessageSet /\ e.message.id \in 1..calls
    /\ \E k \in Decisions(e.to) :
         /\ answer[e.to][k] = e.message
         /\ \A d \in Child : \A j \in Decisions(d) :
              answer[d][j] = e.message => d = e.to /\ j = k

AnswersInv ==
  /\ MailShapes
  /\ \A c \in Child : AskedOk(c)
  /\ \A r \in Run : \A e \in Held(r) : RequestOk(r, e)
  /\ \A i \in DOMAIN said : ReplyOk(said[i])

-----------------------------------------------------------------------------
LEMMA DecisionsAre ==
  ASSUME MailShapes, NEW c \in Child
  PROVE  /\ Decisions(c) \subseteq Nat \ {0}
         /\ \A k : k \in Decisions(c) <=>
                     k \in 1..Len(reason[c]) /\ reason[c][k] = "need_decision"
BY DEF MailShapes, Decisions

LEMMA TextsAre ==
  /\ \A w \in {"ok", "refused", "none", "timeout"} : Text(w) \in MessageSet /\ Text(w).id = 0
  /\ Text("none") # Text("refused")
  /\ Text("none") # Text("timeout")
  /\ Text("timeout") # Text("refused")
  /\ Text("ok") # Text("none")
BY DEF Text, MessageSet

LEMMA MessageIs ==
  ASSUME MailShapes, NEW s \in Sender
  PROVE  /\ Message(s) \in MessageSet
         /\ Message(s).id = calls + 1 /\ Message(s).from = s
BY DEF Message, MessageSet, MailShapes

(* The newest n elements of a sequence are elements of it. *)
LEMMA LatestOf ==
  ASSUME NEW s \in Seq(EntrySet), NEW n \in Nat
  PROVE  /\ Latest(s, n) \in Seq(EntrySet)
         /\ \A i \in DOMAIN Latest(s, n) : \E j \in DOMAIN s : Latest(s, n)[i] = s[j]
<1>1. CASE Len(s) <= n
  BY <1>1 DEF Latest
<1>2. CASE ~(Len(s) <= n)
  <2> DEFINE m == Len(s) - n + 1
             t == SubSeq(s, m, Len(s))
  <2>1. Latest(s, n) = t
    BY <1>2 DEF Latest, LastOf
  <2>2. Len(s) \in Nat /\ m \in Int /\ m >= 1
    BY <1>2
  <2>3. \A i \in m..Len(s) : s[i] \in EntrySet
    BY <2>2
  <2>4. /\ t \in Seq(EntrySet)
        /\ Len(t) = IF m <= Len(s) THEN Len(s) - m + 1 ELSE 0
        /\ \A i \in 1..Len(s) - m + 1 : t[i] = s[m + i - 1]
    BY <2>2, <2>3, SubSeqProperties
  <2>5. \A i \in DOMAIN t : m + i - 1 \in DOMAIN s /\ t[i] = s[m + i - 1]
    BY <2>2, <2>4
  <2> QED
    BY <2>1, <2>4, <2>5
<1> QED
  BY <1>1, <1>2

(* A run's ring after append has the new entry and some of those before.   *)
LEMMA AppendedIs ==
  ASSUME ConstantsOK, MailShapes, NEW r \in Run, NEW e \in EntrySet
  PROVE  /\ Appended(r, e) \in Seq(EntrySet)
         /\ \A i \in DOMAIN Appended(r, e) :
              Appended(r, e)[i] = e \/ Appended(r, e)[i] \in Held(r)
<1> DEFINE t == Append(ring[r], e)
             u == Latest(t, Capacity)
<1>1. t \in Seq(EntrySet)
  BY DEF MailShapes
<1>2. \A i \in DOMAIN t : t[i] = e \/ t[i] \in Held(r)
  BY DEF MailShapes, Held
<1>3. Capacity \in Nat
  BY DEF ConstantsOK
<1> HIDE DEF t
<1>4. \A s \in Seq(EntrySet) :
        /\ Latest(s, Capacity) \in Seq(EntrySet)
        /\ \A i \in DOMAIN Latest(s, Capacity) :
             \E j \in DOMAIN s : Latest(s, Capacity)[i] = s[j]
  BY <1>3, LatestOf
<1> HIDE DEF u
<1>5. \A i \in DOMAIN u : u[i] = e \/ u[i] \in Held(r)
  BY <1>1, <1>2, <1>4 DEF u
<1> QED
  BY <1>1, <1>4, <1>5 DEF Appended, t, u

(* An entry once the request k of c has its answer. *)
WithAnswer(e, c, k, text) ==
  IF IsRequest(e, c, k) THEN [e EXCEPT !.reply = text] ELSE e

LEMMA WithReplyIs ==
  ASSUME NEW u \in Seq(EntrySet), NEW c, NEW k, NEW text \in MessageSet
  PROVE  /\ WithReply(u, c, k, text) \in Seq(EntrySet)
         /\ DOMAIN WithReply(u, c, k, text) = DOMAIN u
         /\ \A i \in DOMAIN u :
              WithReply(u, c, k, text)[i] = WithAnswer(u[i], c, k, text)
<1> DEFINE t == WithReply(u, c, k, text)
<1>1. DOMAIN u = 1..Len(u) /\ Len(u) \in Nat
  OBVIOUS
<1>2. t = [i \in 1..Len(u) |-> WithAnswer(u[i], c, k, text)]
  BY <1>1 DEF WithReply, WithAnswer
<1>3. \A i \in 1..Len(u) : u[i] \in EntrySet
  OBVIOUS
<1>4. \A x \in EntrySet : WithAnswer(x, c, k, text) \in EntrySet
  BY DEF EntrySet, WithAnswer
<1>5. \A i \in 1..Len(u) : WithAnswer(u[i], c, k, text) \in EntrySet
  BY <1>3, <1>4
<1> HIDE DEF t
<1>6. t \in [1..Len(u) -> EntrySet]
  BY <1>2, <1>5
<1>7. t \in Seq(EntrySet)
  BY <1>1, <1>6
<1> QED
  BY <1>1, <1>2, <1>7 DEF t

(* What append does to the rings and to the record of all entries.         *)
LEMMA Adds ==
  ASSUME ConstantsOK, MailShapes, NEW r \in Run, NEW e \in EntrySet,
         ring' = [ring EXCEPT ![r] = Appended(r, e)], said' = Append(said, e)
  PROVE  /\ ring' \in [Run -> Seq(EntrySet)] /\ said' \in Seq(EntrySet)
         /\ \A q \in Run : \A x \in Held(q)' : x \in Held(q) \/ (q = r /\ x = e)
         /\ DOMAIN said' = DOMAIN said \cup {Len(said) + 1}
         /\ \A i \in DOMAIN said : said'[i] = said[i]
         /\ said'[Len(said) + 1] = e /\ Len(said) + 1 \notin DOMAIN said
<1>1. /\ Appended(r, e) \in Seq(EntrySet)
      /\ \A i \in DOMAIN Appended(r, e) :
           Appended(r, e)[i] = e \/ Appended(r, e)[i] \in Held(r)
  BY AppendedIs
<1>2. ring' \in [Run -> Seq(EntrySet)]
  BY <1>1 DEF MailShapes
<1>3. ring'[r] = Appended(r, e) /\ \A q \in Run \ {r} : ring'[q] = ring[q]
  BY DEF MailShapes
<1>4. \A q \in Run : \A x \in Held(q)' : x \in Held(q) \/ (q = r /\ x = e)
  BY <1>1, <1>3 DEF Held
<1>5. /\ said' \in Seq(EntrySet)
      /\ DOMAIN said' = DOMAIN said \cup {Len(said) + 1}
      /\ \A i \in DOMAIN said : said'[i] = said[i]
      /\ said'[Len(said) + 1] = e /\ Len(said) + 1 \notin DOMAIN said
  BY DEF MailShapes
<1> QED
  BY <1>2, <1>4, <1>5

LEMMA AnswerWritten ==
  ASSUME NEW s \in Seq(MessageSet), NEW k \in Nat, NEW text \in MessageSet
  PROVE  LET t == [s EXCEPT ![k] = text]
         IN  /\ t \in Seq(MessageSet) /\ DOMAIN t = DOMAIN s
             /\ \A i \in DOMAIN s : t[i] = IF i = k THEN text ELSE s[i]
<1> DEFINE t == [s EXCEPT ![k] = text]
<1>1. DOMAIN s = 1..Len(s) /\ Len(s) \in Nat /\ \A i \in 1..Len(s) : s[i] \in MessageSet
  OBVIOUS
<1>2. t = [i \in 1..Len(s) |-> IF i = k THEN text ELSE s[i]]
  BY <1>1
<1> HIDE DEF t
<1>3. t \in [1..Len(s) -> MessageSet]
  BY <1>1, <1>2
<1>4. t \in Seq(MessageSet)
  BY <1>1, <1>3
<1> QED
  BY <1>1, <1>2, <1>4 DEF t

LEMMA EntryIs ==
  ASSUME MailShapes, NEW from \in Sender, NEW to \in Sender,
         NEW kind \in {"send", "broadcast", "reply", "progress_update", "need_decision"},
         NEW m \in MessageSet \cup Nat
  PROVE  LET e == Entry(from, to, kind, m)
         IN  /\ e \in EntrySet
             /\ e.from = from /\ e.to = to /\ e.kind = kind /\ e.message = m
             /\ e.reply = Text("none")
BY TextsAre DEF Entry, EntrySet, MailShapes

LEMMA RunsOfChildren ==
  /\ \A c \in Child : RunOf[c] \in Run /\ c \in Sender
  /\ Supervisor \in Sender
BY DEF Run, Sender

(* Resolving a waiter appends at most the entry given, and writes the text *)
(* where the request is: in the answers and in the ring.                   *)
LEMMA Resolves ==
  ASSUME ConstantsOK, MailShapes, NEW c \in Child, NEW text \in MessageSet,
         NEW e, e = << >> \/ (\E x \in EntrySet : e = <<x>>),
         Resolve(c, text, e)
  PROVE  /\ answer' \in [Child -> Seq(MessageSet)]
         /\ answer' = [answer EXCEPT ![c][waiter[c]] = text]
         /\ waiter' \in [Child -> Nat] /\ waiter' = [waiter EXCEPT ![c] = 0]
         /\ ring' \in [Run -> Seq(EntrySet)]
         /\ said' = said \o e /\ said' \in Seq(EntrySet)
         /\ \A q \in Run : \A x \in Held(q)' : \E y \in EntrySet :
              /\ y \in Held(q) \/ e = <<y>>
              /\ x = IF q = RunOf[c] THEN WithAnswer(y, c, waiter[c], text) ELSE y
<1> DEFINE r == RunOf[c]
           u == IF e = << >> THEN ring[r] ELSE Appended(r, Head(e))
           t == WithReply(u, c, waiter[c], text)
<1>1. r \in Run
  BY RunsOfChildren
<1>2. answer[c] \in Seq(MessageSet) /\ ring[r] \in Seq(EntrySet) /\ waiter[c] \in Nat
  BY <1>1 DEF MailShapes
<1>3. /\ u \in Seq(EntrySet)
      /\ \A i \in DOMAIN u : u[i] \in EntrySet /\ (u[i] \in Held(r) \/ e = <<u[i]>>)
  <2>1. CASE e = << >>
    BY <1>2, <2>1 DEF Held
  <2>2. CASE e # << >>
    <3>1. PICK x \in EntrySet : e = <<x>>
      BY <2>2
    <3>2. Head(e) = x
      BY <3>1
    <3>3. u = Appended(r, x)
      BY <2>2, <3>2
    <3>4. /\ Appended(r, x) \in Seq(EntrySet)
          /\ \A i \in DOMAIN Appended(r, x) :
               Appended(r, x)[i] = x \/ Appended(r, x)[i] \in Held(r)
      BY <1>1, AppendedIs
    <3> HIDE DEF u
    <3> QED
      BY <3>1, <3>3, <3>4
  <2> QED
    BY <2>1, <2>2
<1>4. /\ answer' = [answer EXCEPT ![c][waiter[c]] = text]
      /\ waiter' = [waiter EXCEPT ![c] = 0]
      /\ ring' = [ring EXCEPT ![r] = t]
      /\ said' = said \o e
  BY DEF Resolve
<1> HIDE DEF u, r
<1>5. /\ t \in Seq(EntrySet) /\ DOMAIN t = DOMAIN u
      /\ \A i \in DOMAIN u :
           t[i] = WithAnswer(u[i], c, waiter[c], text)
  BY <1>3, WithReplyIs
<1> HIDE DEF t
<1>6. ring' \in [Run -> Seq(EntrySet)]
  BY <1>1, <1>4, <1>5 DEF MailShapes
<1>7. ring'[r] = t /\ \A q \in Run \ {r} : ring'[q] = ring[q]
  BY <1>1, <1>4 DEF MailShapes
<1>8. \A x \in Held(r)' :
        \E y \in EntrySet :
          /\ y \in Held(r) \/ e = <<y>>
          /\ x = WithAnswer(y, c, waiter[c], text)
  <2> SUFFICES ASSUME NEW i \in DOMAIN t
               PROVE  \E y \in EntrySet :
                        /\ y \in Held(r) \/ e = <<y>>
                        /\ t[i] = WithAnswer(y, c, waiter[c], text)
    BY <1>7 DEF Held, r
  <2> QED
    BY <1>3, <1>5
<1>9. answer' \in [Child -> Seq(MessageSet)] /\ waiter' \in [Child -> Nat]
  <2>1. [answer[c] EXCEPT ![waiter[c]] = text] \in Seq(MessageSet)
    BY <1>2, AnswerWritten
  <2> QED
    BY <1>4, <2>1 DEF MailShapes
<1>10. said' \in Seq(EntrySet)
  <2>1. e \in Seq(EntrySet)
    <3>1. << >> \in Seq(EntrySet)
      OBVIOUS
    <3>2. \A x \in EntrySet : <<x>> \in Seq(EntrySet)
      OBVIOUS
    <3> QED
      BY <3>1, <3>2
  <2>2. said \in Seq(EntrySet)
    BY DEF MailShapes
  <2> QED
    BY <1>4, <2>1, <2>2, ConcatProperties
<1>11. \A q \in Run \ {r} : \A x \in Held(q)' : x \in Held(q) /\ x \in EntrySet
  BY <1>7 DEF Held, MailShapes
<1>12. \A q \in Run : \A x \in Held(q)' : \E y \in EntrySet :
         /\ y \in Held(q) \/ e = <<y>>
         /\ x = IF q = r THEN WithAnswer(y, c, waiter[c], text) ELSE y
  BY <1>8, <1>11
<1> QED
  BY <1>4, <1>6, <1>9, <1>10, <1>12 DEF r

-----------------------------------------------------------------------------
(* Every step keeps the types. *)

LEMMA ContinueShapes ==
  ASSUME MailShapes, NEW s \in Sender, NEW c \in Child, NEW got \in SUBSET Child,
         call[s] # Idle, Continue(s, c, got)
  PROVE  /\ call' \in [Sender -> CallSet]
         /\ call' = [call EXCEPT ![s] = IF call[s].todo = {c} THEN Idle ELSE
                       [call[s] EXCEPT !.todo = @ \ {c}, !.waits = FALSE, !.got = got]]
<1>1. call[s] \in CallSet \ {Idle}
  BY DEF MailShapes
<1>2. \A x \in CallSet \ {Idle} :
        [x EXCEPT !.todo = @ \ {c}, !.waits = FALSE, !.got = got] \in CallSet
  BY DEF CallSet
<1>3. Idle \in CallSet
  BY DEF CallSet
<1>4. call' = [call EXCEPT ![s] = IF call[s].todo = {c} THEN Idle ELSE
                 [call[s] EXCEPT !.todo = @ \ {c}, !.waits = FALSE, !.got = got]]
  BY DEF Continue
<1> QED
  BY <1>1, <1>2, <1>3, <1>4 DEF MailShapes

LEMMA ShapesInit == ConstantsOK /\ Init => MailShapes
<1> SUFFICES ASSUME ConstantsOK, Init PROVE MailShapes
  OBVIOUS
<1>1. Idle \in CallSet
  BY DEF CallSet
<1>2. \A S : << >> \in Seq(S)
  OBVIOUS
<1> QED
  BY <1>1, <1>2 DEF Init, MailShapes

LEMMA SendShapes ==
  ASSUME ConstantsOK, MailShapes, NEW s \in Sender, NEW ref, Send(s, ref)
  PROVE  MailShapes'
<1>1. PICK c \in ResolveChildRef(ref) :
        /\ Allowed(s, c)
        /\ inbox' = [inbox EXCEPT ![c] = Append(@, Message(s))]
        /\ call' = [call EXCEPT ![s] = [op |-> "send", msg |-> Message(s), run |-> RunOf[c],
                                        todo |-> {c}, waits |-> TRUE, got |-> {}]]
  BY DEF Send
<1>2. c \in Child
  BY DEF ResolveChildRef
<1>3. Message(s) \in MessageSet
  BY MessageIs
<1>4. [op |-> "send", msg |-> Message(s), run |-> RunOf[c],
       todo |-> {c}, waits |-> TRUE, got |-> {}] \in CallSet
  BY <1>2, <1>3, RunsOfChildren DEF CallSet
<1>5. call' \in [Sender -> CallSet] /\ inbox' \in [Child -> Seq(MessageSet)]
  BY <1>1, <1>2, <1>3, <1>4 DEF MailShapes
<1>6. calls' \in Nat /\ UNCHANGED <<waiter, reason, answer, ring, said>>
  BY DEF Send, MailShapes
<1> QED
  BY <1>5, <1>6 DEF MailShapes

LEMMA BroadcastShapes ==
  ASSUME ConstantsOK, MailShapes, NEW s \in Sender, NEW r \in Run, Broadcast(s, r)
  PROVE  MailShapes'
<1> DEFINE targets == {c \in Child : RunOf[c] = r /\ c # s /\ ph[c] \in {"between", "running"}}
           x == [op |-> "broadcast", run |-> r, todo |-> targets, waits |-> FALSE,
                 got |-> {}, msg |-> Message(s)]
<1>1. call' = [call EXCEPT ![s] = IF targets = {} THEN Idle ELSE x]
  BY DEF Broadcast
<1>2. Message(s) \in MessageSet
  BY MessageIs
<1>3. x \in CallSet /\ Idle \in CallSet
  BY <1>2 DEF CallSet
<1> HIDE DEF x, targets
<1>4. call' \in [Sender -> CallSet]
  BY <1>1, <1>3 DEF MailShapes
<1>5. calls' \in Nat /\ UNCHANGED <<inbox, waiter, reason, answer, ring, said>>
  BY DEF Broadcast, MailShapes
<1> QED
  BY <1>4, <1>5 DEF MailShapes

LEMMA SteerShapes ==
  ASSUME ConstantsOK, MailShapes, NEW s \in Sender, NEW c \in Child, Steer(s, c)
  PROVE  MailShapes'
<1>1. call[s] \in CallSet \ {Idle}
  BY DEF MailShapes, Steer, Idle
<1>2. \A x \in CallSet \ {Idle} : x.msg \in MessageSet /\ [x EXCEPT !.waits = TRUE] \in CallSet
  BY DEF CallSet
<1>3. call' = [call EXCEPT ![s] = [call[s] EXCEPT !.waits = TRUE]]
  BY DEF Steer
<1>4. inbox' = [inbox EXCEPT ![c] = Append(@, call[s].msg)]
  BY DEF Steer
<1>5. call' \in [Sender -> CallSet]
  BY <1>1, <1>2, <1>3 DEF MailShapes
<1>6. inbox' \in [Child -> Seq(MessageSet)]
  <2>1. call[s].msg \in MessageSet /\ inbox[c] \in Seq(MessageSet)
    BY <1>1, <1>2 DEF MailShapes
  <2>2. Append(inbox[c], call[s].msg) \in Seq(MessageSet)
    BY <2>1
  <2> QED
    BY <1>4, <2>2 DEF MailShapes
<1>7. UNCHANGED <<calls, waiter, reason, answer, ring, said>>
  BY DEF Steer, history
<1> QED
  BY <1>5, <1>6, <1>7 DEF MailShapes

LEMMA PassOverShapes ==
  ASSUME ConstantsOK, MailShapes, NEW s \in Sender, NEW c \in Child, PassOver(s, c)
  PROVE  MailShapes'
<1>1. call[s] \in CallSet \ {Idle}
  BY DEF MailShapes, PassOver, Idle
<1>2. call[s].got \in SUBSET Child
  BY <1>1 DEF CallSet
<1>3. call' \in [Sender -> CallSet]
  BY <1>1, <1>2, ContinueShapes DEF PassOver
<1>4. UNCHANGED <<calls, inbox, waiter, reason, answer, ring, said>>
  BY DEF PassOver
<1> QED
  BY <1>3, <1>4 DEF MailShapes

(* The entry a delivery makes. *)
LEMMA DeliveredIs ==
  ASSUME ConstantsOK, MailShapes, NEW s \in Sender, NEW c \in Child, Delivered(s, c)
  PROVE  /\ call[s] \in CallSet \ {Idle} /\ call[s].run \in Run
         /\ Entry(s, c, call[s].op, call[s].msg) \in EntrySet
         /\ Entry(s, c, call[s].op, call[s].msg).kind = call[s].op
         /\ Entry(s, c, call[s].op, call[s].msg).message = call[s].msg
         /\ Entry(s, c, call[s].op, call[s].msg).to = c
         /\ call[s].op \in {"send", "broadcast"} /\ call[s].msg \in MessageSet
         /\ ring' = [ring EXCEPT ![call[s].run] =
                       Appended(call[s].run, Entry(s, c, call[s].op, call[s].msg))]
         /\ said' = Append(said, Entry(s, c, call[s].op, call[s].msg))
<1>1. call[s] \in CallSet \ {Idle}
  BY DEF MailShapes, Delivered
<1>2. /\ call[s].op \in {"send", "broadcast"} /\ call[s].msg \in MessageSet
      /\ call[s].run \in Run
  BY <1>1 DEF CallSet
<1>3. c \in Sender
  BY RunsOfChildren
<1>4. LET e == Entry(s, c, call[s].op, call[s].msg)
      IN  e \in EntrySet /\ e.kind = call[s].op /\ e.message = call[s].msg /\ e.to = c
  BY <1>2, <1>3, EntryIs
<1>5. /\ ring' = [ring EXCEPT ![call[s].run] =
                    Appended(call[s].run, Entry(s, c, call[s].op, call[s].msg))]
      /\ said' = Append(said, Entry(s, c, call[s].op, call[s].msg))
  BY DEF Delivered
<1> QED
  BY <1>1, <1>2, <1>4, <1>5

LEMMA DeliveredShapes ==
  ASSUME ConstantsOK, MailShapes, NEW s \in Sender, NEW c \in Child, Delivered(s, c)
  PROVE  MailShapes'
<1>1. /\ call[s] \in CallSet \ {Idle} /\ call[s].run \in Run
      /\ Entry(s, c, call[s].op, call[s].msg) \in EntrySet
      /\ ring' = [ring EXCEPT ![call[s].run] =
                    Appended(call[s].run, Entry(s, c, call[s].op, call[s].msg))]
      /\ said' = Append(said, Entry(s, c, call[s].op, call[s].msg))
  BY DeliveredIs
<1>2. ring' \in [Run -> Seq(EntrySet)] /\ said' \in Seq(EntrySet)
  BY <1>1, Adds
<1>3. call[s].got \cup {c} \in SUBSET Child
  BY <1>1 DEF CallSet
<1>4. call' \in [Sender -> CallSet]
  BY <1>1, <1>3, ContinueShapes DEF Delivered
<1>5. UNCHANGED <<calls, inbox, waiter, reason, answer>>
  BY DEF Delivered
<1> QED
  BY <1>2, <1>4, <1>5 DEF MailShapes

(* A reply, of an agent or of the user, that meets a waiter. *)
Replied(c, m, x) ==
  /\ m.id = calls + 1
  /\ x.kind = "reply" /\ x.to = c /\ x.message = m
  /\ waiter[c] # 0 /\ Resolve(c, m, <<x>>)
  /\ calls' = calls + 1
  /\ UNCHANGED <<inbox, reason, call, told>>

LEMMA ReplyIs ==
  ASSUME MailShapes, NEW s \in Sender, NEW ref, Reply(s, ref)
  PROVE  \E c \in Child : \E m \in MessageSet : \E x \in EntrySet : Replied(c, m, x)
<1> DEFINE m == Message(s)
<1>1. PICK c \in ResolveChildRef(ref) :
        waiter[c] # 0 /\ Resolve(c, m, <<Entry(s, c, "reply", m)>>)
  BY DEF Reply
<1>2. c \in Child /\ c \in Sender
  BY RunsOfChildren DEF ResolveChildRef
<1>3. m \in MessageSet /\ m.id = calls + 1
  BY MessageIs
<1> HIDE DEF m
<1> DEFINE x == Entry(s, c, "reply", m)
<1>4. x \in EntrySet /\ x.kind = "reply" /\ x.to = c /\ x.message = m
  BY <1>2, <1>3, EntryIs
<1>5. calls' = calls + 1 /\ UNCHANGED <<inbox, reason, call, told>>
  BY DEF Reply
<1>6. Resolve(c, m, <<x>>)
  BY <1>1
<1> HIDE DEF x
<1> QED
  BY <1>1, <1>2, <1>3, <1>4, <1>5, <1>6 DEF Replied

LEMMA UserReplyIs ==
  ASSUME MailShapes, NEW word, UserReply(word)
  PROVE  \E c \in Child : \E m \in MessageSet : \E x \in EntrySet : Replied(c, m, x)
<1> DEFINE named == {c \in Child : word \in {c, NameOf[c]}}
           m(c) == [Message(Supervisor) EXCEPT !.astray = named # {} /\ c \notin named]
<1>1. PICK c \in Child :
        /\ waiter[c] # 0
        /\ Resolve(c, m(c), <<Entry(Supervisor, c, "reply", m(c))>>)
  BY DEF UserReply
<1>2. m(c) \in MessageSet /\ m(c).id = calls + 1
  <2>1. Message(Supervisor) \in MessageSet /\ Message(Supervisor).id = calls + 1
    BY MessageIs, RunsOfChildren
  <2>2. \A y \in MessageSet, b \in BOOLEAN :
          [y EXCEPT !.astray = b] \in MessageSet /\ [y EXCEPT !.astray = b].id = y.id
    BY DEF MessageSet
  <2>3. (named # {} /\ c \notin named) \in BOOLEAN
    OBVIOUS
  <2> QED
    BY <2>1, <2>2, <2>3
<1> DEFINE mc == m(c)
<1>3. mc \in MessageSet /\ mc.id = calls + 1 /\ Resolve(c, mc, <<Entry(Supervisor, c, "reply", mc)>>)
  BY <1>1, <1>2
<1> HIDE DEF mc
<1> DEFINE x == Entry(Supervisor, c, "reply", mc)
<1>4. x \in EntrySet /\ x.kind = "reply" /\ x.to = c /\ x.message = mc
  BY <1>3, RunsOfChildren, EntryIs
<1>5. calls' = calls + 1 /\ UNCHANGED <<inbox, reason, call, told>>
  BY DEF UserReply
<1>6. Resolve(c, mc, <<x>>)
  BY <1>3
<1> HIDE DEF x
<1> QED
  BY <1>1, <1>3, <1>4, <1>5, <1>6 DEF Replied

LEMMA RepliedShapes ==
  ASSUME ConstantsOK, MailShapes,
         NEW c \in Child, NEW m \in MessageSet, NEW x \in EntrySet, Replied(c, m, x)
  PROVE  MailShapes'
<1>1. Resolve(c, m, <<x>>)
  BY DEF Replied
<1>2. /\ answer' \in [Child -> Seq(MessageSet)] /\ waiter' \in [Child -> Nat]
      /\ ring' \in [Run -> Seq(EntrySet)] /\ said' \in Seq(EntrySet)
  BY <1>1, Resolves
<1>3. calls' \in Nat /\ UNCHANGED <<inbox, reason, call>>
  BY DEF Replied, MailShapes
<1> QED
  BY <1>2, <1>3 DEF MailShapes

LEMMA TimesOutShapes ==
  ASSUME ConstantsOK, MailShapes, NEW c \in Child, DecisionTimesOut(c)
  PROVE  MailShapes'
<1>1. Resolve(c, Text("timeout"), << >>)
  BY DEF DecisionTimesOut
<1>2. Text("timeout") \in MessageSet
  BY TextsAre
<1>3. /\ answer' \in [Child -> Seq(MessageSet)] /\ waiter' \in [Child -> Nat]
      /\ ring' \in [Run -> Seq(EntrySet)] /\ said' \in Seq(EntrySet)
  BY <1>1, <1>2, Resolves
<1>4. UNCHANGED <<calls, inbox, reason, call>>
  BY DEF DecisionTimesOut, history
<1> QED
  BY <1>3, <1>4 DEF MailShapes

(* A call of contact_supervisor: its entry, and what the call returned. *)
LEMMA ContactIs ==
  ASSUME ConstantsOK, MailShapes, NEW c \in Child,
         NEW why \in {"progress_update", "need_decision"}, Contact(c, why)
  PROVE  LET k == Len(reason[c]) + 1
             refused == why = "need_decision" /\ waiter[c] # 0
             e == Entry(c, Supervisor, why, k)
         IN  /\ e \in EntrySet /\ e.from = c /\ e.to = Supervisor /\ e.kind = why
             /\ e.message = k /\ e.reply = Text("none") /\ k \in Nat
             /\ Returned(why, refused) \in MessageSet /\ Returned(why, refused).id = 0
             /\ Returned(why, refused) =
                  IF why = "progress_update" THEN Text("ok")
                  ELSE IF waiter[c] # 0 THEN Text("refused") ELSE Text("none")
             /\ RunOf[c] \in Run
             /\ ring' = [ring EXCEPT ![RunOf[c]] = Appended(RunOf[c], e)]
             /\ said' = Append(said, e)
             /\ reason' = [reason EXCEPT ![c] = Append(@, why)]
             /\ answer' = [answer EXCEPT ![c] = Append(@, Returned(why, refused))]
             /\ waiter' = IF why = "need_decision" /\ waiter[c] = 0
                            THEN [waiter EXCEPT ![c] = k] ELSE waiter
             /\ calls' = calls + 1
             /\ UNCHANGED <<inbox, call, told>>
<1> DEFINE k == Len(reason[c]) + 1
           refused == why = "need_decision" /\ waiter[c] # 0
           e == Entry(c, Supervisor, why, k)
<1>1. k \in Nat
  BY DEF MailShapes
<1>2. c \in Sender /\ Supervisor \in Sender /\ RunOf[c] \in Run
  BY RunsOfChildren
<1>3. /\ e \in EntrySet /\ e.from = c /\ e.to = Supervisor /\ e.kind = why
      /\ e.message = k /\ e.reply = Text("none")
  <2> HIDE DEF k
  <2> QED
    BY <1>1, <1>2, EntryIs
<1>4. Returned(why, refused) =
        IF why = "progress_update" THEN Text("ok")
        ELSE IF waiter[c] # 0 THEN Text("refused") ELSE Text("none")
  BY DEF Returned
<1>5. Returned(why, refused) \in MessageSet /\ Returned(why, refused).id = 0
  <2> HIDE DEF refused
  <2> QED
    BY <1>4, TextsAre
<1>6. /\ ring' = [ring EXCEPT ![RunOf[c]] = Appended(RunOf[c], e)]
      /\ said' = Append(said, e)
      /\ reason' = [reason EXCEPT ![c] = Append(@, why)]
      /\ answer' = [answer EXCEPT ![c] = Append(@, Returned(why, refused))]
      /\ waiter' = IF why = "need_decision" /\ ~refused THEN [waiter EXCEPT ![c] = k] ELSE waiter
      /\ calls' = calls + 1
      /\ UNCHANGED <<inbox, call, told>>
  BY DEF Contact
<1>7. why = "need_decision" /\ ~refused <=> why = "need_decision" /\ waiter[c] = 0
  OBVIOUS
<1>8. waiter' = IF why = "need_decision" /\ waiter[c] = 0 THEN [waiter EXCEPT ![c] = k] ELSE waiter
  <2> HIDE DEF refused, k
  <2> QED
    BY <1>6, <1>7
<1> HIDE DEF k, e, refused
<1>9. /\ e \in EntrySet /\ e.from = c /\ e.to = Supervisor /\ e.kind = why
      /\ e.message = k /\ e.reply = Text("none") /\ k \in Nat
      /\ Returned(why, refused) \in MessageSet /\ Returned(why, refused).id = 0
      /\ Returned(why, refused) =
           IF why = "progress_update" THEN Text("ok")
           ELSE IF waiter[c] # 0 THEN Text("refused") ELSE Text("none")
      /\ RunOf[c] \in Run
      /\ ring' = [ring EXCEPT ![RunOf[c]] = Appended(RunOf[c], e)]
      /\ said' = Append(said, e)
      /\ reason' = [reason EXCEPT ![c] = Append(@, why)]
      /\ answer' = [answer EXCEPT ![c] = Append(@, Returned(why, refused))]
      /\ waiter' = IF why = "need_decision" /\ waiter[c] = 0
                     THEN [waiter EXCEPT ![c] = k] ELSE waiter
      /\ calls' = calls + 1
      /\ UNCHANGED <<inbox, call, told>>
  BY <1>1, <1>2, <1>3, <1>4, <1>5, <1>6, <1>8
<1> QED
  BY <1>9 DEF k, e, refused

LEMMA ContactShapes ==
  ASSUME ConstantsOK, MailShapes, NEW c \in Child,
         NEW why \in {"progress_update", "need_decision"}, Contact(c, why)
  PROVE  MailShapes'
<1> DEFINE k == Len(reason[c]) + 1
           a == Returned(why, why = "need_decision" /\ waiter[c] # 0)
           e == Entry(c, Supervisor, why, k)
<1>1. /\ e \in EntrySet /\ a \in MessageSet /\ k \in Nat /\ RunOf[c] \in Run
      /\ ring' = [ring EXCEPT ![RunOf[c]] = Appended(RunOf[c], e)]
      /\ said' = Append(said, e)
      /\ reason' = [reason EXCEPT ![c] = Append(@, why)]
      /\ answer' = [answer EXCEPT ![c] = Append(@, a)]
      /\ waiter' = IF why = "need_decision" /\ waiter[c] = 0
                     THEN [waiter EXCEPT ![c] = k] ELSE waiter
      /\ calls' = calls + 1
      /\ UNCHANGED <<inbox, call, told>>
  BY ContactIs
<1> HIDE DEF k, a, e
<1>2. ring' \in [Run -> Seq(EntrySet)] /\ said' \in Seq(EntrySet)
  BY <1>1, Adds
<1>3. reason' \in [Child -> Seq({"progress_update", "need_decision"})]
  BY <1>1 DEF MailShapes
<1>4. answer' \in [Child -> Seq(MessageSet)]
  BY <1>1 DEF MailShapes
<1>5. waiter' \in [Child -> Nat] /\ calls' \in Nat
  BY <1>1 DEF MailShapes
<1> QED
  BY <1>1, <1>2, <1>3, <1>4, <1>5 DEF MailShapes

(* session_shutdown writes its answer where a child waits.                 *)
LEMMA ShutdownIs ==
  ASSUME ConstantsOK, MailShapes, Shutdown
  PROVE  /\ MailShapes'
         /\ waiter' = [c \in Child |-> 0]
         /\ \A c \in Child :
              /\ DOMAIN answer'[c] = DOMAIN answer[c]
              /\ \A k \in DOMAIN answer[c] :
                   answer'[c][k] = IF k = waiter[c] THEN Text("timeout") ELSE answer[c][k]
         /\ \A r \in Run : \A x \in Held(r)' : \E e \in Held(r) :
              x = IF \E c \in Child : IsRequest(e, c, waiter[c])
                    THEN [e EXCEPT !.reply = Text("timeout")] ELSE e
         /\ UNCHANGED <<calls, inbox, reason, call, said, told>>
<1>1. Text("timeout") \in MessageSet
  BY TextsAre
<1>2. \A c \in Child : answer[c] \in Seq(MessageSet)
  BY DEF MailShapes
<1> DEFINE Answered(c) == [k \in DOMAIN answer[c] |->
                             IF k = waiter[c] THEN Text("timeout") ELSE answer[c][k]]
<1>3. ASSUME NEW c \in Child PROVE Answered(c) \in Seq(MessageSet)
  <2> DEFINE s == answer[c]
  <2>1. DOMAIN s = 1..Len(s) /\ Len(s) \in Nat /\ \A k \in 1..Len(s) : s[k] \in MessageSet
    BY <1>2
  <2> HIDE DEF s
  <2>2. [k \in 1..Len(s) |-> IF k = waiter[c] THEN Text("timeout") ELSE s[k]]
          \in [1..Len(s) -> MessageSet]
    BY <1>1, <2>1
  <2>3. [k \in 1..Len(s) |-> IF k = waiter[c] THEN Text("timeout") ELSE s[k]]
          \in Seq(MessageSet)
    BY <2>1, <2>2
  <2> QED
    BY <2>1, <2>3 DEF s
<1>4. answer' = [c \in Child |-> Answered(c)]
  BY DEF Shutdown
<1>5. answer' \in [Child -> Seq(MessageSet)]
  <2> HIDE DEF Answered
  <2> QED
    BY <1>3, <1>4
<1>6. \A c \in Child :
        /\ DOMAIN answer'[c] = DOMAIN answer[c]
        /\ \A k \in DOMAIN answer[c] :
             answer'[c][k] = IF k = waiter[c] THEN Text("timeout") ELSE answer[c][k]
  BY <1>4
<1> DEFINE Closed(e) == IF \E c \in Child : IsRequest(e, c, waiter[c])
                          THEN [e EXCEPT !.reply = Text("timeout")] ELSE e
<1>7. \A e \in EntrySet : Closed(e) \in EntrySet
  BY <1>1 DEF EntrySet
<1>8. ring' = [r \in Run |-> [i \in DOMAIN ring[r] |-> Closed(ring[r][i])]]
  BY DEF Shutdown
<1> HIDE DEF Closed
<1>9. ASSUME NEW r \in Run
      PROVE  /\ [i \in DOMAIN ring[r] |-> Closed(ring[r][i])] \in Seq(EntrySet)
             /\ \A x \in Held(r)' : \E e \in Held(r) : x = Closed(e)
  <2> DEFINE s == ring[r]
             t == [i \in 1..Len(s) |-> Closed(s[i])]
  <2>1. DOMAIN s = 1..Len(s) /\ Len(s) \in Nat /\ \A i \in 1..Len(s) : s[i] \in EntrySet
    BY DEF MailShapes
  <2> HIDE DEF s
  <2>2. t \in [1..Len(s) -> EntrySet]
    BY <1>7, <2>1
  <2>3. t \in Seq(EntrySet)
    BY <2>1, <2>2
  <2>4. ring'[r] = t
    BY <1>8, <2>1 DEF s
  <2>5. \A x \in Held(r)' : \E i \in 1..Len(s) : x = Closed(s[i])
    BY <2>4 DEF Held
  <2>6. \A i \in 1..Len(s) : s[i] \in Held(r)
    BY <2>1 DEF Held, s
  <2> QED
    BY <2>1, <2>3, <2>5, <2>6 DEF s
<1>10. ring' \in [Run -> Seq(EntrySet)]
  BY <1>8, <1>9
<1>11. /\ waiter' = [c \in Child |-> 0]
       /\ UNCHANGED <<calls, inbox, reason, call, said, told>>
  BY DEF Shutdown, history
<1>12. MailShapes'
  BY <1>5, <1>10, <1>11 DEF MailShapes
<1> QED
  BY <1>6, <1>9, <1>11, <1>12 DEF Closed

(* What else the children do leaves the mailbox and the inboxes alone.     *)
Quiet == UNCHANGED <<inbox, waiter, reason, answer, call, ring, said, calls, told>>

LEMMA QuietSteps ==
  /\ \A r, ref : Resume(r, ref) => Quiet
  /\ \A c : Runs(c) \/ Stalls(c) \/ Ends(c) => Quiet
  /\ UNCHANGED vars => Quiet
BY DEF Resume, Runs, Stalls, Ends, vars, history, Quiet

(* The steps that are not quiet. *)
LEMMA Steps ==
  ASSUME MailShapes, [Next]_vars
  PROVE  \/ \E s \in Sender : \E ref : Send(s, ref)
         \/ \E s \in Sender : \E r \in Run : Broadcast(s, r)
         \/ \E s \in Sender : \E c \in Child :
              Steer(s, c) \/ PassOver(s, c) \/ Delivered(s, c)
         \/ \E c \in Child : \E m \in MessageSet : \E x \in EntrySet : Replied(c, m, x)
         \/ \E c \in Child : \E why \in {"progress_update", "need_decision"} : Contact(c, why)
         \/ \E c \in Child : DecisionTimesOut(c)
         \/ Shutdown
         \/ Quiet
BY QuietSteps, ReplyIs, UserReplyIs DEF Next

LEMMA ShapesStep ==
  ASSUME ConstantsOK, MailShapes, [Next]_vars
  PROVE  MailShapes'
<1>1. Quiet => MailShapes'
  BY DEF Quiet, MailShapes
<1> QED
  BY <1>1, Steps, SendShapes, BroadcastShapes, SteerShapes, PassOverShapes, DeliveredShapes,
     RepliedShapes, ContactShapes, TimesOutShapes, ShutdownIs

-----------------------------------------------------------------------------
(* AnswersInv is inductive. *)

LEMMA AnswersInit == ConstantsOK /\ Init => AnswersInv
<1> SUFFICES ASSUME ConstantsOK, Init PROVE AnswersInv
  OBVIOUS
<1>1. MailShapes
  BY ShapesInit
<1>2. /\ \A c \in Child : waiter[c] = 0 /\ reason[c] = << >> /\ answer[c] = << >>
      /\ \A r \in Run : ring[r] = << >>
      /\ said = << >>
  BY DEF Init
<1>3. \A c \in Child : Decisions(c) = {}
  BY <1>2 DEF Decisions
<1>4. \A c \in Child : AskedOk(c)
  BY <1>2, <1>3 DEF AskedOk
<1>5. \A r \in Run : Held(r) = {}
  BY <1>2 DEF Held
<1> QED
  BY <1>1, <1>2, <1>4, <1>5 DEF AnswersInv

LEMMA AnswerIds ==
  ASSUME MailShapes, NEW c \in Child, NEW k \in DOMAIN answer[c]
  PROVE  answer[c][k].id \in Nat
<1>1. answer[c] \in Seq(MessageSet)
  BY DEF MailShapes
<1>2. answer[c][k] \in MessageSet
  BY <1>1
<1> QED
  BY <1>2 DEF MessageSet

(* Of an answered request nothing is lost: the answers that stay, and the  *)
(* entries that are no replies, are as good as before.                     *)
LEMMA SameAnswers ==
  ASSUME AnswersInv, MailShapes', UNCHANGED <<waiter, reason, answer>>, calls' >= calls,
         \A r \in Run : \A x \in Held(r)' : x \in Held(r) \/ x.kind # "need_decision",
         \A i \in DOMAIN said' :
           (i \in DOMAIN said /\ said'[i] = said[i]) \/ said'[i].kind # "reply"
  PROVE  AnswersInv'
<1>1. calls \in Nat /\ calls' \in Nat
  BY DEF AnswersInv, MailShapes
<1>2. \A c \in Child : Decisions(c)' = Decisions(c)
  BY DEF Decisions
<1>3. \A c \in Child : AskedOk(c)'
  <2> SUFFICES ASSUME NEW c \in Child PROVE AskedOk(c)'
    OBVIOUS
  <2>1. AskedOk(c) /\ \A k \in DOMAIN answer[c] : answer[c][k].id \in Nat
    BY AnswerIds DEF AnswersInv
  <2> QED
    BY <1>1, <1>2, <2>1 DEF AskedOk
<1>4. \A r \in Run : \A x \in Held(r)' : RequestOk(r, x)'
  <2>1. \A r \in Run : \A x : RequestOk(r, x) => RequestOk(r, x)'
    BY <1>2 DEF RequestOk
  <2>2. \A r, x : x.kind # "need_decision" => RequestOk(r, x)'
    BY DEF RequestOk
  <2> QED
    BY <2>1, <2>2 DEF AnswersInv
<1>5. \A i \in DOMAIN said' : ReplyOk(said[i])'
  <2>1. \A x : ReplyOk(x) => ReplyOk(x)'
    BY <1>1, <1>2 DEF ReplyOk
  <2>2. \A x : x.kind # "reply" => ReplyOk(x)'
    BY DEF ReplyOk
  <2> QED
    BY <2>1, <2>2 DEF AnswersInv
<1> QED
  BY <1>3, <1>4, <1>5 DEF AnswersInv

LEMMA SendAnswers ==
  ASSUME ConstantsOK, AnswersInv, MailShapes',
         \/ \E s \in Sender : \E ref : Send(s, ref)
         \/ \E s \in Sender : \E r \in Run : Broadcast(s, r)
         \/ \E s \in Sender : \E c \in Child : Steer(s, c) \/ PassOver(s, c)
         \/ Quiet
  PROVE  AnswersInv'
<1>1. UNCHANGED <<waiter, reason, answer, ring, said>> /\ (calls' = calls \/ calls' = calls + 1)
  BY DEF Send, Broadcast, Steer, PassOver, Quiet, history
<1>2. calls' >= calls
  BY <1>1 DEF AnswersInv, MailShapes
<1>3. \A r \in Run : Held(r)' = Held(r)
  BY <1>1 DEF Held
<1> QED
  BY <1>1, <1>2, <1>3, SameAnswers

LEMMA DeliveredAnswers ==
  ASSUME ConstantsOK, AnswersInv, MailShapes',
         NEW s \in Sender, NEW c \in Child, Delivered(s, c)
  PROVE  AnswersInv'
<1>1. MailShapes
  BY DEF AnswersInv
<1>2. PICK r \in Run, e \in EntrySet :
        /\ e.kind \in {"send", "broadcast"}
        /\ ring' = [ring EXCEPT ![r] = Appended(r, e)] /\ said' = Append(said, e)
  BY <1>1, DeliveredIs
<1>3. /\ \A q \in Run : \A x \in Held(q)' : x \in Held(q) \/ (q = r /\ x = e)
      /\ DOMAIN said' = DOMAIN said \cup {Len(said) + 1}
      /\ \A i \in DOMAIN said : said'[i] = said[i]
      /\ said'[Len(said) + 1] = e
  BY <1>1, <1>2, Adds
<1>4. e.kind # "need_decision" /\ e.kind # "reply"
  BY <1>2
<1>5. UNCHANGED <<waiter, reason, answer, calls>> /\ calls \in Nat
  BY <1>1 DEF Delivered, MailShapes
<1>6. \A q \in Run : \A x \in Held(q)' : x \in Held(q) \/ x.kind # "need_decision"
  BY <1>3, <1>4
<1>7. \A i \in DOMAIN said' :
        (i \in DOMAIN said /\ said'[i] = said[i]) \/ said'[i].kind # "reply"
  BY <1>3, <1>4
<1> QED
  BY <1>5, <1>6, <1>7, SameAnswers

(* The request c waits on gets an answer that is no refusal.               *)
LEMMA WaiterAnswered ==
  ASSUME AnswersInv, NEW c \in Child, waiter[c] # 0, calls' \in Nat, calls' >= calls,
         NEW text \in MessageSet, text # Text("none"), text # Text("refused"),
         text.id <= calls',
         UNCHANGED reason, answer' = [answer EXCEPT ![c][waiter[c]] = text],
         waiter' = [waiter EXCEPT ![c] = 0]
  PROVE  /\ \A d \in Child : AskedOk(d)' /\ Decisions(d)' = Decisions(d)
         /\ waiter[c] \in Decisions(c) /\ answer[c][waiter[c]] = Text("none")
         /\ answer'[c][waiter[c]] = text
         /\ \A d \in Child : \A k \in Decisions(d) :
              d # c \/ k # waiter[c] => answer'[d][k] = answer[d][k]
<1>1. MailShapes /\ \A d \in Child : AskedOk(d)
  BY DEF AnswersInv
<1>2. \A d \in Child : Decisions(d)' = Decisions(d)
  BY DEF Decisions
<1>3. waiter[c] \in Decisions(c) /\ answer[c][waiter[c]] = Text("none")
  BY <1>1 DEF AskedOk
<1>4. answer[c] \in Seq(MessageSet) /\ waiter[c] \in Nat /\ calls \in Nat
  BY <1>1 DEF MailShapes
<1>5. answer'[c] = [answer[c] EXCEPT ![waiter[c]] = text]
  BY <1>1 DEF MailShapes
<1>6. \A d \in Child \ {c} : answer'[d] = answer[d]
  BY <1>1 DEF MailShapes
<1>7. /\ answer'[c] \in Seq(MessageSet) /\ DOMAIN answer'[c] = DOMAIN answer[c]
      /\ \A k \in DOMAIN answer[c] :
           answer'[c][k] = IF k = waiter[c] THEN text ELSE answer[c][k]
  BY <1>4, <1>5, AnswerWritten
<1>8. \A d \in Child : Decisions(d) \subseteq DOMAIN answer[d]
  BY <1>1, DecisionsAre DEF AskedOk, MailShapes
<1>9. waiter'[c] = 0 /\ \A d \in Child \ {c} : waiter'[d] = waiter[d]
  BY <1>1 DEF MailShapes
<1>10. AskedOk(c)'
  <2>1. Len(answer'[c]) = Len(answer[c])
    BY <1>4, <1>7
  <2>2. \A k \in DOMAIN answer[c] : answer[c][k].id \in Nat /\ answer[c][k].id <= calls
    BY <1>1, AnswerIds DEF AskedOk
  <2>3. \A k \in DOMAIN answer'[c] : answer'[c][k].id <= calls'
    BY <1>4, <1>7, <2>2
  <2>4. \A k \in Decisions(c) : answer'[c][k] = Text("none") <=> waiter'[c] = k
    <3>1. \A k \in Decisions(c) : k # 0
      BY <1>1, DecisionsAre
    <3>2. \A k \in Decisions(c) : answer[c][k] = Text("none") <=> waiter[c] = k
      BY <1>1 DEF AskedOk
    <3> QED
      BY <1>7, <1>8, <1>9, <3>1, <3>2
  <2> QED
    BY <1>1, <1>2, <1>9, <2>1, <2>3, <2>4 DEF AskedOk
<1>11. ASSUME NEW d \in Child \ {c} PROVE AskedOk(d)'
  <2>1. AskedOk(d) /\ \A k \in DOMAIN answer[d] : answer[d][k].id \in Nat
    BY <1>1, AnswerIds
  <2> QED
    BY <1>2, <1>4, <1>6, <1>9, <2>1 DEF AskedOk
<1>12. answer'[c][waiter[c]] = text
  BY <1>3, <1>7, <1>8
<1>13. \A d \in Child : \A k \in Decisions(d) :
         d # c \/ k # waiter[c] => answer'[d][k] = answer[d][k]
  BY <1>6, <1>7, <1>8
<1> QED
  BY <1>2, <1>3, <1>10, <1>11, <1>12, <1>13

(* And its entry, where the ring still has it, shows that answer.          *)
LEMMA RequestAnswered ==
  ASSUME AnswersInv, NEW c \in Child, waiter[c] \in Decisions(c),
         NEW text, text # Text("refused"), answer'[c][waiter[c]] = text,
         \A d \in Child : Decisions(d)' = Decisions(d),
         \A d \in Child : \A k \in Decisions(d) :
           d # c \/ k # waiter[c] => answer'[d][k] = answer[d][k],
         NEW r \in Run, NEW y \in EntrySet, y \in Held(r) \/ y.kind # "need_decision",
         NEW x, x = IF r = RunOf[c] THEN WithAnswer(y, c, waiter[c], text) ELSE y
  PROVE  RequestOk(r, x)'
<1>1. x.kind = y.kind /\ x.from = y.from /\ x.message = y.message
  BY DEF EntrySet, WithAnswer
<1>2. CASE y.kind # "need_decision"
  BY <1>1, <1>2 DEF RequestOk
<1>3. CASE y.kind = "need_decision"
  <2>1. /\ y.from \in Child /\ RunOf[y.from] = r /\ y.message \in Decisions(y.from)
        /\ y.reply = Shown(answer[y.from][y.message])
    BY <1>3 DEF AnswersInv, RequestOk
  <2>2. CASE y.from = c /\ y.message = waiter[c]
    <3>1. x = [y EXCEPT !.reply = text]
      BY <1>3, <2>1, <2>2 DEF IsRequest, WithAnswer
    <3>2. x.reply = text
      BY <3>1 DEF EntrySet
    <3>3. Shown(answer'[y.from][y.message]) = text
      BY <2>2 DEF Shown
    <3> QED
      BY <1>1, <2>1, <3>2, <3>3 DEF RequestOk
  <2>3. CASE ~(y.from = c /\ y.message = waiter[c])
    <3>1. x = y
      BY <2>3 DEF IsRequest, WithAnswer
    <3>2. answer'[y.from][y.message] = answer[y.from][y.message]
      BY <2>1, <2>3
    <3> QED
      BY <2>1, <3>1, <3>2 DEF RequestOk
  <2> QED
    BY <2>2, <2>3
<1> QED
  BY <1>2, <1>3

(* A reply that was there before is still that of its request alone.       *)
LEMMA RepliesKept ==
  ASSUME AnswersInv, NEW c \in Child, waiter[c] \in Decisions(c),
         answer[c][waiter[c]] = Text("none"),
         NEW text, answer'[c][waiter[c]] = text, text.id = 0 \/ text.id > calls,
         calls' \in Nat, calls' >= calls,
         \A d \in Child : Decisions(d)' = Decisions(d),
         \A d \in Child : \A k \in Decisions(d) :
           d # c \/ k # waiter[c] => answer'[d][k] = answer[d][k],
         NEW i \in DOMAIN said, said'[i] = said[i]
  PROVE  ReplyOk(said[i])'
<1>1. CASE said[i].kind # "reply"
  BY <1>1 DEF ReplyOk
<1>2. CASE said[i].kind = "reply"
  <2>0. PICK e : e = said[i] /\ e = said'[i]
    OBVIOUS
  <2>1. /\ e.to \in Child /\ e.message \in MessageSet /\ e.message.id \in 1..calls
        /\ \E k \in Decisions(e.to) :
             /\ answer[e.to][k] = e.message
             /\ \A d \in Child : \A j \in Decisions(d) :
                  answer[d][j] = e.message => d = e.to /\ j = k
    BY <1>2, <2>0 DEF AnswersInv, ReplyOk
  <2>2. PICK k \in Decisions(e.to) :
          /\ answer[e.to][k] = e.message
          /\ \A d \in Child : \A j \in Decisions(d) :
               answer[d][j] = e.message => d = e.to /\ j = k
    BY <2>1
  <2>3. calls \in Nat /\ e.message.id \in 1..calls'
    BY <2>1 DEF AnswersInv, MailShapes
  <2>4. e.message # text /\ e.message # Text("none")
    BY <2>1, <2>3, TextsAre
  <2>5. answer'[e.to][k] = e.message
    BY <2>1, <2>2, <2>4
  <2>6. \A d \in Child : \A j \in Decisions(d) :
          answer'[d][j] = e.message => answer[d][j] = e.message
    BY <2>4
  <2>7. ReplyOk(e)'
    <3>1. e.kind = "reply" /\ e.to \in Child /\ e.message \in MessageSet
      BY <1>2, <2>0, <2>1
    <3> QED
      BY <2>2, <2>3, <2>5, <2>6, <3>1 DEF ReplyOk
  <2> QED
    BY <2>0, <2>7
<1> QED
  BY <1>1, <1>2

LEMMA RepliedAnswers ==
  ASSUME ConstantsOK, AnswersInv, MailShapes',
         NEW c \in Child, NEW m \in MessageSet, NEW x \in EntrySet, Replied(c, m, x)
  PROVE  AnswersInv'
<1>1. /\ MailShapes /\ m.id = calls + 1 /\ x.kind = "reply" /\ x.to = c /\ x.message = m
      /\ waiter[c] # 0 /\ Resolve(c, m, <<x>>) /\ calls' = calls + 1
      /\ UNCHANGED reason
  BY DEF AnswersInv, Replied
<1>2. calls \in Nat /\ calls' \in Nat /\ calls' >= calls /\ m.id \in 1..calls' /\ m.id > calls
  BY <1>1 DEF MailShapes
<1>3. m # Text("none") /\ m # Text("refused")
  BY <1>1, <1>2, TextsAre
<1>4. /\ answer' = [answer EXCEPT ![c][waiter[c]] = m]
      /\ waiter' = [waiter EXCEPT ![c] = 0] /\ said' = said \o <<x>>
      /\ \A q \in Run : \A z \in Held(q)' : \E y \in EntrySet :
           /\ y \in Held(q) \/ <<x>> = <<y>>
           /\ z = IF q = RunOf[c] THEN WithAnswer(y, c, waiter[c], m) ELSE y
  <2>1. MailShapes /\ Resolve(c, m, <<x>>)
    BY <1>1
  <2>2. PICK e : e = <<x>>
    OBVIOUS
  <2>3. e = << >> \/ \E y \in EntrySet : e = <<y>>
    BY <2>2
  <2>4. Resolve(c, m, e)
    BY <2>1, <2>2
  <2>5. \A q \in Run : \A z \in Held(q)' : \E y \in EntrySet :
          /\ y \in Held(q) \/ e = <<y>>
          /\ z = IF q = RunOf[c] THEN WithAnswer(y, c, waiter[c], m) ELSE y
    BY <2>1, <2>3, <2>4, Resolves
  <2>6. /\ answer' = [answer EXCEPT ![c][waiter[c]] = m]
        /\ waiter' = [waiter EXCEPT ![c] = 0] /\ said' = said \o e
    BY <2>1, <2>3, <2>4, Resolves
  <2> QED
    BY <2>2, <2>5, <2>6
<1>5. /\ \A d \in Child : AskedOk(d)' /\ Decisions(d)' = Decisions(d)
      /\ waiter[c] \in Decisions(c) /\ answer[c][waiter[c]] = Text("none")
      /\ answer'[c][waiter[c]] = m
      /\ \A d \in Child : \A k \in Decisions(d) :
           d # c \/ k # waiter[c] => answer'[d][k] = answer[d][k]
  <2>1. /\ waiter[c] # 0 /\ calls' \in Nat /\ calls' >= calls /\ m.id <= calls'
        /\ m # Text("none") /\ m # Text("refused") /\ UNCHANGED reason
        /\ answer' = [answer EXCEPT ![c][waiter[c]] = m] /\ waiter' = [waiter EXCEPT ![c] = 0]
    BY <1>1, <1>2, <1>3, <1>4
  <2> QED
    BY <2>1, WaiterAnswered
<1>6. ASSUME NEW r \in Run, NEW z \in Held(r)' PROVE RequestOk(r, z)'
  <2>1. \E y \in EntrySet :
          /\ y \in Held(r) \/ y.kind # "need_decision"
          /\ z = IF r = RunOf[c] THEN WithAnswer(y, c, waiter[c], m) ELSE y
    <3>1. PICK y \in EntrySet :
            /\ y \in Held(r) \/ <<x>> = <<y>>
            /\ z = IF r = RunOf[c] THEN WithAnswer(y, c, waiter[c], m) ELSE y
      BY <1>4
    <3>2. <<x>> = <<y>> => y.kind # "need_decision"
      BY <1>1
    <3> QED
      BY <3>1, <3>2
  <2>2. PICK y \in EntrySet :
          /\ y \in Held(r) \/ y.kind # "need_decision"
          /\ z = IF r = RunOf[c] THEN WithAnswer(y, c, waiter[c], m) ELSE y
    BY <2>1
  <2> QED
    BY <1>3, <1>5, <2>2, RequestAnswered
<1>7. ASSUME NEW i \in DOMAIN said' PROVE ReplyOk(said[i])'
  <2>1. (i \in DOMAIN said /\ said'[i] = said[i]) \/ said'[i] = x
    BY <1>1, <1>4 DEF MailShapes
  <2>2. CASE i \in DOMAIN said /\ said'[i] = said[i]
    BY <1>2, <1>5, <2>2, RepliesKept
  <2>3. CASE said'[i] = x
    <3>1. \A d \in Child : \A j \in Decisions(d) :
            answer'[d][j] = m => d = c /\ j = waiter[c]
      <4>1. \A d \in Child : \A j \in Decisions(d) :
              j \in DOMAIN answer[d] /\ answer[d][j].id <= calls
        <5>1. \A d \in Child : \A j \in Decisions(d) : j \in 1..Len(reason[d])
          BY <1>1, DecisionsAre
        <5>2. \A d \in Child : DOMAIN answer[d] = 1..Len(reason[d])
          BY <1>1 DEF AnswersInv, AskedOk, MailShapes
        <5> QED
          BY <5>1, <5>2 DEF AnswersInv, AskedOk
      <4>2. \A d \in Child : \A j \in Decisions(d) : answer[d][j].id \in Nat
        BY <1>1, <4>1, AnswerIds
      <4>3. \A d \in Child : \A j \in Decisions(d) : answer[d][j] # m
        BY <1>1, <1>2, <4>1, <4>2
      <4> QED
        BY <1>5, <4>3
    <3>2. ReplyOk(x)'
      BY <1>1, <1>2, <1>5, <3>1 DEF ReplyOk
    <3> QED
      BY <2>3, <3>2 DEF ReplyOk
  <2> QED
    BY <2>1, <2>2, <2>3
<1> QED
  BY <1>5, <1>6, <1>7 DEF AnswersInv

LEMMA TimesOutAnswers ==
  ASSUME ConstantsOK, AnswersInv, MailShapes', NEW c \in Child, DecisionTimesOut(c)
  PROVE  AnswersInv'
<1> DEFINE m == Text("timeout")
<1>1. /\ MailShapes /\ waiter[c] # 0 /\ Resolve(c, m, << >>) /\ UNCHANGED <<reason, calls>>
  BY DEF AnswersInv, DecisionTimesOut, history
<1>2. /\ m \in MessageSet /\ m.id = 0 /\ m # Text("none") /\ m # Text("refused")
      /\ calls \in Nat /\ calls' \in Nat /\ calls' >= calls
  BY <1>1, TextsAre DEF MailShapes
<1> HIDE DEF m
<1>3. /\ answer' = [answer EXCEPT ![c][waiter[c]] = m]
      /\ waiter' = [waiter EXCEPT ![c] = 0] /\ said' = said \o << >>
      /\ \A q \in Run : \A z \in Held(q)' : \E y \in EntrySet :
           /\ y \in Held(q) \/ << >> = <<y>>
           /\ z = IF q = RunOf[c] THEN WithAnswer(y, c, waiter[c], m) ELSE y
  <2>1. MailShapes /\ Resolve(c, m, << >>) /\ m \in MessageSet
    BY <1>1, <1>2
  <2>2. PICK e : e = << >>
    OBVIOUS
  <2>3. e = << >> \/ \E y \in EntrySet : e = <<y>>
    BY <2>2
  <2>4. Resolve(c, m, e)
    BY <2>1, <2>2
  <2>5. \A q \in Run : \A z \in Held(q)' : \E y \in EntrySet :
          /\ y \in Held(q) \/ e = <<y>>
          /\ z = IF q = RunOf[c] THEN WithAnswer(y, c, waiter[c], m) ELSE y
    BY <2>1, <2>3, <2>4, Resolves
  <2>6. /\ answer' = [answer EXCEPT ![c][waiter[c]] = m]
        /\ waiter' = [waiter EXCEPT ![c] = 0] /\ said' = said \o e
    BY <2>1, <2>3, <2>4, Resolves
  <2> QED
    BY <2>2, <2>5, <2>6
<1>4. /\ \A d \in Child : AskedOk(d)' /\ Decisions(d)' = Decisions(d)
      /\ waiter[c] \in Decisions(c) /\ answer[c][waiter[c]] = Text("none")
      /\ answer'[c][waiter[c]] = m
      /\ \A d \in Child : \A k \in Decisions(d) :
           d # c \/ k # waiter[c] => answer'[d][k] = answer[d][k]
  <2>1. /\ waiter[c] # 0 /\ calls' \in Nat /\ calls' >= calls /\ m.id <= calls'
        /\ m \in MessageSet /\ m # Text("none") /\ m # Text("refused") /\ UNCHANGED reason
        /\ answer' = [answer EXCEPT ![c][waiter[c]] = m] /\ waiter' = [waiter EXCEPT ![c] = 0]
    BY <1>1, <1>2, <1>3
  <2> QED
    BY <2>1, WaiterAnswered
<1>5. ASSUME NEW r \in Run, NEW z \in Held(r)' PROVE RequestOk(r, z)'
  <2>1. \E y \in EntrySet :
          /\ y \in Held(r)
          /\ z = IF r = RunOf[c] THEN WithAnswer(y, c, waiter[c], m) ELSE y
    BY <1>3
  <2>2. PICK y \in EntrySet :
          /\ y \in Held(r)
          /\ z = IF r = RunOf[c] THEN WithAnswer(y, c, waiter[c], m) ELSE y
    BY <2>1
  <2> QED
    BY <1>2, <1>4, <2>2, RequestAnswered
<1>6. ASSUME NEW i \in DOMAIN said' PROVE ReplyOk(said[i])'
  <2>1. i \in DOMAIN said /\ said'[i] = said[i]
    BY <1>1, <1>3 DEF MailShapes
  <2> QED
    BY <1>2, <1>4, <2>1, RepliesKept
<1> QED
  BY <1>4, <1>5, <1>6 DEF AnswersInv

LEMMA ContactAnswers ==
  ASSUME ConstantsOK, AnswersInv, MailShapes', NEW c \in Child,
         NEW why \in {"progress_update", "need_decision"}, Contact(c, why)
  PROVE  AnswersInv'
<1>1. MailShapes
  BY DEF AnswersInv
<1>2. PICK k \in Nat, a \in MessageSet, e \in EntrySet :
        /\ k = Len(reason[c]) + 1 /\ a.id = 0
        /\ a = IF why = "progress_update" THEN Text("ok")
               ELSE IF waiter[c] # 0 THEN Text("refused") ELSE Text("none")
        /\ e.from = c /\ e.kind = why /\ e.message = k /\ e.reply = Text("none")
        /\ ring' = [ring EXCEPT ![RunOf[c]] = Appended(RunOf[c], e)]
        /\ said' = Append(said, e)
        /\ reason' = [reason EXCEPT ![c] = Append(@, why)]
        /\ answer' = [answer EXCEPT ![c] = Append(@, a)]
        /\ waiter' = IF why = "need_decision" /\ waiter[c] = 0
                       THEN [waiter EXCEPT ![c] = k] ELSE waiter
        /\ calls' = calls + 1
  BY <1>1, ContactIs
<1>3. /\ RunOf[c] \in Run /\ calls \in Nat /\ waiter[c] \in Nat
      /\ reason[c] \in Seq({"progress_update", "need_decision"}) /\ answer[c] \in Seq(MessageSet)
      /\ AskedOk(c) /\ Len(reason[c]) \in Nat /\ Len(answer[c]) \in Nat
  BY <1>1, RunsOfChildren DEF MailShapes, AnswersInv
<1>4. /\ reason'[c] = Append(reason[c], why) /\ answer'[c] = Append(answer[c], a)
      /\ \A d \in Child \ {c} : reason'[d] = reason[d] /\ answer'[d] = answer[d]
                                  /\ waiter'[d] = waiter[d]
      /\ waiter'[c] = IF why = "need_decision" /\ waiter[c] = 0 THEN k ELSE waiter[c]
  BY <1>1, <1>2 DEF MailShapes
<1>5. Len(answer[c]) = Len(reason[c]) /\ Len(answer[c]) + 1 = k
  BY <1>2, <1>3 DEF AskedOk
<1>6. /\ DOMAIN answer'[c] = DOMAIN answer[c] \cup {k} /\ DOMAIN answer[c] = 1..Len(answer[c])
      /\ \A j \in DOMAIN answer[c] : answer'[c][j] = answer[c][j]
      /\ answer'[c][k] = a /\ k \notin DOMAIN answer[c]
  BY <1>3, <1>4, <1>5
<1>7. /\ Decisions(c)' = Decisions(c) \cup IF why = "need_decision" THEN {k} ELSE {}
      /\ Decisions(c) \subseteq DOMAIN answer[c]
  BY <1>2, <1>3, <1>4, <1>5 DEF Decisions
<1>8. \A d \in Child \ {c} : Decisions(d)' = Decisions(d)
  BY <1>4 DEF Decisions
<1>9. \A d \in Child : \A j \in Decisions(d) :
        j \in Decisions(d)' /\ answer'[d][j] = answer[d][j]
  BY <1>4, <1>6, <1>7, <1>8
<1>10. AskedOk(c)'
  <2>1. Len(answer'[c]) = Len(reason'[c])
    BY <1>3, <1>4, <1>5
  <2>2. waiter'[c] # 0 => waiter'[c] \in Decisions(c)'
    BY <1>3, <1>4, <1>7 DEF AskedOk
  <2>3. \A j \in DOMAIN answer'[c] : answer'[c][j].id <= calls'
    <3>1. \A j \in DOMAIN answer[c] : answer[c][j].id \in Nat /\ answer[c][j].id <= calls
      BY <1>1, <1>3, AnswerIds DEF AskedOk
    <3> QED
      BY <1>2, <1>3, <1>6, <3>1
  <2>4. \A j \in Decisions(c)' : answer'[c][j] = Text("none") <=> waiter'[c] = j
    <3>1. ASSUME NEW j \in Decisions(c)
          PROVE  answer'[c][j] = Text("none") <=> waiter'[c] = j
      <4>1. j \in DOMAIN answer[c] /\ j # k /\ j # 0
        BY <1>1, <1>6, <1>7, DecisionsAre
      <4>2. answer'[c][j] = answer[c][j] /\ (answer[c][j] = Text("none") <=> waiter[c] = j)
        BY <1>3, <1>6, <4>1 DEF AskedOk
      <4>3. waiter'[c] = j <=> waiter[c] = j
        BY <1>4, <4>1
      <4> QED
        BY <4>2, <4>3
    <3>2. ASSUME why = "need_decision" PROVE a = Text("none") <=> waiter'[c] = k
      <4>1. waiter[c] # k
        <5>1. waiter[c] # 0 => waiter[c] \in DOMAIN answer[c]
          BY <1>3, <1>7 DEF AskedOk
        <5> QED
          BY <1>2, <1>3, <1>6, <5>1
      <4> QED
        BY <1>2, <1>4, <3>2, <4>1, TextsAre
    <3> QED
      BY <1>6, <1>7, <3>1, <3>2
  <2> QED
    BY <2>1, <2>2, <2>3, <2>4 DEF AskedOk
<1>11. ASSUME NEW d \in Child \ {c} PROVE AskedOk(d)'
  <2>1. AskedOk(d) /\ \A j \in DOMAIN answer[d] : answer[d][j].id \in Nat
    BY <1>1, AnswerIds DEF AnswersInv
  <2> QED
    BY <1>2, <1>3, <1>4, <1>8, <2>1 DEF AskedOk
<1>12. ASSUME NEW r \in Run, NEW x \in Held(r)' PROVE RequestOk(r, x)'
  <2>1. x \in Held(r) \/ (r = RunOf[c] /\ x = e)
    BY <1>1, <1>2, <1>3, <1>12, Adds
  <2>2. CASE x \in Held(r)
    <3>1. RequestOk(r, x)
      BY <2>2 DEF AnswersInv
    <3> QED
      BY <1>9, <3>1 DEF RequestOk
  <2>3. CASE r = RunOf[c] /\ x = e
    <3>1. why = "need_decision" => Shown(a) = Text("none")
      BY <1>2, TextsAre DEF Shown
    <3> QED
      BY <1>2, <1>6, <1>7, <2>3, <3>1 DEF RequestOk
  <2> QED
    BY <2>1, <2>2, <2>3
<1>13. ASSUME NEW i \in DOMAIN said' PROVE ReplyOk(said[i])'
  <2>1. (i \in DOMAIN said /\ said'[i] = said[i]) \/ said'[i] = e
    BY <1>1, <1>2 DEF MailShapes
  <2>2. CASE said'[i] = e
    BY <1>2, <2>2 DEF ReplyOk
  <2>3. CASE i \in DOMAIN said /\ said'[i] = said[i] /\ said[i].kind # "reply"
    BY <2>3 DEF ReplyOk
  <2>4. CASE i \in DOMAIN said /\ said'[i] = said[i] /\ said[i].kind = "reply"
    <3>1. PICK x : x = said[i] /\ x = said'[i] /\ x.kind = "reply"
      BY <2>4
    <3>2. /\ x.to \in Child /\ x.message \in MessageSet /\ x.message.id \in 1..calls
          /\ \E j \in Decisions(x.to) :
               /\ answer[x.to][j] = x.message
               /\ \A d \in Child : \A n \in Decisions(d) :
                    answer[d][n] = x.message => d = x.to /\ n = j
      BY <2>4, <3>1 DEF AnswersInv, ReplyOk
    <3>3. PICK j \in Decisions(x.to) :
            /\ answer[x.to][j] = x.message
            /\ \A d \in Child : \A n \in Decisions(d) :
                 answer[d][n] = x.message => d = x.to /\ n = j
      BY <3>2
    <3>4. x.message # a
      BY <1>2, <1>3, <3>2
    <3>5. ASSUME NEW d \in Child, NEW n \in Decisions(d)', answer'[d][n] = x.message
          PROVE  d = x.to /\ n = j
      <4>1. n \in Decisions(d)
        BY <1>6, <1>7, <1>8, <3>4, <3>5
      <4> QED
        BY <1>9, <3>3, <3>5, <4>1
    <3>6. x.message.id \in 1..calls'
      BY <1>2, <1>3, <3>2
    <3>7. ReplyOk(x)'
      BY <1>9, <3>1, <3>2, <3>3, <3>5, <3>6 DEF ReplyOk
    <3> QED
      BY <3>1, <3>7
  <2> QED
    BY <2>1, <2>2, <2>3, <2>4
<1> QED
  BY <1>10, <1>11, <1>12, <1>13 DEF AnswersInv

LEMMA ShutdownAnswers ==
  ASSUME ConstantsOK, AnswersInv, Shutdown
  PROVE  AnswersInv'
<1> DEFINE m == Text("timeout")
<1>1. MailShapes /\ MailShapes'
  BY ShutdownIs DEF AnswersInv
<1>2. /\ waiter' = [c \in Child |-> 0]
      /\ \A c \in Child :
           /\ DOMAIN answer'[c] = DOMAIN answer[c]
           /\ \A k \in DOMAIN answer[c] : answer'[c][k] = IF k = waiter[c] THEN m ELSE answer[c][k]
      /\ \A r \in Run : \A x \in Held(r)' : \E e \in Held(r) :
           x = IF \E c \in Child : IsRequest(e, c, waiter[c]) THEN [e EXCEPT !.reply = m] ELSE e
      /\ UNCHANGED <<calls, reason, said>>
  BY <1>1, ShutdownIs
<1>3. m \in MessageSet /\ m.id = 0 /\ m # Text("none") /\ m # Text("refused")
  BY TextsAre
<1> HIDE DEF m
<1>4. \A c \in Child : Decisions(c)' = Decisions(c)
  BY <1>2 DEF Decisions
<1>5. \A c \in Child : Decisions(c) \subseteq DOMAIN answer[c] /\ 0 \notin Decisions(c)
  BY <1>1, DecisionsAre DEF AnswersInv, AskedOk, MailShapes
<1>6. ASSUME NEW c \in Child PROVE AskedOk(c)'
  <2>1. AskedOk(c) /\ calls \in Nat
    BY <1>1 DEF AnswersInv, MailShapes
  <2>2. answer[c] \in Seq(MessageSet) /\ answer'[c] \in Seq(MessageSet)
    BY <1>1 DEF MailShapes
  <2>3. Len(answer'[c]) = Len(answer[c])
    BY <1>2, <2>2
  <2>4. \A k \in DOMAIN answer'[c] : answer'[c][k].id <= calls'
    <3>1. \A k \in DOMAIN answer[c] : answer[c][k].id <= calls
      BY <2>1 DEF AskedOk
    <3> QED
      BY <1>2, <1>3, <2>1, <3>1
  <2>5. waiter'[c] = 0
    BY <1>2
  <2>6. \A k \in Decisions(c) : answer'[c][k] # Text("none")
    BY <1>2, <1>3, <1>5, <2>1 DEF AskedOk
  <2> QED
    BY <1>2, <1>4, <1>5, <2>1, <2>3, <2>4, <2>5, <2>6 DEF AskedOk
<1>7. ASSUME NEW r \in Run, NEW x \in Held(r)' PROVE RequestOk(r, x)'
  <2>1. PICK e \in Held(r) :
          x = IF \E c \in Child : IsRequest(e, c, waiter[c]) THEN [e EXCEPT !.reply = m] ELSE e
    BY <1>2, <1>7
  <2>2. e \in EntrySet
    BY <1>1 DEF Held, MailShapes
  <2>3. x.kind = e.kind /\ x.from = e.from /\ x.message = e.message
    BY <2>1, <2>2 DEF EntrySet
  <2>4. CASE e.kind # "need_decision"
    BY <2>3, <2>4 DEF RequestOk
  <2>5. CASE e.kind = "need_decision"
    <3>1. /\ e.from \in Child /\ RunOf[e.from] = r /\ e.message \in Decisions(e.from)
          /\ e.reply = Shown(answer[e.from][e.message])
      BY <2>5 DEF AnswersInv, RequestOk
    <3>2. CASE e.message = waiter[e.from]
      <4>1. IsRequest(e, e.from, waiter[e.from])
        BY <2>5, <3>2 DEF IsRequest
      <4>2. x = [e EXCEPT !.reply = m]
        BY <2>1, <3>1, <4>1
      <4>3. x.reply = m
        BY <2>2, <4>2 DEF EntrySet
      <4>4. answer'[e.from][e.message] = m
        BY <1>2, <1>5, <3>1, <3>2
      <4>5. Shown(m) = m
        BY <1>3 DEF Shown
      <4> QED
        BY <1>4, <2>3, <3>1, <4>3, <4>4, <4>5 DEF RequestOk
    <3>3. CASE e.message # waiter[e.from]
      <4>1. \A c \in Child : ~IsRequest(e, c, waiter[c])
        BY <3>3 DEF IsRequest
      <4>2. x = e
        BY <2>1, <4>1
      <4>3. answer'[e.from][e.message] = answer[e.from][e.message]
        BY <1>2, <1>5, <3>1, <3>3
      <4> QED
        BY <1>4, <3>1, <4>2, <4>3 DEF RequestOk
    <3> QED
      BY <3>2, <3>3
  <2> QED
    BY <2>4, <2>5
<1>8. ASSUME NEW i \in DOMAIN said' PROVE ReplyOk(said[i])'
  <2>1. PICK x : x = said[i] /\ x = said'[i] /\ i \in DOMAIN said
    BY <1>2, <1>8
  <2>2. ReplyOk(x)
    BY <2>1 DEF AnswersInv
  <2>3. ReplyOk(x)'
    <3>1. CASE x.kind # "reply"
      BY <3>1 DEF ReplyOk
    <3>2. CASE x.kind = "reply"
      <4>1. /\ x.to \in Child /\ x.message \in MessageSet /\ x.message.id \in 1..calls
            /\ \E k \in Decisions(x.to) :
                 /\ answer[x.to][k] = x.message
                 /\ \A d \in Child : \A j \in Decisions(d) :
                      answer[d][j] = x.message => d = x.to /\ j = k
        BY <2>2, <3>2 DEF ReplyOk
      <4>2. PICK k \in Decisions(x.to) :
              /\ answer[x.to][k] = x.message
              /\ \A d \in Child : \A j \in Decisions(d) :
                   answer[d][j] = x.message => d = x.to /\ j = k
        BY <4>1
      <4>3. x.message # m /\ x.message # Text("none")
        BY <1>1, <1>3, <4>1, TextsAre DEF MailShapes
      <4>4. \A d \in Child : \A j \in Decisions(d) :
              (answer'[d][j] = x.message <=> answer[d][j] = x.message)
        <5>1. \A d \in Child : \A j \in Decisions(d) :
                j = waiter[d] => answer[d][j] = Text("none")
          BY DEF AnswersInv, AskedOk
        <5> QED
          BY <1>2, <1>5, <4>3, <5>1
      <4> QED
        BY <1>2, <1>4, <3>2, <4>1, <4>2, <4>4 DEF ReplyOk
    <3> QED
      BY <3>1, <3>2
  <2> QED
    BY <2>1, <2>3
<1> QED
  BY <1>1, <1>6, <1>7, <1>8 DEF AnswersInv

LEMMA AnswersStep ==
  ASSUME ConstantsOK, AnswersInv, [Next]_vars
  PROVE  AnswersInv'
<1>1. MailShapes /\ MailShapes'
  BY ShapesStep DEF AnswersInv
<1> QED
  BY <1>1, Steps, SendAnswers, DeliveredAnswers, RepliedAnswers, ContactAnswers,
     TimesOutAnswers, ShutdownAnswers

(* The inductive invariant says AnswersKept of every request and reply.    *)
LEMMA AnswersFollow == AnswersInv => AnswersKept
<1> SUFFICES ASSUME AnswersInv PROVE AnswersKept
  OBVIOUS
<1>1. MailShapes
  BY DEF AnswersInv
<1>2. ASSUME NEW e \in Entries, e.kind = "reply"
      PROVE  \E k \in Decisions(e.to) : Taken(e.message) = {<<e.to, k>>}
  <2>1. /\ e.to \in Child
        /\ \E k \in Decisions(e.to) :
             /\ answer[e.to][k] = e.message
             /\ \A d \in Child : \A j \in Decisions(d) :
                  answer[d][j] = e.message => d = e.to /\ j = k
    BY <1>2 DEF AnswersInv, ReplyOk, Entries
  <2>2. PICK k \in Decisions(e.to) :
          /\ answer[e.to][k] = e.message
          /\ \A d \in Child : \A j \in Decisions(d) :
               answer[d][j] = e.message => d = e.to /\ j = k
    BY <2>1
  <2>3. <<e.to, k>> \in Taken(e.message)
    BY <2>1, <2>2 DEF Taken
  <2>4. \A x \in Taken(e.message) : x = <<e.to, k>>
    BY <2>2 DEF Taken
  <2> QED
    BY <2>3, <2>4
<1>3. ASSUME NEW c \in Child, NEW k \in Decisions(c)
      PROVE  /\ answer[c][k] = Text("none") <=> waiter[c] = k
             /\ \A i \in DOMAIN ring[RunOf[c]] :
                  IsRequest(ring[RunOf[c]][i], c, k) =>
                    ring[RunOf[c]][i].reply =
                      IF answer[c][k] = Text("refused") THEN Text("none") ELSE answer[c][k]
  <2>1. answer[c][k] = Text("none") <=> waiter[c] = k
    BY DEF AnswersInv, AskedOk
  <2>2. ASSUME NEW i \in DOMAIN ring[RunOf[c]], IsRequest(ring[RunOf[c]][i], c, k)
        PROVE  ring[RunOf[c]][i].reply = Shown(answer[c][k])
    <3>1. RequestOk(RunOf[c], ring[RunOf[c]][i])
      BY RunsOfChildren DEF AnswersInv, Held
    <3> QED
      BY <2>2, <3>1 DEF RequestOk, IsRequest
  <2> QED
    BY <2>1, <2>2 DEF Shown
<1> QED
  BY <1>2, <1>3 DEF AnswersKept

(* Every reply the mailbox accepts answers one request of the child it     *)
(* went to, and a request is open exactly while the mailbox waits          *)
(* (mailbox.ts beginDecision, resolveDecision), for any number of          *)
(* children, runs and calls and any capacity of the rings.                 *)
THEOREM AnswersAlwaysKept == Spec => []AnswersKept
<1>1. ConstantsOK
  BY MessagesAssumption
<1>2. Init => AnswersInv
  BY <1>1, AnswersInit
<1>3. AnswersInv /\ [Next]_vars => AnswersInv'
  BY <1>1, AnswersStep
<1>4. AnswersInv => AnswersKept
  BY AnswersFollow
<1> QED
  BY <1>2, <1>3, <1>4, PTL DEF Spec

-----------------------------------------------------------------------------
(* What was delivered.  A message has the number of its call, so of a      *)
(* message on its way the sender's call says who has it; once the call is  *)
(* over, the entries and the report do.                                    *)

Got(c) == {inbox[c][i] : i \in DOMAIN inbox[c]}
Has(c, n) == \E m \in Got(c) : m.id = n
Active(s) == call[s] # Idle

\* entries about the message m of child c
Of(e, c, m) == e.to = c /\ e.message = m
NoEntry(c, m) == \A e \in Entries : ~Of(e, c, m)
OneEntry(c, m) ==
  \E e \in Entries : Of(e, c, m) /\ \A f \in Entries : Of(f, c, m) => f = e

CallOk(s) ==
  Active(s) =>
    /\ call[s].msg.id \in 1..calls /\ call[s].msg.from = s
    /\ \A c \in call[s].todo : Allowed(s, c) /\ c \notin call[s].got
    /\ call[s].op = "send" => call[s].waits /\ \E c \in Child : call[s].todo = {c}
    /\ \A c \in Child :
         Has(c, call[s].msg.id) <=> c \in call[s].got \/ (call[s].waits /\ At(s, c))
    /\ \A c \in Child : \A m \in Got(c) : m.id = call[s].msg.id => m = call[s].msg

OwnIds ==
  \A s, t \in Sender : Active(s) /\ Active(t) /\ s # t => call[s].msg.id # call[t].msg.id

NoTwice(c) ==
  \A i, j \in DOMAIN inbox[c] : inbox[c][i].id = inbox[c][j].id => i = j

InboxOk(c) ==
  \A m \in Got(c) :
    /\ m.id \in 1..calls
    /\ m.from \in Child => m.from # c /\ SameRun(m.from, c)
    /\ InFlight(c, m) => NoEntry(c, m)
    /\ ~InFlight(c, m) => OneEntry(c, m)

EntryOk(e) ==
  /\ e.kind \in {"send", "broadcast"} => e.to \in Child /\ e.message \in Got(e.to)
  /\ e.kind = "reply" =>
       /\ e.message \in MessageSet /\ e.message.id \in 1..calls
       /\ \A c \in Child : ~Has(c, e.message.id)
       /\ \A s \in Sender : Active(s) => call[s].msg.id # e.message.id
  /\ e.kind \in {"progress_update", "need_decision"} => e.to = Supervisor

ReportOk(t) ==
  /\ t.id \in 1..calls
  /\ t.got = {c \in Child : Has(c, t.id)}
  /\ \A s \in Sender : Active(s) => call[s].msg.id # t.id

DeliveryInv ==
  /\ MailShapes
  /\ \A s \in Sender : CallOk(s)
  /\ OwnIds
  /\ \A c \in Child : NoTwice(c) /\ InboxOk(c)
  /\ \A e \in Entries : EntryOk(e)
  /\ \A t \in told : ReportOk(t)

LEMMA CallIs ==
  ASSUME MailShapes, NEW s \in Sender
  PROVE  /\ Active(s) =>
              /\ call[s] \in CallSet \ {Idle} /\ call[s].op \in {"send", "broadcast"}
              /\ call[s].msg \in MessageSet /\ call[s].msg.id \in Nat /\ call[s].run \in Run
              /\ call[s].todo \subseteq Child /\ call[s].waits \in BOOLEAN
              /\ call[s].got \subseteq Child
         /\ call[s].op # "idle" <=> Active(s)
<1>1. call[s] \in CallSet
  BY DEF MailShapes
<1>2. Idle.op = "idle"
  BY DEF Idle
<1>3. ASSUME Active(s)
      PROVE  /\ call[s] \in CallSet \ {Idle} /\ call[s].op \in {"send", "broadcast"}
             /\ call[s].msg \in MessageSet /\ call[s].run \in Run
             /\ call[s].todo \subseteq Child /\ call[s].waits \in BOOLEAN
             /\ call[s].got \subseteq Child
  BY <1>1, <1>3 DEF Active, CallSet
<1>4. ASSUME Active(s) PROVE call[s].msg.id \in Nat
  BY <1>3, <1>4 DEF MessageSet
<1> QED
  BY <1>2, <1>3, <1>4 DEF Active

(* The target a call is at is one, and there is one if one is left.        *)
LEMMA OneTarget ==
  ASSUME ConstantsOK, NEW s, NEW c, NEW d, At(s, c), At(s, d)
  PROVE  c = d
<1>1. Precedes(c, d) /\ Precedes(d, c)
  BY DEF At
<1>2. PICK i, j \in DOMAIN Registry : i <= j /\ Registry[i] = c /\ Registry[j] = d
  BY <1>1 DEF Precedes
<1>3. PICK k, l \in DOMAIN Registry : k <= l /\ Registry[k] = d /\ Registry[l] = c
  BY <1>1 DEF Precedes
<1>4. i = l /\ j = k
  BY <1>2, <1>3 DEF ConstantsOK, IsInjective
<1>5. i \in Nat /\ j \in Nat
  BY DEF ConstantsOK
<1> QED
  BY <1>2, <1>3, <1>4, <1>5

LEMMA LastTarget ==
  ASSUME ConstantsOK, NEW c \in Child
  PROVE  Precedes(c, c)
<1>1. PICK i \in DOMAIN Registry : Registry[i] = c
  BY DEF Child, ToSet
<1>2. i \in Nat
  BY DEF ConstantsOK
<1> QED
  BY <1>1, <1>2 DEF Precedes

(* A session that takes a message has it from then on, and no other gets   *)
(* it by that.                                                             *)
LEMMA TakenOnce ==
  ASSUME MailShapes, NEW c \in Child, NEW m \in MessageSet, ~Has(c, m.id),
         inbox' = [inbox EXCEPT ![c] = Append(@, m)], \A d \in Child : NoTwice(d)
  PROVE  /\ \A d \in Child : Got(d)' = Got(d) \cup IF d = c THEN {m} ELSE {}
         /\ \A d \in Child : \A n : Has(d, n)' <=> Has(d, n) \/ (d = c /\ n = m.id)
         /\ \A d \in Child : NoTwice(d)'
<1>1. inbox[c] \in Seq(MessageSet) /\ inbox'[c] = Append(inbox[c], m)
  BY DEF MailShapes
<1>2. \A d \in Child \ {c} : inbox'[d] = inbox[d]
  BY DEF MailShapes
<1>3. /\ DOMAIN inbox'[c] = DOMAIN inbox[c] \cup {Len(inbox[c]) + 1}
      /\ \A i \in DOMAIN inbox[c] : inbox'[c][i] = inbox[c][i]
      /\ inbox'[c][Len(inbox[c]) + 1] = m
  BY <1>1
<1>4. Got(c)' = Got(c) \cup {m}
  BY <1>3 DEF Got
<1>5. \A d \in Child \ {c} : Got(d)' = Got(d)
  BY <1>2 DEF Got
<1>6. \A d \in Child : \A n : Has(d, n)' <=> Has(d, n) \/ (d = c /\ n = m.id)
  BY <1>4, <1>5 DEF Has
<1>7. \A i \in DOMAIN inbox[c] : inbox[c][i].id # m.id
  BY DEF Has, Got
<1>8. NoTwice(c)'
  <2>1. NoTwice(c)
    OBVIOUS
  <2> QED
    BY <1>3, <1>7, <2>1 DEF NoTwice
<1>9. \A d \in Child \ {c} : NoTwice(d)'
  BY <1>2 DEF NoTwice
<1> QED
  BY <1>4, <1>5, <1>6, <1>8, <1>9

LEMMA EntriesAppended ==
  ASSUME MailShapes, NEW e \in EntrySet, said' = Append(said, e)
  PROVE  Entries' = Entries \cup {e}
<1>1. /\ DOMAIN said' = DOMAIN said \cup {Len(said) + 1}
      /\ \A i \in DOMAIN said : said'[i] = said[i]
      /\ said'[Len(said) + 1] = e
  BY DEF MailShapes
<1> QED
  BY <1>1 DEF Entries

(* A number no call has had yet is nowhere.                                *)
LEMMA FreshNumber ==
  ASSUME ConstantsOK, DeliveryInv, NEW n, n = calls + 1
  PROVE  /\ n \in Nat
         /\ \A c \in Child : ~Has(c, n)
         /\ \A s \in Sender : Active(s) => call[s].msg.id # n
         /\ \A m : m.id = n => \A c \in Child : NoEntry(c, m)
         /\ \A t \in told : t.id # n
<1>1. MailShapes /\ calls \in Nat
  BY DEF DeliveryInv, MailShapes
<1>2. \A c \in Child : ~Has(c, n)
  BY <1>1 DEF DeliveryInv, InboxOk, Has
<1>3. \A s \in Sender : Active(s) => call[s].msg.id # n
  BY <1>1 DEF DeliveryInv, CallOk
<1>4. ASSUME NEW m, m.id = n, NEW c \in Child, NEW e \in Entries, Of(e, c, m) PROVE FALSE
  <2>1. EntryOk(e) /\ e \in EntrySet /\ e.to = c /\ e.message = m
    BY <1>1, <1>4 DEF DeliveryInv, Of, Entries, MailShapes
  <2>2. e.kind \in {"send", "broadcast", "reply", "progress_update", "need_decision"}
    BY <2>1 DEF EntrySet
  <2>3. c # Supervisor
    BY DEF ConstantsOK
  <2>4. CASE e.kind \in {"send", "broadcast"}
    BY <1>2, <1>4, <2>1, <2>4 DEF EntryOk, Has
  <2>5. CASE e.kind = "reply"
    BY <1>1, <1>4, <2>1, <2>5 DEF EntryOk
  <2> QED
    BY <2>1, <2>2, <2>3, <2>4, <2>5 DEF EntryOk
<1>5. \A t \in told : t.id # n
  BY <1>1 DEF DeliveryInv, ReportOk
<1> QED
  BY <1>1, <1>2, <1>3, <1>4, <1>5 DEF NoEntry

-----------------------------------------------------------------------------
(* DeliveryInv is inductive. *)

LEMMA DeliveryInit == ConstantsOK /\ Init => DeliveryInv
<1> SUFFICES ASSUME ConstantsOK, Init PROVE DeliveryInv
  OBVIOUS
<1>1. MailShapes
  BY ShapesInit
<1>2. /\ \A s \in Sender : call[s] = Idle
      /\ \A c \in Child : inbox[c] = << >>
      /\ said = << >> /\ told = {}
  BY DEF Init
<1>3. \A c \in Child : Got(c) = {} /\ NoTwice(c)
  BY <1>2 DEF Got, NoTwice
<1>4. Entries = {}
  BY <1>2 DEF Entries
<1>5. \A s \in Sender : ~Active(s)
  BY <1>2 DEF Active
<1> QED
  BY <1>1, <1>2, <1>3, <1>4, <1>5 DEF DeliveryInv, CallOk, OwnIds, InboxOk

(* A message that is nowhere yet has no entry.                             *)
LEMMA NoEntryYet ==
  ASSUME ConstantsOK, DeliveryInv, NEW c \in Child, NEW m, ~Has(c, m.id),
         \A e \in Entries : e.kind = "reply" => e.message.id # m.id
  PROVE  NoEntry(c, m)
<1> SUFFICES ASSUME NEW e \in Entries, Of(e, c, m) PROVE FALSE
  BY DEF NoEntry
<1>1. EntryOk(e) /\ e \in EntrySet /\ e.to = c /\ e.message = m
  BY DEF DeliveryInv, Of, Entries, MailShapes
<1>2. e.kind \in {"send", "broadcast", "reply", "progress_update", "need_decision"}
  BY <1>1 DEF EntrySet
<1>3. c # Supervisor
  BY DEF ConstantsOK
<1>4. CASE e.kind \in {"send", "broadcast"}
  BY <1>1, <1>4 DEF EntryOk, Has
<1>5. CASE e.kind = "reply"
  BY <1>1, <1>5
<1> QED
  BY <1>1, <1>2, <1>3, <1>4, <1>5 DEF EntryOk

(* Steps that make entries of no message a session has, or none.           *)
LEMMA OtherEntries ==
  ASSUME DeliveryInv, MailShapes', UNCHANGED <<inbox, call, told>>, calls' >= calls,
         Entries \subseteq Entries',
         \A e \in Entries' \ Entries :
           /\ EntryOk(e)'
           /\ \A c \in Child : \A m \in Got(c) : ~Of(e, c, m)
  PROVE  DeliveryInv'
<1>1. calls \in Nat /\ calls' \in Nat
  BY DEF DeliveryInv, MailShapes
<1>2. \A c : Got(c)' = Got(c) /\ (NoTwice(c)' <=> NoTwice(c))
  BY DEF Got, NoTwice
<1>3. \A c, n : Has(c, n)' <=> Has(c, n)
  BY <1>2 DEF Has
<1>4. \A s, c : (Active(s)' <=> Active(s)) /\ (At(s, c)' <=> At(s, c))
  BY DEF Active, At
<1>5. \A c, m : InFlight(c, m)' <=> InFlight(c, m)
  BY <1>4 DEF InFlight
<1>6. ASSUME NEW s \in Sender PROVE CallOk(s)'
  <2>1. CallOk(s) /\ \A n : n \in 1..calls => n \in 1..calls'
    BY <1>1 DEF DeliveryInv
  <2> QED
    BY <1>2, <1>3, <1>4, <2>1 DEF CallOk
<1>7. OwnIds'
  BY <1>4 DEF DeliveryInv, OwnIds
<1>8. ASSUME NEW c \in Child, NEW m \in Got(c)
      PROVE  (NoEntry(c, m) => NoEntry(c, m)') /\ (OneEntry(c, m) => OneEntry(c, m)')
  BY DEF NoEntry, OneEntry
<1>9. \A c \in Child : InboxOk(c)'
  BY <1>1, <1>2, <1>5, <1>8 DEF DeliveryInv, InboxOk
<1>10. \A e \in Entries' : EntryOk(e)'
  <2>1. ASSUME NEW e \in Entries PROVE EntryOk(e)'
    <3>1. EntryOk(e)
      BY DEF DeliveryInv
    <3>2. \A n : n \in 1..calls => n \in 1..calls'
      BY <1>1
    <3> QED
      BY <1>2, <1>3, <1>4, <3>1, <3>2 DEF EntryOk
  <2> QED
    BY <2>1
<1>11. \A t \in told' : ReportOk(t)'
  <2> SUFFICES ASSUME NEW t \in told PROVE ReportOk(t)'
    OBVIOUS
  <2>1. ReportOk(t)
    BY DEF DeliveryInv
  <2>2. {c \in Child : Has(c, t.id)}' = {c \in Child : Has(c, t.id)}
    BY <1>3
  <2>3. \A n : n \in 1..calls => n \in 1..calls'
    BY <1>1
  <2>4. /\ t.id \in 1..calls
        /\ t.got = {c \in Child : Has(c, t.id)}
        /\ \A s \in Sender : Active(s) => call[s].msg.id # t.id
    BY <2>1 DEF ReportOk
  <2> QED
    BY <1>4, <2>2, <2>3, <2>4 DEF ReportOk
<1> QED
  BY <1>2, <1>6, <1>7, <1>9, <1>10, <1>11 DEF DeliveryInv

LEMMA RepliedDelivery ==
  ASSUME ConstantsOK, DeliveryInv, MailShapes',
         NEW c \in Child, NEW m \in MessageSet, NEW x \in EntrySet, Replied(c, m, x)
  PROVE  DeliveryInv'
<1>1. MailShapes /\ calls \in Nat
  BY DEF DeliveryInv, MailShapes
<1>2. /\ x.kind = "reply" /\ x.message = m /\ m.id = calls + 1 /\ calls' = calls + 1
      /\ UNCHANGED <<inbox, call, told>> /\ Resolve(c, m, <<x>>)
  BY DEF Replied
<1>3. said' = Append(said, x)
  <2>1. said' = said \o <<x>>
    BY <1>2 DEF Resolve
  <2> QED
    BY <1>1, <2>1 DEF MailShapes
<1>4. Entries' = Entries \cup {x}
  BY <1>1, <1>3, EntriesAppended
<1>5. PICK n : n = calls + 1
  OBVIOUS
<1>6. /\ \A d \in Child : ~Has(d, n)
      /\ \A s \in Sender : Active(s) => call[s].msg.id # n
  BY <1>5, FreshNumber
<1>7. \A d \in Child : Has(d, n)' <=> Has(d, n)
  BY <1>2 DEF Has, Got
<1>8. \A s \in Sender : (Active(s)' <=> Active(s)) /\ call'[s] = call[s]
  BY <1>2 DEF Active
<1>9. EntryOk(x)'
  BY <1>1, <1>2, <1>5, <1>6, <1>7, <1>8 DEF EntryOk
<1>10. \A d \in Child : \A y \in Got(d) : ~Of(x, d, y)
  BY <1>2, <1>5, <1>6 DEF Of, Has
<1> QED
  BY <1>1, <1>2, <1>4, <1>9, <1>10, OtherEntries

LEMMA ContactDelivery ==
  ASSUME ConstantsOK, DeliveryInv, MailShapes', NEW c \in Child,
         NEW why \in {"progress_update", "need_decision"}, Contact(c, why)
  PROVE  DeliveryInv'
<1>1. MailShapes /\ calls \in Nat
  BY DEF DeliveryInv, MailShapes
<1>2. PICK e \in EntrySet :
        /\ e.to = Supervisor /\ e.kind = why /\ said' = Append(said, e)
        /\ calls' = calls + 1 /\ UNCHANGED <<inbox, call, told>>
  BY <1>1, ContactIs
<1>3. Entries' = Entries \cup {e}
  BY <1>1, <1>2, EntriesAppended
<1>4. EntryOk(e)'
  BY <1>2 DEF EntryOk
<1>5. \A d \in Child : \A y \in Got(d) : ~Of(e, d, y)
  BY <1>2 DEF Of, ConstantsOK
<1> QED
  BY <1>1, <1>2, <1>3, <1>4, <1>5, OtherEntries

LEMMA QuietDelivery ==
  ASSUME ConstantsOK, DeliveryInv, MailShapes',
         Quiet \/ Shutdown \/ \E c \in Child : DecisionTimesOut(c)
  PROVE  DeliveryInv'
<1>1. MailShapes /\ calls \in Nat
  BY DEF DeliveryInv, MailShapes
<1>2. UNCHANGED <<inbox, call, told, calls>> /\ said' = said
  <2>1. CASE Quiet
    BY <2>1 DEF Quiet
  <2>2. CASE Shutdown
    BY <2>2 DEF Shutdown, history
  <2>3. CASE \E c \in Child : DecisionTimesOut(c)
    BY <1>1, <2>3 DEF DecisionTimesOut, Resolve, history, MailShapes
  <2> QED
    BY <2>1, <2>2, <2>3
<1>3. Entries' = Entries
  BY <1>2 DEF Entries
<1> QED
  BY <1>1, <1>2, <1>3, OtherEntries

(* A session takes the message m of the call of s, that waits for it now.  *)
TakesIn(s, c, m, x) ==
  /\ inbox' = [inbox EXCEPT ![c] = Append(@, m)]
  /\ call' = [call EXCEPT ![s] = x]
  /\ UNCHANGED <<said, told>>
  /\ calls' >= calls
  /\ x.msg = m /\ x.waits /\ m.id \in 1..calls' /\ m.from = s
  /\ c \in x.todo
  /\ \A d \in x.todo : Precedes(c, d) /\ Allowed(s, d) /\ d \notin x.got
  /\ x.op = "send" => \E d \in Child : x.todo = {d}
  /\ \A d \in Child : Has(d, m.id) <=> d \in x.got
  /\ \A d \in Child : \A y \in Got(d) : y.id = m.id => y = m
  /\ \A t \in Sender : Active(t) /\ t # s => call[t].msg.id # m.id
  /\ Active(s) => ~call[s].waits
  /\ \A t \in told : t.id # m.id
  /\ \A e \in Entries : e.kind = "reply" => e.message.id # m.id

LEMMA TakenIn ==
  ASSUME ConstantsOK, DeliveryInv, MailShapes', NEW s \in Sender, NEW c \in Child,
         NEW m \in MessageSet, NEW x \in CallSet \ {Idle}, TakesIn(s, c, m, x)
  PROVE  DeliveryInv'
<1>01. /\ inbox' = [inbox EXCEPT ![c] = Append(@, m)] /\ call' = [call EXCEPT ![s] = x]
       /\ UNCHANGED <<said, told>> /\ calls' >= calls
       /\ x.msg = m /\ x.waits /\ m.id \in 1..calls' /\ m.from = s /\ c \in x.todo
  BY DEF TakesIn
<1>02. /\ \A d \in x.todo : Precedes(c, d) /\ Allowed(s, d) /\ d \notin x.got
       /\ x.op = "send" => \E d \in Child : x.todo = {d}
  BY DEF TakesIn
<1>03. /\ \A d \in Child : Has(d, m.id) <=> d \in x.got
       /\ \A d \in Child : \A y \in Got(d) : y.id = m.id => y = m
       /\ \A t \in Sender : Active(t) /\ t # s => call[t].msg.id # m.id
       /\ Active(s) => ~call[s].waits
       /\ \A t \in told : t.id # m.id
       /\ \A e \in Entries : e.kind = "reply" => e.message.id # m.id
  BY DEF TakesIn
<1>1. MailShapes /\ calls \in Nat /\ calls' \in Nat /\ \A n : n \in 1..calls => n \in 1..calls'
  BY <1>01 DEF DeliveryInv, MailShapes
<1>2. ~Has(c, m.id) /\ \A d \in Child : NoTwice(d)
  BY <1>01, <1>02, <1>03 DEF DeliveryInv
<1>3. /\ \A d \in Child : Got(d)' = Got(d) \cup IF d = c THEN {m} ELSE {}
      /\ \A d \in Child : \A n : Has(d, n)' <=> Has(d, n) \/ (d = c /\ n = m.id)
      /\ \A d \in Child : NoTwice(d)'
  BY <1>01, <1>1, <1>2, TakenOnce
<1>4. NoEntry(c, m)
  BY <1>03, <1>2, NoEntryYet
<1>5. call'[s] = x /\ \A t \in Sender \ {s} : call'[t] = call[t]
  BY <1>01, <1>1 DEF MailShapes
<1>6. Active(s)' /\ \A t \in Sender \ {s} : Active(t)' <=> Active(t)
  BY <1>5 DEF Active
<1>7. /\ \A t \in Sender \ {s} : \A d : At(t, d)' <=> At(t, d)
      /\ \A d : At(s, d)' <=> d = c
  <2>1. \A t \in Sender \ {s} : \A d : At(t, d)' <=> At(t, d)
    BY <1>5 DEF At
  <2>2. At(s, c)'
    BY <1>01, <1>02, <1>5 DEF At
  <2>3. ASSUME NEW d, At(s, d)' PROVE d = c
    <3>1. Precedes(d, c) /\ Precedes(c, d)
      BY <1>01, <1>02, <1>5, <2>3 DEF At
    <3>2. PICK i, j \in DOMAIN Registry : i <= j /\ Registry[i] = c /\ Registry[j] = d
      BY <3>1 DEF Precedes
    <3>3. PICK k, l \in DOMAIN Registry : k <= l /\ Registry[k] = d /\ Registry[l] = c
      BY <3>1 DEF Precedes
    <3>4. i = l /\ j = k
      BY <3>2, <3>3 DEF ConstantsOK, IsInjective
    <3>5. i \in Nat /\ j \in Nat
      BY DEF ConstantsOK
    <3> QED
      BY <3>2, <3>3, <3>4, <3>5
  <2> QED
    BY <2>1, <2>2, <2>3
<1>8. ASSUME NEW d \in Child, NEW y, d # c \/ y # m
      PROVE  InFlight(d, y)' <=> InFlight(d, y)
  <2>1. \A t \in Sender \ {s} :
          (call'[t].op # "idle" /\ call'[t].waits /\ call'[t].msg = y /\ At(t, d)') <=>
          (call[t].op # "idle" /\ call[t].waits /\ call[t].msg = y /\ At(t, d))
    BY <1>5, <1>7
  <2>2. ~(call[s].op # "idle" /\ call[s].waits)
    BY <1>03, <1>1, CallIs
  <2>3. ~(call'[s].msg = y /\ At(s, d)')
    BY <1>01, <1>5, <1>7, <1>8
  <2> QED
    BY <2>1, <2>2, <2>3 DEF InFlight
<1>9. InFlight(c, m)'
  <2>1. x.op # "idle"
    BY DEF CallSet
  <2> QED
    BY <1>01, <1>5, <1>7, <2>1 DEF InFlight
<1>10. Entries' = Entries
  BY <1>01 DEF Entries
<1>11. ASSUME NEW t \in Sender \ {s} PROVE CallOk(t)'
  <2>1. SUFFICES ASSUME Active(t)' PROVE CallOk(t)'
    BY DEF CallOk
  <2>2. Active(t) /\ CallOk(t) /\ call[t].msg.id # m.id
    BY <1>03, <1>6, <2>1 DEF DeliveryInv
  <2>3. \A d \in Child : \A y \in Got(d)' : y \in Got(d) \/ y = m
    BY <1>3
  <2> QED
    BY <1>1, <1>3, <1>5, <1>6, <1>7, <2>2, <2>3 DEF CallOk
<1>12. CallOk(s)'
  <2>1. call'[s].msg.id \in 1..calls' /\ call'[s].msg.from = s
    BY <1>01, <1>5
  <2>2. \A d \in call'[s].todo : Allowed(s, d) /\ d \notin call'[s].got
    BY <1>02, <1>5
  <2>3. call'[s].op = "send" => call'[s].waits /\ \E d \in Child : call'[s].todo = {d}
    BY <1>01, <1>02, <1>5
  <2>4. \A d \in Child :
          Has(d, m.id)' <=> d \in call'[s].got \/ (call'[s].waits /\ At(s, d)')
    BY <1>01, <1>03, <1>3, <1>5, <1>7
  <2>5. \A d \in Child : \A y \in Got(d)' : y.id = call'[s].msg.id => y = call'[s].msg
    BY <1>01, <1>03, <1>3, <1>5
  <2>6. \A d \in Child : Has(d, m.id)' <=> (\E y \in Got(d)' : y.id = call'[s].msg.id)
    BY <1>01, <1>5 DEF Has
  <2> QED
    BY <2>1, <2>2, <2>3, <2>4, <2>5, <2>6 DEF CallOk, Has, Allowed, SameRun
<1>13. OwnIds'
  BY <1>01, <1>03, <1>5, <1>6 DEF DeliveryInv, OwnIds
<1>14. ASSUME NEW d \in Child, NEW y \in Got(d)
       PROVE  (NoEntry(d, y) => NoEntry(d, y)') /\ (OneEntry(d, y) => OneEntry(d, y)')
  BY <1>10 DEF NoEntry, OneEntry
<1>15. ASSUME NEW d \in Child, NEW y \in Got(d)'
       PROVE  /\ y.id \in 1..calls'
              /\ y.from \in Child => y.from # d /\ SameRun(y.from, d)
              /\ InFlight(d, y)' => NoEntry(d, y)'
              /\ ~InFlight(d, y)' => OneEntry(d, y)'
  <2>1. CASE d = c /\ y = m
    <3>1. s \in Child => s # Supervisor
      BY DEF ConstantsOK
    <3>2. y.from \in Child => y.from # d /\ SameRun(y.from, d)
      BY <1>01, <1>02, <2>1, <3>1 DEF Allowed
    <3>3. NoEntry(c, m)'
      BY <1>4, <1>10 DEF NoEntry
    <3> QED
      BY <1>01, <1>9, <2>1, <3>2, <3>3
  <2>2. CASE d # c \/ y # m
    <3>1. y \in Got(d)
      BY <1>3, <2>2
    <3>2. /\ y.id \in 1..calls
          /\ y.from \in Child => y.from # d /\ SameRun(y.from, d)
          /\ InFlight(d, y) => NoEntry(d, y)
          /\ ~InFlight(d, y) => OneEntry(d, y)
      BY <3>1 DEF DeliveryInv, InboxOk
    <3> QED
      BY <1>1, <1>8, <1>14, <2>2, <3>1, <3>2
  <2> QED
    BY <2>1, <2>2
<1>16. \A d \in Child : InboxOk(d)'
  BY <1>15 DEF InboxOk, SameRun
<1>17. ASSUME NEW e \in Entries' PROVE EntryOk(e)'
  <2>1. EntryOk(e) /\ e \in Entries
    BY <1>10 DEF DeliveryInv
  <2>2. \A d \in Child : Got(d) \subseteq Got(d)'
    BY <1>3
  <2>3. e.kind = "reply" =>
          /\ \A d \in Child : ~Has(d, e.message.id)'
          /\ \A t \in Sender : Active(t)' => call'[t].msg.id # e.message.id
    BY <1>01, <1>03, <1>3, <1>5, <1>6, <2>1 DEF EntryOk
  <2> QED
    BY <1>1, <2>1, <2>2, <2>3 DEF EntryOk
<1>18. ASSUME NEW t \in told PROVE ReportOk(t)'
  <2>1. /\ t.id \in 1..calls /\ t.id # m.id
        /\ t.got = {d \in Child : Has(d, t.id)}
        /\ \A q \in Sender : Active(q) => call[q].msg.id # t.id
    BY <1>03 DEF DeliveryInv, ReportOk
  <2>2. \A d \in Child : Has(d, t.id)' <=> Has(d, t.id)
    BY <1>3, <2>1
  <2>3. {d \in Child : Has(d, t.id)}' = {d \in Child : Has(d, t.id)}
    BY <2>2
  <2>4. \A q \in Sender : Active(q)' => call'[q].msg.id # t.id
    BY <1>01, <1>5, <1>6, <2>1
  <2> QED
    BY <1>1, <2>1, <2>3, <2>4 DEF ReportOk
<1> QED
  BY <1>01, <1>3, <1>11, <1>12, <1>13, <1>16, <1>17, <1>18 DEF DeliveryInv

LEMMA SendDelivery ==
  ASSUME ConstantsOK, DeliveryInv, MailShapes', NEW s \in Sender, NEW ref, Send(s, ref)
  PROVE  DeliveryInv'
<1>1. MailShapes /\ calls \in Nat
  BY DEF DeliveryInv, MailShapes
<1>2. PICK c \in Child :
        /\ Allowed(s, c)
        /\ inbox' = [inbox EXCEPT ![c] = Append(@, Message(s))]
        /\ call' = [call EXCEPT ![s] = [op |-> "send", msg |-> Message(s), run |-> RunOf[c],
                                        todo |-> {c}, waits |-> TRUE, got |-> {}]]
  BY DEF Send, ResolveChildRef
<1>3. PICK m \in MessageSet : m = Message(s) /\ m.id = calls + 1 /\ m.from = s
  BY <1>1, MessageIs
<1>4. PICK x : x = [op |-> "send", msg |-> m, run |-> RunOf[c],
                    todo |-> {c}, waits |-> TRUE, got |-> {}]
  OBVIOUS
<1>5. /\ x \in CallSet \ {Idle} /\ x.op = "send" /\ x.msg = m /\ x.waits
      /\ x.todo = {c} /\ x.got = {}
  <2>1. x \in CallSet
    BY <1>4, RunsOfChildren DEF CallSet
  <2>2. x.op # Idle.op
    BY <1>4 DEF Idle
  <2> QED
    BY <1>4, <2>1, <2>2
<1>6. inbox' = [inbox EXCEPT ![c] = Append(@, m)] /\ call' = [call EXCEPT ![s] = x]
  BY <1>2, <1>3, <1>4
<1>7. /\ calls' = calls + 1 /\ UNCHANGED <<said, told>> /\ ~Active(s)
  BY DEF Send, MayCall, Active
<1>8. /\ \A d \in Child : ~Has(d, m.id)
      /\ \A t \in Sender : Active(t) => call[t].msg.id # m.id
      /\ \A t \in told : t.id # m.id
  BY <1>3, FreshNumber
<1>9. \A e \in Entries : e.kind = "reply" => e.message.id # m.id
  BY <1>1, <1>3 DEF DeliveryInv, EntryOk
<1>10. Precedes(c, c)
  BY LastTarget
<1>11. /\ calls' >= calls /\ m.id \in 1..calls'
  BY <1>1, <1>3, <1>7
<1>12. /\ \A d \in x.todo : Precedes(c, d) /\ Allowed(s, d) /\ d \notin x.got
       /\ \E d \in Child : x.todo = {d}
       /\ \A d \in Child : Has(d, m.id) <=> d \in x.got
       /\ \A d \in Child : \A y \in Got(d) : y.id = m.id => y = m
  BY <1>2, <1>5, <1>8, <1>10 DEF Has
<1>13. TakesIn(s, c, m, x)
  BY <1>3, <1>5, <1>6, <1>7, <1>8, <1>9, <1>11, <1>12 DEF TakesIn
<1> QED
  BY <1>5, <1>13, TakenIn

LEMMA SteerDelivery ==
  ASSUME ConstantsOK, DeliveryInv, MailShapes',
         NEW s \in Sender, NEW c \in Child, Steer(s, c)
  PROVE  DeliveryInv'
<1>1. MailShapes /\ calls \in Nat
  BY DEF DeliveryInv, MailShapes
<1>2. /\ call[s].op = "broadcast" /\ ~call[s].waits /\ At(s, c)
      /\ inbox' = [inbox EXCEPT ![c] = Append(@, call[s].msg)]
      /\ call' = [call EXCEPT ![s] = [call[s] EXCEPT !.waits = TRUE]]
      /\ UNCHANGED <<said, told, calls>>
  BY DEF Steer, history
<1>3. Active(s)
  BY <1>2 DEF Active, Idle
<1>4. call[s] \in CallSet \ {Idle} /\ call[s].msg \in MessageSet
  BY <1>1, <1>3, CallIs
<1>5. PICK m \in MessageSet : m = call[s].msg
  BY <1>4
<1>6. PICK x : x = [call[s] EXCEPT !.waits = TRUE]
  OBVIOUS
<1>7. /\ x \in CallSet \ {Idle} /\ x.op = "broadcast" /\ x.msg = m /\ x.waits
      /\ x.todo = call[s].todo /\ x.got = call[s].got
  <2>1. /\ x \in CallSet /\ x.op = call[s].op /\ x.msg = call[s].msg /\ x.waits
        /\ x.todo = call[s].todo /\ x.got = call[s].got
    BY <1>4, <1>6 DEF CallSet
  <2>2. x.op # Idle.op
    BY <1>2, <2>1 DEF Idle
  <2> QED
    BY <1>2, <1>5, <2>1, <2>2
<1>8. /\ m.id \in 1..calls /\ m.from = s
      /\ \A d \in call[s].todo : Allowed(s, d) /\ d \notin call[s].got
      /\ \A d \in Child : Has(d, m.id) <=> d \in call[s].got
      /\ \A d \in Child : \A y \in Got(d) : y.id = m.id => y = m
  <2>1. CallOk(s)
    BY DEF DeliveryInv
  <2> QED
    BY <1>2, <1>3, <1>5, <2>1 DEF CallOk
<1>9. c \in x.todo /\ \A d \in x.todo : Precedes(c, d) /\ Allowed(s, d) /\ d \notin x.got
  BY <1>2, <1>7, <1>8 DEF At
<1>10. \A t \in Sender : Active(t) /\ t # s => call[t].msg.id # m.id
  BY <1>3, <1>5 DEF DeliveryInv, OwnIds
<1>11. /\ \A t \in told : t.id # m.id
       /\ \A e \in Entries : e.kind = "reply" => e.message.id # m.id
  BY <1>3, <1>5 DEF DeliveryInv, ReportOk, EntryOk
<1>12. /\ inbox' = [inbox EXCEPT ![c] = Append(@, m)] /\ call' = [call EXCEPT ![s] = x]
       /\ calls' >= calls /\ m.id \in 1..calls' /\ UNCHANGED <<said, told>>
  BY <1>1, <1>2, <1>5, <1>6, <1>8
<1>13. /\ Allowed(s, c) /\ (x.op = "send" => \E d \in Child : x.todo = {d})
       /\ \A d \in Child : Has(d, m.id) <=> d \in x.got
       /\ \A d \in Child : \A y \in Got(d) : y.id = m.id => y = m
       /\ x \in CallSet \ {Idle} /\ x.msg = m /\ x.waits /\ m.from = s
       /\ Active(s) => ~call[s].waits
  BY <1>2, <1>7, <1>8, <1>9
<1>14. TakesIn(s, c, m, x)
  BY <1>9, <1>10, <1>11, <1>12, <1>13 DEF TakesIn
<1> QED
  BY <1>13, <1>14, TakenIn

(* The call of s becomes x, and those of the others stay.                  *)
LEMMA OneCall ==
  ASSUME MailShapes, NEW s \in Sender, NEW x \in CallSet, call' = [call EXCEPT ![s] = x]
  PROVE  /\ call'[s] = x /\ (Active(s)' <=> x # Idle)
         /\ \A t \in Sender \ {s} : call'[t] = call[t] /\ (Active(t)' <=> Active(t))
         /\ \A t \in Sender \ {s} : \A d : At(t, d)' <=> At(t, d)
<1>1. call'[s] = x /\ \A t \in Sender \ {s} : call'[t] = call[t]
  BY DEF MailShapes
<1> QED
  BY <1>1 DEF Active, At

LEMMA CallMoves ==
  ASSUME DeliveryInv, MailShapes', NEW s \in Sender, NEW x \in CallSet,
         call' = [call EXCEPT ![s] = x], UNCHANGED inbox, calls' >= calls,
         CallOk(s)',
         x # Idle => \A t \in Sender \ {s} : Active(t) => call[t].msg.id # x.msg.id,
         \A e \in Entries' : EntryOk(e)',
         \A t \in told' : ReportOk(t)',
         \A d \in Child : \A y \in Got(d) :
           (InFlight(d, y)' => NoEntry(d, y)') /\ (~InFlight(d, y)' => OneEntry(d, y)')
  PROVE  DeliveryInv'
<1>1. MailShapes /\ \A n : n \in 1..calls => n \in 1..calls'
  BY DEF DeliveryInv, MailShapes
<1>2. /\ call'[s] = x /\ (Active(s)' <=> x # Idle)
      /\ \A t \in Sender \ {s} : call'[t] = call[t] /\ (Active(t)' <=> Active(t))
      /\ \A t \in Sender \ {s} : \A d : At(t, d)' <=> At(t, d)
  BY <1>1, OneCall
<1>3. \A d : Got(d)' = Got(d) /\ (NoTwice(d)' <=> NoTwice(d))
  BY DEF Got, NoTwice
<1>4. \A d, n : Has(d, n)' <=> Has(d, n)
  BY <1>3 DEF Has
<1>5. ASSUME NEW t \in Sender \ {s} PROVE CallOk(t)'
  <2>1. CallOk(t)
    BY DEF DeliveryInv
  <2> QED
    BY <1>1, <1>2, <1>3, <1>4, <2>1 DEF CallOk
<1>6. OwnIds'
  BY <1>2 DEF DeliveryInv, OwnIds
<1>7. ASSUME NEW d \in Child PROVE InboxOk(d)'
  <2>1. InboxOk(d)
    BY DEF DeliveryInv
  <2> QED
    BY <1>1, <1>3, <2>1 DEF InboxOk
<1> QED
  BY <1>3, <1>5, <1>6, <1>7 DEF DeliveryInv

(* A call that waits for no session moves on, and no entry is made.        *)
LEMMA NothingMade ==
  ASSUME DeliveryInv, NEW s \in Sender, NEW x \in CallSet,
         call' = [call EXCEPT ![s] = x], UNCHANGED <<inbox, said>>,
         Active(s) => ~call[s].waits, x # Idle => ~x.waits
  PROVE  \A d \in Child : \A y \in Got(d) :
           (InFlight(d, y)' => NoEntry(d, y)') /\ (~InFlight(d, y)' => OneEntry(d, y)')
<1>1. MailShapes
  BY DEF DeliveryInv
<1>2. /\ call'[s] = x
      /\ \A t \in Sender \ {s} : call'[t] = call[t]
      /\ \A t \in Sender \ {s} : \A d : At(t, d)' <=> At(t, d)
  BY <1>1, OneCall
<1>3. ~(call[s].op # "idle" /\ call[s].waits) /\ ~(call'[s].op # "idle" /\ call'[s].waits)
  BY <1>1, <1>2, CallIs DEF Idle
<1>4. \A d, y : InFlight(d, y)' <=> InFlight(d, y)
  BY <1>2, <1>3 DEF InFlight
<1>5. Entries' = Entries
  BY DEF Entries
<1>6. ASSUME NEW d \in Child, NEW y \in Got(d)
      PROVE  (NoEntry(d, y) => NoEntry(d, y)') /\ (OneEntry(d, y) => OneEntry(d, y)')
  BY <1>5 DEF NoEntry, OneEntry
<1> QED
  BY <1>4, <1>6 DEF DeliveryInv, InboxOk

LEMMA BroadcastDelivery ==
  ASSUME ConstantsOK, DeliveryInv, MailShapes',
         NEW s \in Sender, NEW r \in Run, Broadcast(s, r)
  PROVE  DeliveryInv'
<1> DEFINE targets == {c \in Child : RunOf[c] = r /\ c # s /\ ph[c] \in {"between", "running"}}
           y == [op |-> "broadcast", run |-> r, todo |-> targets, waits |-> FALSE,
                 got |-> {}, msg |-> Message(s)]
<1>1. MailShapes /\ calls \in Nat
  BY DEF DeliveryInv, MailShapes
<1>2. /\ call' = [call EXCEPT ![s] = IF targets = {} THEN Idle ELSE y]
      /\ calls' = calls + 1 /\ UNCHANGED <<inbox, said, told>>
      /\ s # Supervisor => r = RunOf[s]
      /\ ~Active(s)
  BY DEF Broadcast, MayCall, Active
<1>3. PICK m \in MessageSet : m = Message(s) /\ m.id = calls + 1 /\ m.from = s
  BY <1>1, MessageIs
<1>4. PICK x : x = IF targets = {} THEN Idle ELSE y
  OBVIOUS
<1>5. x # Idle => /\ x.op = "broadcast" /\ x.msg = m /\ ~x.waits /\ x.got = {}
                    /\ \A d \in x.todo : Allowed(s, d)
  <2>1. \A d \in targets : Allowed(s, d)
    BY <1>2 DEF Allowed, SameRun
  <2> HIDE DEF targets
  <2> QED
    BY <1>3, <1>4, <2>1
<1>6. x \in CallSet
  <2>1. y \in CallSet
    BY <1>3 DEF CallSet
  <2>2. Idle \in CallSet
    BY DEF CallSet
  <2> QED
    BY <1>4, <2>1, <2>2
<1>7. call' = [call EXCEPT ![s] = x]
  BY <1>2, <1>4
<1> HIDE DEF y, targets
<1>8. /\ \A d \in Child : ~Has(d, m.id)
      /\ \A t \in Sender : Active(t) => call[t].msg.id # m.id
      /\ \A t \in told : t.id # m.id
      /\ calls' >= calls /\ m.id \in 1..calls' /\ \A n : n \in 1..calls => n \in 1..calls'
  BY <1>1, <1>2, <1>3, FreshNumber
<1>9. /\ call'[s] = x /\ (Active(s)' <=> x # Idle)
      /\ \A t \in Sender \ {s} : call'[t] = call[t] /\ (Active(t)' <=> Active(t))
  BY <1>1, <1>6, <1>7, OneCall
<1>10. \A d : Got(d)' = Got(d)
  BY <1>2 DEF Got
<1>11. \A d, n : Has(d, n)' <=> Has(d, n)
  BY <1>10 DEF Has
<1>12. CallOk(s)'
  <2>1. SUFFICES ASSUME x # Idle PROVE CallOk(s)'
    BY <1>9 DEF CallOk
  <2>2. \A d \in Child : ~\E z \in Got(d)' : z.id = call'[s].msg.id
    BY <1>5, <1>8, <1>9, <1>10, <2>1 DEF Has
  <2> QED
    BY <1>3, <1>5, <1>8, <1>9, <2>1, <2>2 DEF CallOk, Has, Allowed, SameRun
<1>13. \A e \in Entries' : EntryOk(e)'
  <2> SUFFICES ASSUME NEW e \in Entries' PROVE EntryOk(e)'
    OBVIOUS
  <2>1. EntryOk(e)
    BY <1>2 DEF DeliveryInv, Entries
  <2>2. e.kind = "reply" =>
          /\ e.message \in MessageSet /\ e.message.id \in 1..calls'
          /\ \A d \in Child : ~Has(d, e.message.id)'
          /\ \A t \in Sender : Active(t)' => call'[t].msg.id # e.message.id
    <3>1. e.kind = "reply" => e.message.id # m.id
      BY <1>1, <1>3, <2>1 DEF EntryOk
    <3> QED
      BY <1>5, <1>8, <1>9, <1>11, <2>1, <3>1 DEF EntryOk
  <2> QED
    BY <1>10, <2>1, <2>2 DEF EntryOk
<1>14. \A t \in told' : ReportOk(t)'
  <2> SUFFICES ASSUME NEW t \in told PROVE ReportOk(t)'
    BY <1>2
  <2>1. /\ t.id \in 1..calls /\ t.got = {d \in Child : Has(d, t.id)}
        /\ \A q \in Sender : Active(q) => call[q].msg.id # t.id
    BY DEF DeliveryInv, ReportOk
  <2>2. {d \in Child : Has(d, t.id)}' = {d \in Child : Has(d, t.id)}
    BY <1>11
  <2>3. \A q \in Sender : Active(q)' => call'[q].msg.id # t.id
    BY <1>5, <1>8, <1>9, <2>1
  <2> QED
    BY <1>8, <2>1, <2>2, <2>3 DEF ReportOk
<1>15. \A d \in Child : \A z \in Got(d) :
         (InFlight(d, z)' => NoEntry(d, z)') /\ (~InFlight(d, z)' => OneEntry(d, z)')
  BY <1>2, <1>5, <1>6, <1>7, NothingMade
<1>16. x # Idle => \A t \in Sender \ {s} : Active(t) => call[t].msg.id # x.msg.id
  BY <1>5, <1>8
<1>17. UNCHANGED inbox
  BY <1>2
<1> QED
  BY <1>6, <1>7, <1>8, <1>12, <1>13, <1>14, <1>15, <1>16, <1>17, CallMoves

(* What the call of s is after its target c, and what it reports.          *)
NextCall(s, c, got) ==
  IF call[s].todo = {c} THEN Idle
  ELSE [call[s] EXCEPT !.todo = @ \ {c}, !.waits = FALSE, !.got = got]

LEMMA GoesOn ==
  ASSUME MailShapes, NEW s \in Sender, NEW c \in Child, Active(s),
         NEW got \in SUBSET Child, Continue(s, c, got)
  PROVE  /\ NextCall(s, c, got) \in CallSet
         /\ call' = [call EXCEPT ![s] = NextCall(s, c, got)]
         /\ NextCall(s, c, got) = Idle <=> call[s].todo = {c}
         /\ call[s].todo # {c} =>
              /\ NextCall(s, c, got).op = call[s].op /\ NextCall(s, c, got).msg = call[s].msg
              /\ NextCall(s, c, got).todo = call[s].todo \ {c}
              /\ ~NextCall(s, c, got).waits /\ NextCall(s, c, got).got = got
         /\ \A t \in told' : \/ t \in told
                             \/ call[s].todo = {c} /\ t.id = call[s].msg.id /\ t.got = got
<1>1. call[s] \in CallSet \ {Idle} /\ call[s].op # "idle"
  BY CallIs
<1>2. \A x \in CallSet \ {Idle} :
        LET y == [x EXCEPT !.todo = @ \ {c}, !.waits = FALSE, !.got = got]
        IN  /\ y \in CallSet /\ y.op = x.op /\ y.msg = x.msg /\ y.todo = x.todo \ {c}
            /\ ~y.waits /\ y.got = got
  BY DEF CallSet
<1>3. Idle \in CallSet /\ Idle.op = "idle"
  BY DEF CallSet, Idle
<1>4. call' = [call EXCEPT ![s] = NextCall(s, c, got)]
  BY DEF Continue, NextCall
<1>5. CASE call[s].todo = {c}
  BY <1>3, <1>4, <1>5 DEF NextCall, Continue
<1>6. CASE call[s].todo # {c}
  <2>1. PICK y : y = NextCall(s, c, got)
    OBVIOUS
  <2>2. y = [call[s] EXCEPT !.todo = @ \ {c}, !.waits = FALSE, !.got = got]
    BY <1>6, <2>1 DEF NextCall
  <2>3. /\ y \in CallSet /\ y.op = call[s].op /\ y.msg = call[s].msg
        /\ y.todo = call[s].todo \ {c} /\ ~y.waits /\ y.got = got
    BY <1>1, <1>2, <2>2
  <2>4. y # Idle
    BY <1>1, <1>3, <2>3
  <2>5. told' = told
    BY <1>6 DEF Continue
  <2> QED
    BY <1>4, <1>6, <2>1, <2>3, <2>4, <2>5
<1> QED
  BY <1>5, <1>6

(* What a call of s that moves past c must have told and taken in.         *)
LEMMA MovesPast ==
  ASSUME ConstantsOK, DeliveryInv, MailShapes', NEW s \in Sender, NEW c \in Child,
         Active(s), c \in call[s].todo, NEW got \in SUBSET Child, Continue(s, c, got),
         got = call[s].got \cup {c} \/ got = call[s].got,
         \A d \in Child : Has(d, call[s].msg.id) <=> d \in got,
         UNCHANGED <<inbox, calls>>,
         \A e \in Entries' : e \in Entries \/
           (e.kind \in {"send", "broadcast"} /\ e.to \in Child /\ e.message \in Got(e.to)),
         \A d \in Child : \A y \in Got(d) :
           (InFlight(d, y)' => NoEntry(d, y)') /\ (~InFlight(d, y)' => OneEntry(d, y)')
  PROVE  DeliveryInv'
<1>1. MailShapes /\ calls' >= calls
  BY DEF DeliveryInv, MailShapes
<1>2. /\ call[s] \in CallSet \ {Idle} /\ call[s].op \in {"send", "broadcast"}
      /\ call[s].msg \in MessageSet
  BY <1>1, CallIs
<1>3. PICK x : x = NextCall(s, c, got)
  OBVIOUS
<1>4. /\ x \in CallSet /\ call' = [call EXCEPT ![s] = x]
      /\ x = Idle <=> call[s].todo = {c}
      /\ call[s].todo # {c} =>
           /\ x.op = call[s].op /\ x.msg = call[s].msg /\ x.todo = call[s].todo \ {c}
           /\ ~x.waits /\ x.got = got
      /\ \A t \in told' : \/ t \in told
                          \/ call[s].todo = {c} /\ t.id = call[s].msg.id /\ t.got = got
  BY <1>1, <1>3, GoesOn
<1>5. PICK m \in MessageSet : m = call[s].msg
  BY <1>2
<1>6. /\ m.id \in 1..calls /\ m.from = s
      /\ \A d \in call[s].todo : Allowed(s, d) /\ d \notin call[s].got
      /\ call[s].op = "send" => \E d \in Child : call[s].todo = {d}
      /\ \A d \in Child : \A y \in Got(d) : y.id = m.id => y = m
  <2>1. CallOk(s)
    BY DEF DeliveryInv
  <2> QED
    BY <1>5, <2>1 DEF CallOk
<1>7. /\ call'[s] = x /\ (Active(s)' <=> x # Idle)
      /\ \A t \in Sender \ {s} : call'[t] = call[t] /\ (Active(t)' <=> Active(t))
  BY <1>1, <1>4, OneCall
<1>8. \A d : Got(d)' = Got(d)
  BY DEF Got
<1>9. \A d, n : Has(d, n)' <=> Has(d, n)
  BY <1>8 DEF Has
<1>10. CallOk(s)'
  <2>1. SUFFICES ASSUME x # Idle PROVE CallOk(s)'
    BY <1>7 DEF CallOk
  <2>2. x.op = "broadcast" /\ x.msg = m /\ x.todo = call[s].todo \ {c} /\ ~x.waits /\ x.got = got
    BY <1>2, <1>4, <1>5, <1>6, <2>1
  <2>3. \A d \in x.todo : Allowed(s, d) /\ d \notin x.got
    BY <1>6, <2>2
  <2>4. \A d \in Child : (\E y \in Got(d)' : y.id = call'[s].msg.id) <=> d \in got
    BY <1>5, <1>7, <1>8, <2>2 DEF Has
  <2> QED
    BY <1>6, <1>7, <1>8, <2>2, <2>3, <2>4 DEF CallOk, Has, Allowed, SameRun
<1>11. x # Idle => \A t \in Sender \ {s} : Active(t) => call[t].msg.id # x.msg.id
  BY <1>4 DEF DeliveryInv, OwnIds
<1>12. \A t \in Sender : Active(t)' => Active(t) /\ call'[t].msg = call[t].msg
  BY <1>4, <1>7
<1>13. ASSUME NEW e \in Entries' PROVE EntryOk(e)'
  <2>1. CASE e \in Entries
    <3>1. EntryOk(e)
      BY <2>1 DEF DeliveryInv
    <3> QED
      BY <1>8, <1>9, <1>12, <3>1 DEF EntryOk
  <2>2. CASE e \notin Entries
    <3>1. e.kind \in {"send", "broadcast"} /\ e.to \in Child /\ e.message \in Got(e.to)
      BY <2>2
    <3> QED
      BY <1>8, <3>1 DEF EntryOk
  <2> QED
    BY <2>1, <2>2
<1>14. ASSUME NEW t \in told' PROVE ReportOk(t)'
  <2>1. {d \in Child : Has(d, t.id)}' = {d \in Child : Has(d, t.id)}
    BY <1>9
  <2>2. CASE t \in told
    <3>1. ReportOk(t)
      BY <2>2 DEF DeliveryInv
    <3> QED
      BY <1>12, <2>1, <3>1 DEF ReportOk
  <2>3. CASE call[s].todo = {c} /\ t.id = call[s].msg.id /\ t.got = got
    <3>1. t.got = {d \in Child : Has(d, t.id)}
      BY <2>3
    <3>2. \A q \in Sender : Active(q)' => call'[q].msg.id # t.id
      BY <1>4, <1>7, <2>3 DEF DeliveryInv, OwnIds
    <3> QED
      BY <1>5, <1>6, <2>1, <2>3, <3>1, <3>2 DEF ReportOk
  <2> QED
    BY <1>4, <2>2, <2>3
<1>15. UNCHANGED inbox
  OBVIOUS
<1> QED
  BY <1>1, <1>4, <1>10, <1>11, <1>13, <1>14, <1>15, CallMoves

LEMMA PassOverDelivery ==
  ASSUME ConstantsOK, DeliveryInv, MailShapes',
         NEW s \in Sender, NEW c \in Child, PassOver(s, c)
  PROVE  DeliveryInv'
<1>1. MailShapes
  BY DEF DeliveryInv
<1>2. /\ call[s].op = "broadcast" /\ ~call[s].waits /\ At(s, c)
      /\ Continue(s, c, call[s].got) /\ UNCHANGED <<inbox, said, calls>>
  BY DEF PassOver
<1>3. Active(s) /\ c \in call[s].todo
  BY <1>2 DEF Active, Idle, At
<1>4. PICK got \in SUBSET Child : got = call[s].got
  BY <1>1, <1>3, CallIs
<1>5. \A d \in Child : Has(d, call[s].msg.id) <=> d \in got
  <2>1. CallOk(s)
    BY DEF DeliveryInv
  <2> QED
    BY <1>2, <1>3, <1>4, <2>1 DEF CallOk
<1>6. Entries' = Entries
  BY <1>2 DEF Entries
<1>7. PICK x : x = NextCall(s, c, got)
  OBVIOUS
<1>8. /\ x \in CallSet /\ call' = [call EXCEPT ![s] = x]
      /\ x # Idle => ~x.waits
  BY <1>1, <1>2, <1>3, <1>4, <1>7, GoesOn
<1>9. \A d \in Child : \A y \in Got(d) :
        (InFlight(d, y)' => NoEntry(d, y)') /\ (~InFlight(d, y)' => OneEntry(d, y)')
  BY <1>2, <1>8, NothingMade
<1> QED
  BY <1>2, <1>3, <1>4, <1>5, <1>6, <1>9, MovesPast

LEMMA DeliveredDelivery ==
  ASSUME ConstantsOK, DeliveryInv, MailShapes',
         NEW s \in Sender, NEW c \in Child, Delivered(s, c)
  PROVE  DeliveryInv'
<1>1. MailShapes
  BY DEF DeliveryInv
<1>2. /\ call[s] # Idle /\ call[s].waits /\ At(s, c)
      /\ Continue(s, c, call[s].got \cup {c}) /\ UNCHANGED <<inbox, calls>>
  BY DEF Delivered
<1>3. Active(s) /\ c \in call[s].todo
  BY <1>2 DEF Active, At
<1>4. PICK got \in SUBSET Child : got = call[s].got \cup {c}
  BY <1>1, <1>3, CallIs
<1>5. PICK m : m = call[s].msg
  OBVIOUS
<1>6. CallOk(s)
  BY DEF DeliveryInv
<1>7. \A d \in Child : Has(d, m.id) <=> d \in got
  <2>1. \A d \in Child : Has(d, m.id) <=> d \in call[s].got \/ At(s, d)
    BY <1>2, <1>3, <1>5, <1>6 DEF CallOk
  <2>2. \A d \in Child : At(s, d) => d = c
    BY <1>2, OneTarget
  <2> QED
    BY <1>2, <1>4, <2>1, <2>2
<1>8. m \in Got(c)
  <2>1. PICK z \in Got(c) : z.id = m.id
    BY <1>4, <1>7 DEF Has
  <2>2. \A y \in Got(c) : y.id = m.id => y = m
    BY <1>3, <1>5, <1>6 DEF CallOk
  <2> QED
    BY <2>1, <2>2
<1>9. PICK e \in EntrySet :
        /\ e.kind \in {"send", "broadcast"} /\ e.to = c /\ e.message = m
        /\ said' = Append(said, e)
  BY <1>1, <1>5, DeliveredIs
<1>10. Entries' = Entries \cup {e}
  BY <1>1, <1>9, EntriesAppended
<1>11. PICK x : x = NextCall(s, c, got)
  OBVIOUS
<1>12. /\ x \in CallSet /\ call' = [call EXCEPT ![s] = x]
       /\ x # Idle => ~x.waits
  BY <1>1, <1>2, <1>3, <1>4, <1>11, GoesOn
<1>13. /\ call'[s] = x
       /\ \A t \in Sender \ {s} : call'[t] = call[t]
       /\ \A t \in Sender \ {s} : \A d : At(t, d)' <=> At(t, d)
  BY <1>1, <1>12, OneCall
<1>14. ~(call'[s].op # "idle" /\ call'[s].waits)
  BY <1>12, <1>13 DEF Idle
<1>15. \A d, y : InFlight(d, y)' <=>
         \E t \in Sender \ {s} :
           call[t].op # "idle" /\ call[t].waits /\ call[t].msg = y /\ At(t, d)
  BY <1>13, <1>14 DEF InFlight
<1>16. \A d \in Child : \A y : d # c \/ y # m => (InFlight(d, y)' <=> InFlight(d, y))
  <2>1. \A d \in Child : At(s, d) => d = c
    BY <1>2, OneTarget
  <2> QED
    BY <1>5, <1>15, <2>1 DEF InFlight
<1>17. ASSUME NEW d \in Child, NEW y \in Got(d)
       PROVE  (InFlight(d, y)' => NoEntry(d, y)') /\ (~InFlight(d, y)' => OneEntry(d, y)')
  <2>1. CASE d = c /\ y = m
    <3>1. InFlight(c, m)
      BY <1>1, <1>2, <1>3, <1>5, CallIs DEF InFlight
    <3>2. NoEntry(c, m)
      BY <1>8, <3>1 DEF DeliveryInv, InboxOk
    <3>3. OneEntry(c, m)'
      BY <1>9, <1>10, <3>2 DEF NoEntry, OneEntry, Of
    <3>4. ~InFlight(c, m)'
      <4>1. \A t \in Sender \ {s} : Active(t) => call[t].msg.id # m.id
        BY <1>3, <1>5 DEF DeliveryInv, OwnIds
      <4>2. \A t \in Sender : call[t].op # "idle" => Active(t)
        BY <1>1, CallIs
      <4> QED
        BY <1>15, <4>1, <4>2
    <3> QED
      BY <2>1, <3>3, <3>4
  <2>2. CASE d # c \/ y # m
    <3>1. ~Of(e, d, y)
      BY <1>9, <2>2 DEF Of
    <3>2. (NoEntry(d, y) => NoEntry(d, y)') /\ (OneEntry(d, y) => OneEntry(d, y)')
      BY <1>10, <3>1 DEF NoEntry, OneEntry
    <3>3. (InFlight(d, y) => NoEntry(d, y)) /\ (~InFlight(d, y) => OneEntry(d, y))
      BY DEF DeliveryInv, InboxOk
    <3> QED
      BY <1>16, <2>2, <3>2, <3>3
  <2> QED
    BY <2>1, <2>2
<1>18. \A z \in Entries' : z \in Entries \/
         (z.kind \in {"send", "broadcast"} /\ z.to \in Child /\ z.message \in Got(z.to))
  BY <1>8, <1>9, <1>10
<1>19. \A d \in Child : Has(d, call[s].msg.id) <=> d \in got
  BY <1>5, <1>7
<1> QED
  BY <1>2, <1>3, <1>4, <1>17, <1>18, <1>19, MovesPast

LEMMA DeliveryStep ==
  ASSUME ConstantsOK, DeliveryInv, [Next]_vars
  PROVE  DeliveryInv'
<1>1. MailShapes /\ MailShapes'
  BY ShapesStep DEF DeliveryInv
<1> QED
  BY <1>1, Steps, SendDelivery, BroadcastDelivery, SteerDelivery, PassOverDelivery,
     DeliveredDelivery, RepliedDelivery, ContactDelivery, QuietDelivery

LEMMA DeliveryFollows == DeliveryInv => DeliveryAccounted
<1> SUFFICES ASSUME DeliveryInv PROVE DeliveryAccounted
  OBVIOUS
<1>1. \A c : ToSet(inbox[c]) = Got(c)
  BY DEF ToSet, Got
<1>2. ASSUME NEW c \in Child, NEW m \in Got(c)
      PROVE  /\ Cardinality({i \in DOMAIN inbox[c] : inbox[c][i].id = m.id}) = 1
             /\ Cardinality({e \in Entries : e.to = c /\ e.message = m})
                  = IF InFlight(c, m) THEN 0 ELSE 1
             /\ m.from \in Child => m.from # c /\ SameRun(m.from, c)
  <2>1. /\ NoTwice(c)
        /\ m.from \in Child => m.from # c /\ SameRun(m.from, c)
        /\ InFlight(c, m) => NoEntry(c, m)
        /\ ~InFlight(c, m) => OneEntry(c, m)
    BY DEF DeliveryInv, InboxOk
  <2>2. PICK i \in DOMAIN inbox[c] : inbox[c][i] = m
    BY DEF Got
  <2>3. {j \in DOMAIN inbox[c] : inbox[c][j].id = m.id} = {i}
    BY <2>1, <2>2 DEF NoTwice
  <2>4. Cardinality({}) = 0 /\ \A x : Cardinality({x}) = 1
    BY FS_EmptySet, FS_Singleton
  <2>5. CASE InFlight(c, m)
    <3>1. {e \in Entries : e.to = c /\ e.message = m} = {}
      BY <2>1, <2>5 DEF NoEntry, Of
    <3> QED
      BY <2>1, <2>3, <2>4, <2>5, <3>1
  <2>6. CASE ~InFlight(c, m)
    <3>1. PICK e \in Entries : Of(e, c, m) /\ \A f \in Entries : Of(f, c, m) => f = e
      BY <2>1, <2>6 DEF OneEntry
    <3>2. {f \in Entries : f.to = c /\ f.message = m} = {e}
      BY <3>1 DEF Of
    <3> QED
      BY <2>1, <2>3, <2>4, <2>6, <3>2
  <2> QED
    BY <2>5, <2>6
<1>3. \A e \in Entries : e.kind \in {"send", "broadcast"} => e.message \in Got(e.to)
  BY DEF DeliveryInv, EntryOk
<1>4. \A t \in told : t.got = {c \in Child : \E m \in Got(c) : m.id = t.id}
  BY DEF DeliveryInv, ReportOk, Has
<1> QED
  BY <1>1, <1>2, <1>3, <1>4 DEF DeliveryAccounted

(* What the mailbox and the reports of broadcasts say was delivered is     *)
(* what the sessions took, each message once and from a sibling (comms.ts  *)
(* send, broadcast, assertSiblingAllowed), for any number of children,     *)
(* runs and calls, any capacity of the rings, and whatever the children do *)
(* while a call waits.                                                     *)
THEOREM DeliveryAlwaysAccounted == Spec => []DeliveryAccounted
<1>1. ConstantsOK
  BY MessagesAssumption
<1>2. Init => DeliveryInv
  BY <1>1, DeliveryInit
<1>3. DeliveryInv /\ [Next]_vars => DeliveryInv'
  BY <1>1, DeliveryStep
<1>4. DeliveryInv => DeliveryAccounted
  BY DeliveryFollows
<1> QED
  BY <1>2, <1>3, <1>4, PTL DEF Spec
=============================================================================
