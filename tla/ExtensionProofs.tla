---------------------------- MODULE ExtensionProofs ----------------------------
(***************************************************************************)
(* Theorems about what the model is told in the extension.                 *)
(*                                                                         *)
(* Wakes, for any commands and any number of faults: the model is told of  *)
(* an end once, and what it is told still runs does (ToldOnce and          *)
(* StillRunningTrue).  Two facts carry the proof.  A start or a wait is    *)
(* awaited in one place, among the requests or in one message on the wire, *)
(* however often it is asked again (AsksOk): so a call is answered once.   *)
(* And a command is listed as running exactly between its mark and its     *)
(* notice, a mark waits in the gate only that long, and deliverExit has    *)
(* run for it exactly if its notice is queued or sent (NoticeOk).          *)
(*                                                                         *)
(* ShellCommand, as S in the second half, for every limit, budget, slice   *)
(* and window and any number of faults: what the model is told of a shell  *)
(* command is true of it (AnswersTrue).  The delicate answer is a          *)
(* subagent's "timed out": its bash measures a deadline of its own and     *)
(* tells the timeout even if its stop is never heard.  LimitOk relates the *)
(* two clocks: the manager's timer started no later and, being due no      *)
(* later, has fired before the deadline is seen, so that the task is being *)
(* killed for the limit already.                                           *)
(***************************************************************************)
EXTENDS Integers, Wakes, SequenceTheorems, TLAPS

-----------------------------------------------------------------------------
(* The wire.  What is asked is awaited in one place: among the requests or *)
(* in one message.                                                         *)

EventSaid == {"started", "exited"} \X Task
Said == {"ok", "done", "budget"} \cup (SUBSET Task) \cup EventSaid
Message == [answers : {{}} \cup {{a} : a \in Ask}, says : Said]

HeldIn(as, w, a) == a \in as \/ \E i \in 1..Len(w) : a \in w[i].answers

OnceIn(as, w, a) ==
  /\ a \in as => \A i \in 1..Len(w) : a \notin w[i].answers
  /\ \A i, j \in 1..Len(w) : a \in w[i].answers /\ a \in w[j].answers => i = j

(* What a message adds at the wire's end ... *)
LEMMA WireAppended ==
  ASSUME NEW as, NEW w \in Seq(Message), NEW m \in Message, NEW b
  PROVE  /\ HeldIn(as, Append(w, m), b) <=> HeldIn(as, w, b) \/ b \in m.answers
         /\ OnceIn(as, w, b) /\ (b \in m.answers => ~HeldIn(as, w, b))
            => OnceIn(as, Append(w, m), b)
<1> DEFINE v == Append(w, m)
<1>1. /\ Len(w) \in Nat /\ Len(v) = Len(w) + 1
      /\ \A i \in 1..Len(w) : v[i] = w[i]
      /\ v[Len(w) + 1] = m
  BY AppendProperties, LenProperties
<1> HIDE DEF v
<1>2. \A i \in 1..Len(v) : i \in 1..Len(w) \/ i = Len(w) + 1
  BY <1>1
<1>3. HeldIn(as, v, b) <=> HeldIn(as, w, b) \/ b \in m.answers
  <2>1. HeldIn(as, v, b) => HeldIn(as, w, b) \/ b \in m.answers
    BY <1>1, <1>2 DEF HeldIn
  <2>2. HeldIn(as, w, b) => HeldIn(as, v, b)
    <3>1. \A i \in 1..Len(w) : i \in 1..Len(v) /\ v[i] = w[i]
      BY <1>1
    <3>2. QED
      BY <3>1 DEF HeldIn
  <2>3. b \in m.answers => HeldIn(as, v, b)
    <3>1. Len(w) + 1 \in 1..Len(v)
      BY <1>1
    <3>2. QED
      BY <1>1, <3>1 DEF HeldIn
  <2>4. QED
    BY <2>1, <2>2, <2>3
<1>4. ASSUME OnceIn(as, w, b), b \in m.answers => ~HeldIn(as, w, b)
      PROVE  OnceIn(as, v, b)
  BY <1>1, <1>2, <1>4 DEF HeldIn, OnceIn
<1>5. QED
  BY <1>3, <1>4 DEF v

(* ... and what is left when the first is read. *)
LEMMA WireTaken ==
  ASSUME NEW as, NEW w \in Seq(Message), w # <<>>, NEW b
  PROVE  /\ HeldIn(as, Tail(w), b) => HeldIn(as, w, b)
         /\ b \in Head(w).answers => HeldIn(as, w, b)
         /\ OnceIn(as, w, b) => OnceIn(as, Tail(w), b)
         /\ OnceIn(as, w, b) /\ b \in Head(w).answers => ~HeldIn(as, Tail(w), b)
<1> DEFINE v == Tail(w)
<1>1. /\ Len(w) \in Nat /\ Len(w) >= 1 /\ Len(v) = Len(w) - 1
      /\ \A i \in 1..Len(v) : v[i] = w[i + 1]
      /\ Head(w) = w[1]
  BY HeadTailProperties, LenProperties, EmptySeq
<1> HIDE DEF v
<1>2. \A i \in 1..Len(v) : i + 1 \in 1..Len(w)
  BY <1>1
<1>3. 1 \in 1..Len(w)
  BY <1>1
<1>4. HeldIn(as, v, b) => HeldIn(as, w, b)
  BY <1>1, <1>2 DEF HeldIn
<1>5. b \in Head(w).answers => HeldIn(as, w, b)
  BY <1>1, <1>3 DEF HeldIn
<1>6. OnceIn(as, w, b) => OnceIn(as, v, b)
  <2>1. ASSUME OnceIn(as, w, b), NEW i \in 1..Len(v), NEW j \in 1..Len(v),
               b \in v[i].answers, b \in v[j].answers
        PROVE  i = j
    <3>1. i + 1 = j + 1
      BY <1>1, <1>2, <2>1 DEF OnceIn
    <3>2. QED
      BY <1>1, <3>1
  <2>2. ASSUME OnceIn(as, w, b), b \in as, NEW i \in 1..Len(v)
        PROVE  b \notin v[i].answers
    BY <1>1, <1>2, <2>2 DEF OnceIn
  <2>3. QED
    BY <2>1, <2>2 DEF OnceIn
<1>7. OnceIn(as, w, b) /\ b \in Head(w).answers => ~HeldIn(as, v, b)
  <2>1. SUFFICES ASSUME OnceIn(as, w, b), b \in w[1].answers, HeldIn(as, v, b)
                 PROVE  FALSE
    BY <1>1
  <2>2. PICK i \in 1..Len(v) : b \in v[i].answers
    BY <1>3, <2>1 DEF OnceIn, HeldIn
  <2>3. i + 1 = 1
    BY <1>1, <1>2, <1>3, <2>1, <2>2 DEF OnceIn
  <2>4. QED
    BY <1>1, <2>3
<1>8. QED
  BY <1>4, <1>5, <1>6, <1>7 DEF v

(* The types the proof needs. *)
WireOk ==
  /\ wire \in Seq(Message) /\ asks \subseteq Ask
  /\ link # "up" => wire = <<>>
  /\ call \in [Task -> {"new", "starting", "waiting", "done", "background", "aborted", "local"}]
  /\ rec \in [Task -> {"none", "running", "ended"}]

(* A call's start and its wait are each awaited once, and only while the   *)
(* call stands there; a wait may outlive its call by an abort.             *)
AskOk(t) ==
  /\ OnceIn(asks, wire, About("start", t)) /\ OnceIn(asks, wire, About("wait", t))
  /\ HeldIn(asks, wire, About("start", t)) => call[t] = "starting"
  /\ HeldIn(asks, wire, About("wait", t)) => call[t] \in {"waiting", "aborted"}

AsksOk == \A t \in Task : AskOk(t)

LEMMA Abouts ==
  /\ \A w, v, t, u : About(w, t) = About(v, u) <=> w = v /\ t = u
  /\ \A w, t : About(w, t).what = w /\ About(w, t).of = t
  /\ \A w \in TaskAsk, t \in Task : About(w, t) \in Ask
  /\ \A w \in ListAsk : [what |-> w] \in Ask
  /\ \A v, t : \A w \in ListAsk : [what |-> w] # About(v, t)
  /\ \A w : [what |-> w].what = w
BY DEF About, Ask, TaskAsk, ListAsk

LEMMA AskKinds ==
  \A a \in Ask : a.what \in TaskAsk => a.of \in Task /\ a = About(a.what, a.of)
BY DEF About, Ask, TaskAsk, ListAsk

LEMMA Messages ==
  /\ \A a \in Ask, s \in {"ok", "done", "budget"} \cup (SUBSET Task) :
       Answer(a, s) \in Message /\ Answer(a, s).answers = {a}
  /\ \A w \in {"started", "exited"}, t \in Task : Event(w, t) \in Message
                                             /\ Event(w, t).answers = {}
<1>1. ASSUME NEW a \in Ask, NEW s \in {"ok", "done", "budget"} \cup (SUBSET Task)
      PROVE  Answer(a, s) \in Message /\ Answer(a, s).answers = {a}
  <2>1. s \in Said
    BY DEF Said
  <2>2. QED
    BY <2>1 DEF Message, Answer
<1>2. ASSUME NEW w \in {"started", "exited"}, NEW t \in Task
      PROVE  Event(w, t) \in Message /\ Event(w, t).answers = {}
  <2>1. <<w, t>> \in EventSaid
    BY DEF EventSaid
  <2>2. EventSaid \subseteq Said
    BY DEF Said
  <2>3. \A x \in Said : [answers |-> {}, says |-> x] \in Message
    BY DEF Message
  <2>4. QED
    BY <2>1, <2>2, <2>3 DEF Event
<1>3. QED
  BY <1>1, <1>2

(* handle_start's message, or two, of which one answers. *)
LEMMA StartAnswered ==
  ASSUME WireOk, NEW t \in Task, AnswerStart(t), NEW as, NEW b
  PROVE  /\ wire' \in Seq(Message)
         /\ HeldIn(as, wire', b) <=> HeldIn(as, wire, b) \/ b = About("start", t)
         /\ OnceIn(as, wire, b) /\ (b = About("start", t) => ~HeldIn(as, wire, b))
            => OnceIn(as, wire', b)
<1> DEFINE a == About("start", t)
           pre == IF rec[t] = "none" THEN Append(wire, Event("started", t)) ELSE wire
<1>1. /\ Answer(a, "ok") \in Message /\ Answer(a, "ok").answers = {a}
      /\ Event("started", t) \in Message /\ Event("started", t).answers = {}
  BY Messages, Abouts DEF TaskAsk
<1>2. wire \in Seq(Message)
  BY DEF WireOk
<1>3. /\ pre \in Seq(Message)
      /\ HeldIn(as, pre, b) <=> HeldIn(as, wire, b)
      /\ OnceIn(as, wire, b) => OnceIn(as, pre, b)
  BY <1>1, <1>2, WireAppended, AppendProperties
<1>4. wire' = Append(pre, Answer(a, "ok"))
  <2>1. CASE rec[t] = "none"
    <3>1. wire' = wire \o <<Event("started", t)>> \o <<Answer(a, "ok")>>
      BY <2>1 DEF AnswerStart
    <3>2. QED
      BY <1>1, <1>2, <1>3, <2>1, <3>1, AppendIsConcat
  <2>2. CASE rec[t] # "none"
    <3>1. wire' = wire \o <<>> \o <<Answer(a, "ok")>>
      BY <2>2 DEF AnswerStart
    <3>2. QED
      BY <1>1, <1>2, <1>3, <2>2, <3>1, AppendIsConcat, ConcatEmptySeq
  <2>3. QED
    BY <2>1, <2>2
<1> HIDE DEF pre, a
<1>5. QED
  BY <1>1, <1>3, <1>4, WireAppended, AppendProperties DEF a

LEMMA MessageWireOk ==
  ASSUME WireOk, NEW m \in Message
  PROVE  Append(wire, m) \in Seq(Message)
BY AppendProperties DEF WireOk

LEMMA TailWireOk ==
  ASSUME WireOk, wire # <<>>
  PROVE  /\ Tail(wire) \in Seq(Message)
         /\ Head(wire) \in Message
         /\ \A a \in Head(wire).answers : a \in Ask /\ Head(wire).answers = {a}
<1>1. Tail(wire) \in Seq(Message) /\ Head(wire) \in Message
  BY HeadTailProperties DEF WireOk
<1>2. Head(wire).answers \in {{}} \cup {{a} : a \in Ask}
  BY <1>1 DEF Message
<1>3. QED
  BY <1>1, <1>2

(* What a message that answers makes of the calls. *)
LEMMA ReceivedAnswer ==
  ASSUME WireOk, Receive
  PROVE  /\ link = "up" /\ wire # <<>> /\ wire' = Tail(wire) /\ rec' = rec /\ link' = link
         /\ \/ UNCHANGED <<call, asks>>
            \/ \E a \in Head(wire).answers :
                 \/ a.what = "start" /\ Started(a.of)
                 \/ a.what = "wait" /\ \E done \in BOOLEAN : Waited(a.of, done)
<1>1. CASE Head(wire).answers = {} \/ UNCHANGED <<call, asks>>
  BY <1>1 DEF Receive, WireOk
<1>2. CASE Head(wire).answers # {} /\ ~UNCHANGED <<call, asks>>
  <2>1. PICK a \in Head(wire).answers :
          \/ a.what = "start" /\ Started(a.of)
          \/ a.what = "wait" /\ Waited(a.of, Head(wire).says = "done")
    BY <1>2 DEF Receive
  <2>2. (Head(wire).says = "done") \in BOOLEAN
    BY Zenon
  <2>3. QED
    BY <2>1, <2>2 DEF Receive, WireOk
<1>3. QED
  BY <1>1, <1>2

LEMMA UnheardIs == WireOk => \A a : a \in Unheard <=> HeldIn(asks, wire, a)
BY LenProperties DEF WireOk, Unheard, HeldIn

LEMMA UnheardOk == WireOk => Unheard \subseteq Ask
<1> SUFFICES ASSUME WireOk, NEW a \in Unheard PROVE a \in Ask
  OBVIOUS
<1>1. HeldIn(asks, wire, a)
  BY UnheardIs
<1>2. \A i \in 1..Len(wire) : wire[i] \in Message
  BY ElementOfSeq DEF WireOk
<1>3. QED
  BY <1>1, <1>2 DEF WireOk, HeldIn, Message

LEMMA StepWireOk == WireOk /\ [Next]_vars => WireOk'
<1> SUFFICES ASSUME WireOk, [Next]_vars PROVE WireOk'
  OBVIOUS
<1> USE DEF vars, bashVars, gateVars, wireVars, watchVars, Fault, WireOk,
        TaskAsk, ListAsk
<1>1. CASE Next
  <2>1. ASSUME NEW t \in Task, Bash(t) PROVE WireOk'
    BY <2>1, Abouts DEF Bash
  <2>2. ASSUME NEW t \in Task, AnswerStart(t) PROVE WireOk'
    <3>1. wire' \in Seq(Message)
      BY <2>2, StartAnswered
    <3>2. QED
      BY <2>2, <3>1 DEF AnswerStart
  <2>3. ASSUME NEW t \in Task, AnswerWait(t) PROVE WireOk'
    <3>1. Answer(About("wait", t), IF rec[t] = "ended" THEN "done" ELSE "budget") \in Message
      BY Messages, Abouts
    <3>2. QED
      BY <2>3, <3>1, MessageWireOk DEF AnswerWait
  <2>4. ASSUME NEW t \in Task, TaskEnds(t) PROVE WireOk'
    BY <2>4 DEF TaskEnds
  <2>5. ASSUME NEW t \in Task, TaskExited(t) PROVE WireOk'
    BY <2>5, Messages, MessageWireOk DEF TaskExited
  <2>6. ASSUME NEW t \in Task, Abort(t) PROVE WireOk'
    BY <2>6 DEF Abort
  <2>7. ASSUME NEW t \in Task, StashExpires(t) PROVE WireOk'
    BY <2>7 DEF StashExpires
  <2>8. ASSUME NEW a \in asks, AnswerList(a) PROVE WireOk'
    BY <2>8, Messages, MessageWireOk DEF AnswerList, Ended
  <2>9. ASSUME Receive PROVE WireOk'
    <3>1. wire' \in Seq(Message) /\ link = "up"
      BY <2>9, TailWireOk DEF Receive
    <3>2. ASSUME NEW a \in Ask, a.what = "start", Started(a.of) PROVE WireOk'
      <4>1. a.of \in Task
        BY <3>2, AskKinds
      <4>2. asks' \subseteq Ask
        BY <3>2, <4>1, Abouts DEF Started, Missed
      <4>3. QED
        BY <2>9, <3>1, <3>2, <4>1, <4>2, ReceivedAnswer DEF Started
    <3>3. ASSUME NEW a \in Ask, a.what = "wait", NEW done \in BOOLEAN, Waited(a.of, done)
          PROVE  WireOk'
      <4>1. a.of \in Task
        BY <3>3, AskKinds
      <4>2. asks' \subseteq Ask
        BY <3>3, <4>1, Abouts DEF Waited, Missed
      <4>3. QED
        BY <2>9, <3>1, <3>3, <4>1, <4>2, ReceivedAnswer DEF Waited
    <3>4. CASE UNCHANGED <<call, asks>>
      BY <2>9, <3>1, <3>4, ReceivedAnswer
    <3>5. QED
      BY <2>9, <3>2, <3>3, <3>4, ReceivedAnswer, TailWireOk
  <2>10. ASSUME FlushExits PROVE WireOk'
    BY <2>10 DEF FlushExits
  <2>11. ASSUME Look PROVE WireOk'
    BY <2>11, Abouts DEF Look
  <2>12. ASSUME DiskRead PROVE WireOk'
    BY <2>12 DEF DiskRead
  <2>13. ASSUME Tick PROVE WireOk'
    BY <2>13 DEF Tick
  <2>14. ASSUME TickSyncs PROVE WireOk'
    BY <2>14, Abouts DEF TickSyncs
  <2>15. ASSUME Drop PROVE WireOk'
    BY <2>15, UnheardOk, EmptySeq DEF Drop
  <2>16. ASSUME Crash PROVE WireOk'
    BY <2>16, UnheardOk, EmptySeq DEF Crash
  <2>17. ASSUME Reconnect PROVE WireOk'
    BY <2>17, Abouts DEF Reconnect
  <2>18. ASSUME GiveUp PROVE WireOk'
    BY <2>18 DEF GiveUp
  <2>19. QED
    BY <1>1, <2>1, <2>2, <2>3, <2>4, <2>5, <2>6, <2>7, <2>8, <2>9, <2>10,
       <2>11, <2>12, <2>13, <2>14, <2>15, <2>16, <2>17, <2>18 DEF Next
<1>2. CASE UNCHANGED vars
  BY <1>2
<1>3. QED
  BY <1>1, <1>2

LEMMA InitAsksOk == Init => WireOk /\ AsksOk
<1> SUFFICES ASSUME Init PROVE WireOk /\ AsksOk
  OBVIOUS
<1>1. wire = <<>> /\ wire \in Seq(Message) /\ Len(wire) = 0
  BY EmptySeq DEF Init
<1>2. QED
  BY <1>1 DEF Init, WireOk, AsksOk, AskOk, HeldIn, OnceIn

(* Every step keeps it so, of each call. *)
LEMMA StepAskOk ==
  ASSUME WireOk, AsksOk, [Next]_vars, NEW u \in Task
  PROVE  AskOk(u)'
<1> DEFINE s == About("start", u)
           w == About("wait", u)
<1> USE DEF vars, bashVars, gateVars, wireVars, watchVars, Fault, TaskAsk,
        ListAsk
<1>0. /\ wire \in Seq(Message) /\ Len(wire) \in Nat
      /\ OnceIn(asks, wire, s) /\ OnceIn(asks, wire, w)
      /\ HeldIn(asks, wire, s) => call[u] = "starting"
      /\ HeldIn(asks, wire, w) => call[u] \in {"waiting", "aborted"}
      /\ s # w
  BY LenProperties, Abouts DEF AsksOk, AskOk, WireOk
<1>a. /\ OnceIn(asks', wire', s) /\ OnceIn(asks', wire', w)
      /\ HeldIn(asks', wire', s) => call'[u] = "starting"
      /\ HeldIn(asks', wire', w) => call'[u] \in {"waiting", "aborted"}
      => AskOk(u)'
  BY DEF AskOk, About
<1>b. \A b : b \in asks => HeldIn(asks, wire, b)
  BY DEF HeldIn
(* Of two sets of requests that differ in other requests. *)
<1>c. \A as, c : c # s /\ c # w =>
        /\ HeldIn(as \cup {c}, wire, s) <=> HeldIn(as, wire, s)
        /\ HeldIn(as \cup {c}, wire, w) <=> HeldIn(as, wire, w)
        /\ OnceIn(as, wire, s) => OnceIn(as \cup {c}, wire, s)
        /\ OnceIn(as, wire, w) => OnceIn(as \cup {c}, wire, w)
  BY DEF HeldIn, OnceIn
<1>d. \A c : c \in {s, w} /\ ~HeldIn(asks, wire, c) => OnceIn(asks \cup {c}, wire, c)
  BY <1>0 DEF HeldIn, OnceIn
<1>e. \A c, b : /\ OnceIn(asks, wire, b) => OnceIn(asks \ {c}, wire, b)
                /\ HeldIn(asks \ {c}, wire, b) => HeldIn(asks, wire, b)
                /\ b \in asks /\ OnceIn(asks, wire, b) => ~HeldIn(asks \ {b}, wire, b)
  BY DEF HeldIn, OnceIn
<1>f. ASSUME asks' = asks, wire' = wire, call' = call PROVE AskOk(u)'
  BY <1>f, <1>0, <1>a
<1>g. ASSUME NEW c \in asks, NEW m \in Message, m.answers = {c}, asks' = asks \ {c},
             wire' = Append(wire, m), call' = call
      PROVE  AskOk(u)'
  <2>1. \A b : /\ OnceIn(asks, wire, b) => OnceIn(asks', wire', b)
               /\ HeldIn(asks', wire', b) => HeldIn(asks, wire, b)
    <3>1. SUFFICES ASSUME NEW b
                   PROVE  /\ OnceIn(asks, wire, b) => OnceIn(asks', wire', b)
                          /\ HeldIn(asks', wire', b) => HeldIn(asks, wire, b)
      OBVIOUS
    <3>2. /\ HeldIn(asks', wire', b) <=> HeldIn(asks', wire, b) \/ b \in m.answers
          /\ OnceIn(asks', wire, b) /\ (b \in m.answers => ~HeldIn(asks', wire, b))
             => OnceIn(asks', wire', b)
      BY <1>0, <1>g, WireAppended
    <3>3. QED
      BY <3>2, <1>b, <1>e, <1>g
  <2>2. QED
    BY <2>1, <1>0, <1>g DEF AskOk, About
<1>h. ASSUME wire' = <<>>, asks' \subseteq Unheard, call' = call PROVE AskOk(u)'
  <2>1. \A b : OnceIn(asks', wire', b) /\ (HeldIn(asks', wire', b) => HeldIn(asks, wire, b))
    BY <1>h, UnheardIs, EmptySeq DEF HeldIn, OnceIn
  <2>2. QED
    BY <2>1, <1>0, <1>h DEF AskOk, About
<1>1. CASE Next
  <2>1. ASSUME NEW t \in Task, Bash(t) PROVE AskOk(u)'
    <3>1. t = u => ~HeldIn(asks, wire, s) /\ ~HeldIn(asks, wire, w)
      BY <2>1, <1>0 DEF Bash
    <3>2. asks' = asks \cup {About("start", t)} /\ wire' = wire
          /\ call' = [call EXCEPT ![t] = "starting"] /\ call[t] = "new"
      BY <2>1 DEF Bash
    <3>3. CASE t = u
      <4>1. OnceIn(asks', wire', s) /\ OnceIn(asks', wire', w)
        BY <3>1, <3>2, <3>3, <1>0, <1>d DEF OnceIn
      <4>2. ~HeldIn(asks', wire', w)
        BY <3>1, <3>2, <3>3, <1>0 DEF HeldIn
      <4>3. QED
        BY <4>1, <4>2, <3>2, <3>3, <1>a DEF WireOk
    <3>4. CASE t # u
      <4>1. About("start", t) # s /\ About("start", t) # w
        BY <3>4, Abouts
      <4>2. QED
        BY <4>1, <3>2, <3>4, <1>0, <1>a, <1>c DEF WireOk
    <3>5. QED
      BY <3>3, <3>4
  <2>2. ASSUME NEW t \in Task, AnswerStart(t) PROVE AskOk(u)'
    <3>1. \A b : /\ OnceIn(asks, wire, b) => OnceIn(asks', wire', b)
                 /\ HeldIn(asks', wire', b) => HeldIn(asks, wire, b)
      <4>1. About("start", t) \in asks /\ asks' = asks \ {About("start", t)}
        BY <2>2 DEF AnswerStart
      <4>2. QED
        <5>1. SUFFICES ASSUME NEW b
                       PROVE  /\ OnceIn(asks, wire, b) => OnceIn(asks', wire', b)
                              /\ HeldIn(asks', wire', b) => HeldIn(asks, wire, b)
          OBVIOUS
        <5>2. /\ HeldIn(asks', wire', b) <=> HeldIn(asks', wire, b) \/ b = About("start", t)
              /\ OnceIn(asks', wire, b) /\ (b = About("start", t) => ~HeldIn(asks', wire, b))
                 => OnceIn(asks', wire', b)
          BY <2>2, StartAnswered
        <5>3. QED
          BY <5>2, <4>1, <1>b, <1>e
    <3>2. QED
      BY <3>1, <2>2, <1>0 DEF AnswerStart, AskOk, About
  <2>3. ASSUME NEW t \in Task, AnswerWait(t) PROVE AskOk(u)'
    <3>1. PICK says \in {"done", "budget"} : wire' = Append(wire, Answer(About("wait", t), says))
      BY <2>3 DEF AnswerWait
    <3>2. Answer(About("wait", t), says) \in Message
          /\ Answer(About("wait", t), says).answers = {About("wait", t)}
      BY Messages, Abouts
    <3>3. QED
      BY <2>3, <3>1, <3>2, <1>g DEF AnswerWait
  <2>4. ASSUME NEW t \in Task, TaskEnds(t) PROVE AskOk(u)'
    BY <2>4, <1>f DEF TaskEnds
  <2>5. ASSUME NEW t \in Task, TaskExited(t) PROVE AskOk(u)'
    <3>1. CASE wire' = wire
      BY <3>1, <2>5, <1>a, <1>0 DEF TaskExited
    <3>2. CASE wire' = Append(wire, Event("exited", t))
      BY <3>2, <2>5, <1>a, <1>0, Messages, WireAppended DEF TaskExited
    <3>3. QED
      BY <2>5, <3>1, <3>2 DEF TaskExited
  <2>6. ASSUME NEW t \in Task, Abort(t) PROVE AskOk(u)'
    BY <2>6, <1>0, <1>a DEF Abort, WireOk
  <2>7. ASSUME NEW t \in Task, StashExpires(t) PROVE AskOk(u)'
    BY <2>7, <1>f DEF StashExpires
  <2>8. ASSUME NEW a \in asks, AnswerList(a) PROVE AskOk(u)'
    <3>1. Answer(a, Ended) \in Message /\ Answer(a, Ended).answers = {a}
      BY Messages DEF WireOk, Ended
    <3>2. QED
      BY <2>8, <3>1, <1>g DEF AnswerList
  <2>9. ASSUME Receive PROVE AskOk(u)'
    <3>1. /\ wire # <<>> /\ wire' = Tail(wire)
          /\ \A b : /\ HeldIn(asks, wire', b) => HeldIn(asks, wire, b)
                    /\ b \in Head(wire).answers => HeldIn(asks, wire, b)
                    /\ OnceIn(asks, wire, b) => OnceIn(asks, wire', b)
                    /\ OnceIn(asks, wire, b) /\ b \in Head(wire).answers => ~HeldIn(asks, wire', b)
      <4>1. wire # <<>> /\ wire' = Tail(wire)
        BY <2>9, ReceivedAnswer
      <4>2. QED
        BY <4>1, <1>0, WireTaken
    <3>2. CASE UNCHANGED <<call, asks>>
      BY <3>1, <3>2, <1>0, <1>a
    <3>3. ASSUME NEW a \in Head(wire).answers, a.what = "start", Started(a.of)
          PROVE  AskOk(u)'
      <4>1. a \in Ask /\ a.of \in Task /\ a = About("start", a.of)
        BY <2>9, <3>1, <3>3, TailWireOk, AskKinds
      <4>2. CASE a.of = u
        <5>1. ~HeldIn(asks, wire', s) /\ ~HeldIn(asks, wire', w) /\ OnceIn(asks, wire', s)
              /\ OnceIn(asks, wire', w)
          BY <3>1, <3>3, <4>1, <4>2, <1>0
        <5>2. /\ asks' \subseteq asks \cup {w, About("recover", u)}
              /\ w \in asks' => call'[u] = "waiting"
          <6>1. s \notin asks /\ w \notin asks
            BY <5>1 DEF HeldIn
          <6>2. u \in Background \/ call'[u] = "waiting"
            BY <3>3, <4>2, <6>1 DEF Started, WireOk
          <6>3. u \in Background => asks' \subseteq asks \cup {About("recover", u)}
            BY <3>3, <4>2 DEF Started, Missed
          <6>4. u \notin Background => asks' = asks \cup {w}
            BY <3>3, <4>2 DEF Started
          <6>5. w # About("recover", u)
            BY Abouts
          <6>6. QED
            BY <6>1, <6>2, <6>3, <6>4, <6>5
        <5>3. About("recover", u) \notin {s, w}
          BY Abouts
        <5>4. QED
          BY <5>1, <5>2, <5>3, <1>0, <1>a DEF HeldIn, OnceIn
      <4>3. CASE a.of # u
        <5>1. call'[u] = call[u] /\ (s \in asks' => s \in asks) /\ (w \in asks' => w \in asks)
          BY <3>3, <4>1, <4>3, Abouts DEF Started, Missed, WireOk
        <5>2. QED
          BY <5>1, <3>1, <1>0, <1>a DEF HeldIn, OnceIn
      <4>4. QED
        BY <4>2, <4>3
    <3>4. ASSUME NEW a \in Head(wire).answers, a.what = "wait", NEW done \in BOOLEAN, Waited(a.of, done)
          PROVE  AskOk(u)'
      <4>1. a \in Ask /\ a.of \in Task /\ a = About("wait", a.of)
        BY <2>9, <3>1, <3>4, TailWireOk, AskKinds
      <4>2. (s \in asks' => s \in asks) /\ (w \in asks' => w \in asks)
        BY <3>4, <4>1, Abouts DEF Waited, Missed
      <4>3. CASE a.of = u
        <5>1. ~HeldIn(asks, wire', w) /\ ~HeldIn(asks, wire', s) /\ OnceIn(asks, wire', s)
              /\ OnceIn(asks, wire', w)
          BY <3>1, <3>4, <4>1, <4>3, <1>0
        <5>2. QED
          BY <5>1, <4>2, <1>a DEF HeldIn, OnceIn
      <4>4. CASE a.of # u
        <5>1. call'[u] = call[u]
          BY <3>4, <4>1, <4>4 DEF Waited, WireOk
        <5>2. QED
          BY <5>1, <4>2, <3>1, <1>0, <1>a DEF HeldIn, OnceIn
      <4>5. QED
        BY <4>3, <4>4
    <3>5. QED
      BY <2>9, <3>2, <3>3, <3>4, ReceivedAnswer
  <2>10. ASSUME FlushExits PROVE AskOk(u)'
    BY <2>10, <1>f DEF FlushExits
  <2>11. ASSUME Look PROVE AskOk(u)'
    <3>1. asks' \in {asks, asks \cup {[what |-> "look"]}} /\ wire' = wire /\ call' = call
      BY <2>11 DEF Look
    <3>2. [what |-> "look"] # s /\ [what |-> "look"] # w
      BY Abouts
    <3>3. QED
      BY <3>1, <3>2, <1>0, <1>a, <1>c
  <2>12. ASSUME DiskRead PROVE AskOk(u)'
    BY <2>12, <1>f DEF DiskRead
  <2>13. ASSUME Tick PROVE AskOk(u)'
    BY <2>13, <1>f DEF Tick
  <2>14. ASSUME TickSyncs PROVE AskOk(u)'
    <3>1. asks' \in {asks, asks \cup {[what |-> "tick"]}} /\ wire' = wire /\ call' = call
      BY <2>14 DEF TickSyncs
    <3>2. [what |-> "tick"] # s /\ [what |-> "tick"] # w
      BY Abouts
    <3>3. QED
      BY <3>1, <3>2, <1>0, <1>a, <1>c
  <2>15. ASSUME Drop PROVE AskOk(u)'
    BY <2>15, <1>h DEF Drop
  <2>16. ASSUME Crash PROVE AskOk(u)'
    BY <2>16, <1>h DEF Crash
  <2>17. ASSUME Reconnect PROVE AskOk(u)'
    <3>1. asks' = asks \cup {[what |-> "reconnect"]} /\ wire' = wire /\ call' = call
      BY <2>17 DEF Reconnect
    <3>2. [what |-> "reconnect"] # s /\ [what |-> "reconnect"] # w
      BY Abouts
    <3>3. QED
      BY <3>1, <3>2, <1>0, <1>a, <1>c
  <2>18. ASSUME GiveUp PROVE AskOk(u)'
    <3>1. wire' = <<>> /\ asks' = {}
      BY <2>18 DEF GiveUp, WireOk
    <3>2. QED
      BY <3>1, <1>a, EmptySeq DEF HeldIn, OnceIn
  <2>19. QED
    BY <1>1, <2>1, <2>2, <2>3, <2>4, <2>5, <2>6, <2>7, <2>8, <2>9, <2>10,
       <2>11, <2>12, <2>13, <2>14, <2>15, <2>16, <2>17, <2>18 DEF Next
<1>2. CASE UNCHANGED vars
  BY <1>2, <1>f
<1>3. QED
  BY <1>1, <1>2

(* Who is answered by the next message was waiting for it. *)
LEMMA HeadAsked ==
  ASSUME WireOk, AsksOk, Receive
  PROVE  \A a \in Head(wire).answers :
           a.what \in TaskAsk => a.of \in Task /\ (a.what = "start" => call[a.of] = "starting")
<1> SUFFICES ASSUME NEW a \in Head(wire).answers, a.what \in TaskAsk
             PROVE  a.of \in Task /\ (a.what = "start" => call[a.of] = "starting")
  OBVIOUS
<1>1. wire # <<>> /\ wire \in Seq(Message)
  BY DEF Receive, WireOk
<1>2. a.of \in Task /\ a = About(a.what, a.of)
  BY <1>1, TailWireOk, AskKinds
<1>3. HeldIn(asks, wire, a)
  BY <1>1, WireTaken
<1>4. QED
  BY <1>2, <1>3 DEF AsksOk, AskOk

-----------------------------------------------------------------------------
(* Notices *)

(* Where the promise of a wake stands, of each task. *)
NoticeOk(t) ==
  /\ settled[t] = IF t \in pending \cup sent THEN 1 ELSE 0
  /\ t \in pending \cup sent => call[t] = "background"
  /\ t \in notifyOnExit <=> call[t] = "background" /\ t \notin pending \cup sent

NoticeTypes == notifyOnExit \subseteq Task /\ gate \subseteq notifyOnExit /\
               settled \in [Task -> Nat]

NoticesOk ==
  NoticeTypes /\ \A t \in Task : NoticeOk(t)

(* Exits that are delivered among those that are awaited. *)
LEMMA Delivered ==
  ASSUME NEW ts, NEW marked \in SUBSET Task, NEW u, settled \in [Task -> Nat],
         DeliverExit(ts, marked)
  PROVE  /\ notifyOnExit' \subseteq Task /\ settled' \in [Task -> Nat]
         /\ notifyOnExit' = marked \ ts
         /\ u \in Task => settled'[u] = IF u \in ts /\ settled[u] < 2 THEN settled[u] + 1 ELSE settled[u]
         /\ u \in pending' <=> u \in pending \/ (u \in ts /\ settled[u] = 0)
BY DEF DeliverExit

LEMMA StepNoticeOk ==
  ASSUME WireOk, AsksOk, NoticesOk, [Next]_vars, NEW u
  PROVE  NoticeTypes' /\ (u \in Task => NoticeOk(u)')
<1> DEFINE Goal == NoticeTypes' /\ (u \in Task => NoticeOk(u)')
<1> SUFFICES Goal
  OBVIOUS
<1> USE DEF vars, bashVars, gateVars, wireVars, watchVars, Fault, NoticeTypes
<1>0. /\ notifyOnExit \subseteq Task /\ gate \subseteq notifyOnExit /\ settled \in [Task -> Nat]
      /\ (u \in Task => NoticeOk(u))
      /\ call \in [Task -> {"new", "starting", "waiting", "done", "background", "aborted", "local"}]
      /\ \A t \in Task : NoticeOk(t)
  BY DEF NoticesOk, WireOk
<1>a. ASSUME UNCHANGED <<notifyOnExit, gate, settled, pending, sent>>,
             call'[u] = call[u] \/ (call[u] # "background" /\ call'[u] # "background")
      PROVE  Goal
  BY <1>0, <1>a DEF NoticeOk
<1>b. ASSUME NEW t \in Task, call[t] # "background", call' = [call EXCEPT ![t] = "background"],
             MarkNotifyOnExit(t), sent' = sent
      PROVE  Goal
  <2>0. NoticeOk(t)
    BY <1>0
  <2>1. CASE t \in recent
    <3>1. DeliverExit({t}, notifyOnExit \cup {t}) /\ gate' = gate \ {t}
      BY <1>b, <2>1 DEF MarkNotifyOnExit
    <3>2. /\ notifyOnExit' \subseteq Task /\ settled' \in [Task -> Nat]
          /\ notifyOnExit' = (notifyOnExit \cup {t}) \ {t}
          /\ u \in Task => settled'[u] = IF u = t /\ settled[u] < 2 THEN settled[u] + 1 ELSE settled[u]
          /\ u \in pending' <=> u \in pending \/ (u = t /\ settled[u] = 0)
      BY <3>1, <1>0, Delivered
    <3>3. QED
      BY <1>b, <2>0, <3>1, <3>2, <1>0 DEF NoticeOk
  <2>2. CASE t \notin recent
    BY <1>b, <2>0, <2>2, <1>0 DEF NoticeOk, MarkNotifyOnExit, NoDelivery
  <2>3. QED
    BY <2>1, <2>2
<1>c. ASSUME NEW ts, DeliverExit(ts, notifyOnExit), gate' \subseteq gate \ ts, ts \subseteq notifyOnExit,
             UNCHANGED <<call, sent>>
      PROVE  Goal
  <2>1. /\ notifyOnExit' \subseteq Task /\ settled' \in [Task -> Nat]
        /\ notifyOnExit' = notifyOnExit \ ts
        /\ u \in Task => settled'[u] = IF u \in ts /\ settled[u] < 2 THEN settled[u] + 1 ELSE settled[u]
        /\ u \in pending' <=> u \in pending \/ (u \in ts /\ settled[u] = 0)
    BY <1>0, <1>c, Delivered
  <2>2. QED
    BY <1>0, <1>c, <2>1 DEF NoticeOk
<1>d. ASSUME NoDelivery(notifyOnExit), gate' \subseteq gate, UNCHANGED <<call, sent>>
      PROVE  Goal
  BY <1>0, <1>d DEF NoticeOk, NoDelivery
<1>s. ASSUME NEW ended, Settle(ended), UNCHANGED <<call, sent>> PROVE Goal
  BY <1>s, <1>0, <1>c DEF Settle, OnExit
<1>1. CASE Next
  <2>1. ASSUME NEW t \in Task, Bash(t) PROVE Goal
    BY <2>1, <1>0, <1>a DEF Bash
  <2>2. ASSUME NEW t \in Task, AnswerStart(t) PROVE Goal
    BY <2>2, <1>a DEF AnswerStart
  <2>3. ASSUME NEW t \in Task, AnswerWait(t) PROVE Goal
    BY <2>3, <1>a DEF AnswerWait
  <2>4. ASSUME NEW t \in Task, TaskEnds(t) PROVE Goal
    BY <2>4, <1>a DEF TaskEnds
  <2>5. ASSUME NEW t \in Task, TaskExited(t) PROVE Goal
    BY <2>5, <1>a DEF TaskExited
  <2>6. ASSUME NEW t \in Task, Abort(t) PROVE Goal
    BY <2>6, <1>0, <1>a DEF Abort
  <2>7. ASSUME NEW t \in Task, StashExpires(t) PROVE Goal
    BY <2>7, <1>a DEF StashExpires
  <2>8. ASSUME NEW a \in asks, AnswerList(a) PROVE Goal
    BY <2>8, <1>a DEF AnswerList
  <2>9. ASSUME Receive PROVE Goal
    <3>0. link' = link /\ sent' = sent
      BY <2>9 DEF Receive
    <3>1. CASE Head(wire).answers = {}
      <4>1. UNCHANGED call /\ ((UNCHANGED <<notifyOnExit, gate, settled, pending>>) \/ \E t : ExitEvent(t))
        BY <2>9, <3>1 DEF Receive
      <4>2. ASSUME NEW t, ExitEvent(t) PROVE Goal
        <5>1. CASE t \in gate
          BY <4>1, <4>2, <5>1, <3>0, <1>0, <1>c DEF ExitEvent, OnExit
        <5>2. CASE t \notin gate
          BY <4>1, <4>2, <5>2, <3>0, <1>d DEF ExitEvent, OnExit
        <5>3. QED
          BY <5>1, <5>2
      <4>3. QED
        BY <4>1, <4>2, <3>0, <1>a
    <3>2. ASSUME NEW a \in Head(wire).answers, a.what = "start", Started(a.of)
          PROVE  Goal
      <4>1. a.of \in Task /\ call[a.of] = "starting"
        BY <2>9, <3>2, HeadAsked DEF TaskAsk
      <4>2. CASE a.of \in Background
        BY <4>1, <4>2, <3>0, <3>2, <1>b DEF Started
      <4>3. CASE a.of \notin Background
        BY <4>1, <4>3, <3>0, <3>2, <1>0, <1>a DEF Started
      <4>4. QED
        BY <4>2, <4>3
    <3>3. ASSUME NEW a \in Head(wire).answers, a.what = "wait", NEW done \in BOOLEAN, Waited(a.of, done)
          PROVE  Goal
      <4>1. a.of \in Task
        BY <2>9, <3>3, HeadAsked DEF TaskAsk
      <4>2. CASE call[a.of] = "waiting" /\ ~done
        BY <4>1, <4>2, <3>0, <3>3, <1>b DEF Waited
      <4>3. CASE call[a.of] # "waiting" \/ done
        BY <4>1, <4>3, <3>0, <3>3, <1>0, <1>a DEF Waited
      <4>4. QED
        BY <4>2, <4>3
    <3>4. ASSUME NEW a \in Head(wire).answers, Recovered(a.of), call' = call PROVE Goal
      BY <3>0, <3>4, <1>a DEF Recovered
    <3>5. ASSUME NEW says, Settle(says), call' = call PROVE Goal
      BY <3>0, <3>5, <1>s
    <3>6. (Head(wire).says = "done") \in BOOLEAN
      BY Zenon
    <3>7. CASE Head(wire).answers # {}
      <4>1. PICK a \in Head(wire).answers :
              \/ a.what = "start" /\ Started(a.of)
              \/ a.what = "wait" /\ Waited(a.of, Head(wire).says = "done")
              \/ Recovered(a.of) /\ call' = call
              \/ Settle(Head(wire).says) /\ call' = call
        BY <2>9, <3>7 DEF Receive
      <4>2. QED
        BY <4>1, <3>2, <3>3, <3>4, <3>5, <3>6
    <3>8. QED
      BY <3>1, <3>7
  <2>10. ASSUME FlushExits PROVE Goal
    BY <2>10, <1>0 DEF FlushExits, NoticeOk
  <2>11. ASSUME Look PROVE Goal
    BY <2>11, <1>a DEF Look
  <2>12. ASSUME DiskRead PROVE Goal
    <3>1. PICK ended : Settle(ended)
      BY <2>12 DEF DiskRead
    <3>2. QED
      BY <2>12, <3>1, <1>s DEF DiskRead
  <2>13. ASSUME Tick PROVE Goal
    BY <2>13, <1>a DEF Tick
  <2>14. ASSUME TickSyncs PROVE Goal
    BY <2>14, <1>a DEF TickSyncs
  <2>15. ASSUME Drop PROVE Goal
    BY <2>15, <1>a DEF Drop
  <2>16. ASSUME Crash PROVE Goal
    BY <2>16, <1>a DEF Crash
  <2>17. ASSUME Reconnect PROVE Goal
    BY <2>17, <1>a DEF Reconnect
  <2>18. ASSUME GiveUp PROVE Goal
    <3>0. u \in Task => NoticeOk(u) /\ (call[u] = "waiting" => settled[u] = 0)
      BY <1>0 DEF NoticeOk
    <3>1. /\ u \in Task => call'[u] = IF call[u] = "starting" THEN "local"
                        ELSE IF call[u] = "waiting" THEN "background" ELSE call[u]
          /\ gate' = gate \cup (Lost \ recent) /\ notifyOnExit' = notifyOnExit \cup (Lost \ recent)
          /\ settled' = [t \in Task |-> IF t \in Lost \cap recent THEN settled[t] + 1 ELSE settled[t]]
          /\ pending' = pending \cup {t \in Lost \cap recent : settled[t] = 0}
          /\ sent' = sent
      BY <2>18 DEF GiveUp
    <3>2. u \in Lost <=> u \in Task /\ call[u] = "waiting"
      BY DEF Lost
    <3>3. settled' \in [Task -> Nat] /\ notifyOnExit' \subseteq Task /\ gate' \subseteq notifyOnExit'
      BY <3>1, <1>0 DEF Lost
    <3>4. u \in Task => NoticeOk(u)'
      BY <3>0, <3>1, <3>2, <1>0 DEF NoticeOk
    <3>5. QED
      BY <3>3, <3>4
  <2>19. QED
    BY <1>1, <2>1, <2>2, <2>3, <2>4, <2>5, <2>6, <2>7, <2>8, <2>9, <2>10,
       <2>11, <2>12, <2>13, <2>14, <2>15, <2>16, <2>17, <2>18 DEF Next
<1>2. CASE UNCHANGED vars
  BY <1>2, <1>a
<1>3. QED
  BY <1>1, <1>2

-----------------------------------------------------------------------------
(* What the model is told. *)

WakesInv == WireOk /\ AsksOk /\ NoticesOk

LEMMA WakesInvariant == Spec => []WakesInv
<1>1. Init => WakesInv
  <2> SUFFICES ASSUME Init PROVE WakesInv
    OBVIOUS
  <2>1. NoticesOk
    BY DEF Init, NoticesOk, NoticeTypes, NoticeOk
  <2>2. QED
    BY <2>1, InitAsksOk DEF WakesInv
<1>2. WakesInv /\ [Next]_vars => WakesInv'
  <2> SUFFICES ASSUME WakesInv, [Next]_vars PROVE WakesInv'
    OBVIOUS
  <2>0. WireOk /\ AsksOk /\ NoticesOk
    BY DEF WakesInv
  <2>1. WireOk'
    BY <2>0, StepWireOk
  <2>2. AsksOk'
    BY <2>0, StepAskOk DEF AsksOk
  <2>3. NoticesOk'
    BY <2>0, StepNoticeOk DEF NoticesOk
  <2>4. QED
    BY <2>1, <2>2, <2>3 DEF WakesInv
<1>3. QED
  BY <1>1, <1>2, PTL DEF Spec

(* The event, the stash of the gate, the sync after a reconnect, the       *)
(* watchdog's and a look may all find the same exit, in any order and with *)
(* any faults between: deliverExit runs at most once for it, and never for *)
(* a command whose end its bash call reported.                             *)
THEOREM ToldAlwaysOnce == Spec => []ToldOnce
<1>1. WakesInv => ToldOnce
  BY DEF WakesInv, NoticesOk, NoticeTypes, NoticeOk, ToldOnce
<1>2. QED
  BY <1>1, WakesInvariant, PTL

(* listStillRunning, with which every wake ends, names exactly the         *)
(* backgrounded commands whose exit is neither announced nor queued.       *)
THEOREM StillRunningAlwaysTrue == Spec => []StillRunningTrue
<1>1. WakesInv => StillRunningTrue
  BY DEF WakesInv, NoticesOk, NoticeTypes, NoticeOk, StillRunningTrue
<1>2. QED
  BY <1>1, WakesInvariant, PTL

-----------------------------------------------------------------------------
(* A shell command and its answer.  The constants and variables are those  *)
(* of ShellCommand; four of its names are taken by Wakes and renamed here, *)
(* and the two modules share faults and MaxFaults only in name.            *)

CONSTANTS Tools, Limits, Budget, Slice, Window, MaxSize, ShellOps

VARIABLES
  shellCall, pc, answer, aborted, backgrounded, task, runs,
  limitLeft, waitLeft, budget, ownLeft, stop, shellLink, daemon, read, local, look

S == INSTANCE ShellCommand
       WITH Ops <- ShellOps, call <- shellCall, link <- shellLink, marked <- backgrounded

(* The state, as far as the answers depend on it. *)

TaskTypes ==
  /\ task \in [cmd : {"none", "running", "ended"}, code : {"none", "zero", "other", "signal"},
               kill : {"none", "tool", "timeout"}, lost : BOOLEAN, known : BOOLEAN, size : Nat]
  /\ stop \in {"none", "sent", "lost"}

LocalState == [at : {"none", "running", "ended"}, heard : BOOLEAN,
               cut : SUBSET {"abort", "timeout"}, left : Int]

LocalTypes == local \in LocalState /\ aborted \in BOOLEAN

CallTypes ==
  /\ shellCall \in S!Call
  /\ pc \in S!Awaits \cup {"new", "local", "told"}
  /\ shellLink \in {"on", "off", "gone"}
  /\ read \in [from : Int, to : Int]
  /\ limitLeft \in Int /\ ownLeft \in Int

LEMMA Bounds ==
  S!ShellConstants =>
    /\ \A l \in Limits : l \in Nat /\ l > 0
    /\ Window \in Nat \ {0} /\ MaxSize \in Nat
BY DEF S!ShellConstants

LEMMA MaxOfTwo ==
  ASSUME NEW a \in Int, NEW b \in Int
  PROVE  S!Max({a, b}) \in Int /\ S!Max({a, b}) >= a /\ S!Max({a, b}) >= b
<1>1. \E x \in {a, b} : \A y \in {a, b} : x >= y
  OBVIOUS
<1>2. QED
  BY <1>1 DEF S!Max

LEMMA SpawnedLocal ==
  ASSUME S!ShellConstants, CallTypes, LocalTypes, S!RunLocal
  PROVE  local' \in LocalState
<1>1. CASE S!SpawnLocal
  <2>1. (~aborted) \in BOOLEAN
    BY Zenon
  <2>2. (IF S!Limited THEN shellCall.limit ELSE S!Off) \in Int
    <3>1. CASE S!Limited
      BY <3>1, Bounds DEF S!Limited
    <3>2. CASE ~S!Limited
      BY <3>2 DEF S!Off
    <3>3. QED
      BY <3>1, <3>2
  <2>3. QED
    BY <1>1, <2>1, <2>2 DEF S!SpawnLocal, LocalState
<1>2. QED
  BY <1>1 DEF S!RunLocal, LocalTypes

LEMMA BeginsAt ==
  ASSUME S!ShellConstants, TaskTypes
  PROVE  S!Max({0, task.size - Window}) \in Int
<1>1. 0 \in Int /\ task.size - Window \in Int
  BY Bounds DEF TaskTypes
<1>2. QED
  BY <1>1, MaxOfTwo

(* The page that does not go on reaches total_size. *)
LEMMA LastPage ==
  ASSUME NEW a \in Int, NEW size \in Nat,
         NEW n \in (IF a = size THEN {a} ELSE (a + 1)..size), ~(n > a /\ n < size)
  PROVE  n = size
OBVIOUS

LEMMA StepTaskTypes ==
  S!ShellConstants /\ TaskTypes /\ [S!Next]_(S!vars)
  => TaskTypes'
<1> SUFFICES ASSUME S!ShellConstants, TaskTypes, [S!Next]_(S!vars)
             PROVE TaskTypes'
  OBVIOUS
<1> USE Bounds
<1> USE DEF S!vars, S!netVars, S!timers, S!callVars, S!Fault, TaskTypes
<1>1. CASE S!Next
  <2>1. ASSUME S!Execute PROVE TaskTypes'
    BY <2>1 DEF S!Execute, S!Tell
  <2>2. ASSUME S!Ensured PROVE TaskTypes'
    BY <2>2 DEF S!Ensured, S!Tell
  <2>3. ASSUME S!Unavailable PROVE TaskTypes'
    BY <2>3 DEF S!Unavailable, S!RunLocal, S!SpawnLocal, S!Tell
  <2>4. ASSUME S!Spawn PROVE TaskTypes'
    BY <2>4 DEF S!Spawn
  <2>5. ASSUME S!ParentStarted PROVE TaskTypes'
    BY <2>5 DEF S!ParentStarted, S!Leave, S!BeginWait, S!Arm, S!Aborts, S!Tell
  <2>6. ASSUME S!ChildStarted PROVE TaskTypes'
    BY <2>6 DEF S!ChildStarted, S!ChildStartedAt, S!BeginWait, S!Arm, S!Aborts, S!Tell
  <2>7. ASSUME S!HandleWait PROVE TaskTypes'
    BY <2>7 DEF S!HandleWait
  <2>8. ASSUME S!WaitDone PROVE TaskTypes'
    BY <2>8 DEF S!WaitDone
  <2>9. ASSUME S!MoveToBackground PROVE TaskTypes'
    BY <2>9 DEF S!MoveToBackground, S!Expired, S!Leave, S!Tell
  <2>10. ASSUME S!WaitAgain PROVE TaskTypes'
    BY <2>10 DEF S!WaitAgain, S!Expired, S!Arm
  <2>11. ASSUME S!StopAtDeadline PROVE TaskTypes'
    BY <2>11 DEF S!StopAtDeadline, S!Killed, S!Tell
  <2>12. ASSUME S!Collect PROVE TaskTypes'
    BY <2>12 DEF S!Collect, S!Finished, S!Completed, S!Tell
  <2>13. ASSUME S!KilledStatus PROVE TaskTypes'
    BY <2>13 DEF S!KilledStatus, S!Tell
  <2>14. ASSUME S!LinkGone PROVE TaskTypes'
    BY <2>14 DEF S!LinkGone, S!Rejected, S!ParentRejected, S!ChildRejected, S!RunLocal,
       S!SpawnLocal, S!Leave, S!Tell
  <2>15. ASSUME S!LocalTimeout PROVE TaskTypes'
    BY <2>15 DEF S!LocalTimeout
  <2>16. ASSUME S!LimitReached PROVE TaskTypes'
    BY <2>16 DEF S!LimitReached, S!Killed
  <2>17. ASSUME S!StopHandled PROVE TaskTypes'
    BY <2>17 DEF S!StopHandled, S!Killed
  <2>18. ASSUME S!Dies PROVE TaskTypes'
    BY <2>18 DEF S!Dies, S!Ended
  <2>19. ASSUME S!Reconnect PROVE TaskTypes'
    BY <2>19 DEF S!Reconnect
  <2>20. ASSUME S!GiveUp PROVE TaskTypes'
    BY <2>20 DEF S!GiveUp, S!Discarded
  <2>21. ASSUME S!Tick PROVE TaskTypes'
    BY <2>21 DEF S!Tick, S!Less, S!Due
  <2>22. ASSUME S!RequestTimesOut PROVE TaskTypes'
    BY <2>22 DEF S!RequestTimesOut, S!Rejected, S!ParentRejected, S!ChildRejected,
       S!RunLocal, S!SpawnLocal, S!Leave, S!Tell
  <2>23. ASSUME S!Abort PROVE TaskTypes'
    BY <2>23 DEF S!Abort, S!Aborts, S!Tell
  <2>24. ASSUME S!LocalEnds PROVE TaskTypes'
    BY <2>24 DEF S!LocalEnds, S!LocalAnswer, S!Tell
  <2>25. ASSUME S!EndsItself PROVE TaskTypes'
    BY <2>25 DEF S!EndsItself, S!Ended
  <2>26. ASSUME S!Writes PROVE TaskTypes'
    BY <2>26 DEF S!Writes
  <2>27. ASSUME S!TaskOutput PROVE TaskTypes'
    BY <2>27 DEF S!TaskOutput, S!CanLook
  <2>28. ASSUME S!TaskStop PROVE TaskTypes'
    BY <2>28 DEF S!TaskStop, S!Killed
  <2>29. ASSUME S!Drop PROVE TaskTypes'
    BY <2>29 DEF S!Drop
  <2>30. ASSUME S!Crash PROVE TaskTypes'
    BY <2>30 DEF S!Crash
  <2>31. ASSUME S!SessionEnds PROVE TaskTypes'
    BY <2>31 DEF S!SessionEnds, S!Killed, S!Discarded
  <2>32. ASSUME S!StopLost PROVE TaskTypes'
    BY <2>32 DEF S!StopLost
  <2>33. QED
    BY <1>1, <2>1, <2>2, <2>3, <2>4, <2>5, <2>6, <2>7, <2>8, <2>9, <2>10,
       <2>11, <2>12, <2>13, <2>14, <2>15, <2>16, <2>17, <2>18, <2>19, <2>20,
       <2>21, <2>22, <2>23, <2>24, <2>25, <2>26, <2>27, <2>28, <2>29, <2>30,
       <2>31, <2>32 DEF S!Next, S!Answering, S!Manager
<1>2. CASE UNCHANGED S!vars
  BY <1>2
<1>3. QED
  BY <1>1, <1>2

LEMMA StepLocalTypes ==
  S!ShellConstants /\ TaskTypes /\ CallTypes /\ LocalTypes /\ [S!Next]_(S!vars)
  => LocalTypes'
<1> SUFFICES ASSUME S!ShellConstants, TaskTypes, CallTypes, LocalTypes, [S!Next]_(S!vars)
             PROVE LocalTypes'
  OBVIOUS
<1> USE Bounds
<1> USE DEF S!vars, S!netVars, S!timers, S!callVars, S!Fault, LocalTypes, LocalState,
        CallTypes, S!Call, S!Limited, S!Off
<1>1. CASE S!Next
  <2>1. ASSUME S!Execute PROVE LocalTypes'
    BY <2>1 DEF S!Execute, S!Tell
  <2>2. ASSUME S!Ensured PROVE LocalTypes'
    BY <2>2 DEF S!Ensured, S!Tell
  <2>3. ASSUME S!Unavailable PROVE LocalTypes'
    <3>1. S!RunLocal => local' \in LocalState
      BY SpawnedLocal
    <3>2. QED
      BY <2>3, <3>1 DEF S!Unavailable, S!Rejected, S!ParentRejected, S!ChildRejected,
         S!Leave, S!Tell
  <2>4. ASSUME S!Spawn PROVE LocalTypes'
    BY <2>4 DEF S!Spawn
  <2>5. ASSUME S!ParentStarted PROVE LocalTypes'
    BY <2>5 DEF S!ParentStarted, S!Leave, S!BeginWait, S!Arm, S!Aborts, S!Tell
  <2>6. ASSUME S!ChildStarted PROVE LocalTypes'
    BY <2>6 DEF S!ChildStarted, S!ChildStartedAt, S!BeginWait, S!Arm, S!Aborts, S!Tell
  <2>7. ASSUME S!HandleWait PROVE LocalTypes'
    BY <2>7 DEF S!HandleWait
  <2>8. ASSUME S!WaitDone PROVE LocalTypes'
    BY <2>8 DEF S!WaitDone
  <2>9. ASSUME S!MoveToBackground PROVE LocalTypes'
    BY <2>9 DEF S!MoveToBackground, S!Expired, S!Leave, S!Tell
  <2>10. ASSUME S!WaitAgain PROVE LocalTypes'
    BY <2>10 DEF S!WaitAgain, S!Expired, S!Arm
  <2>11. ASSUME S!StopAtDeadline PROVE LocalTypes'
    BY <2>11 DEF S!StopAtDeadline, S!Killed, S!Tell
  <2>12. ASSUME S!Collect PROVE LocalTypes'
    BY <2>12 DEF S!Collect, S!Finished, S!Completed, S!Tell
  <2>13. ASSUME S!KilledStatus PROVE LocalTypes'
    BY <2>13 DEF S!KilledStatus, S!Tell
  <2>14. ASSUME S!LinkGone PROVE LocalTypes'
    <3>1. S!RunLocal => local' \in LocalState
      BY SpawnedLocal
    <3>2. QED
      BY <2>14, <3>1 DEF S!LinkGone, S!Rejected, S!ParentRejected, S!ChildRejected,
         S!Leave, S!Tell
  <2>15. ASSUME S!LocalTimeout PROVE LocalTypes'
    <3>1. local.cut \cup {"timeout"} \in SUBSET {"abort", "timeout"} /\ S!Off \in Int
      OBVIOUS
    <3>2. local' = [local EXCEPT !.left = S!Off, !.cut = @ \cup {"timeout"}] /\ aborted' = aborted
      BY <2>15 DEF S!LocalTimeout
    <3>3. QED
      BY <3>1, <3>2
  <2>16. ASSUME S!LimitReached PROVE LocalTypes'
    BY <2>16 DEF S!LimitReached, S!Killed
  <2>17. ASSUME S!StopHandled PROVE LocalTypes'
    BY <2>17 DEF S!StopHandled, S!Killed
  <2>18. ASSUME S!Dies PROVE LocalTypes'
    BY <2>18 DEF S!Dies, S!Ended
  <2>19. ASSUME S!Reconnect PROVE LocalTypes'
    BY <2>19 DEF S!Reconnect
  <2>20. ASSUME S!GiveUp PROVE LocalTypes'
    BY <2>20 DEF S!GiveUp, S!Discarded
  <2>21. ASSUME S!Tick PROVE LocalTypes'
    BY <2>21 DEF S!Tick, S!Less, S!Due
  <2>22. ASSUME S!RequestTimesOut PROVE LocalTypes'
    <3>1. S!RunLocal => local' \in LocalState
      BY SpawnedLocal
    <3>2. QED
      BY <2>22, <3>1 DEF S!RequestTimesOut, S!Rejected, S!ParentRejected,
         S!ChildRejected, S!Leave, S!Tell
  <2>23. ASSUME S!Abort PROVE LocalTypes'
    BY <2>23 DEF S!Abort, S!Aborts, S!Tell
  <2>24. ASSUME S!LocalEnds PROVE LocalTypes'
    <3>1. local' = [local EXCEPT !.at = "ended", !.left = S!Off] /\ aborted' = aborted
      BY <2>24 DEF S!LocalEnds
    <3>2. S!Off \in Int /\ "ended" \in {"none", "running", "ended"}
      OBVIOUS
    <3>3. QED
      BY <3>1, <3>2
  <2>25. ASSUME S!EndsItself PROVE LocalTypes'
    BY <2>25 DEF S!EndsItself, S!Ended
  <2>26. ASSUME S!Writes PROVE LocalTypes'
    BY <2>26 DEF S!Writes
  <2>27. ASSUME S!TaskOutput PROVE LocalTypes'
    BY <2>27 DEF S!TaskOutput, S!CanLook
  <2>28. ASSUME S!TaskStop PROVE LocalTypes'
    BY <2>28 DEF S!TaskStop, S!Killed
  <2>29. ASSUME S!Drop PROVE LocalTypes'
    BY <2>29 DEF S!Drop
  <2>30. ASSUME S!Crash PROVE LocalTypes'
    BY <2>30 DEF S!Crash
  <2>31. ASSUME S!SessionEnds PROVE LocalTypes'
    BY <2>31 DEF S!SessionEnds, S!Killed, S!Discarded
  <2>32. ASSUME S!StopLost PROVE LocalTypes'
    BY <2>32 DEF S!StopLost
  <2>33. QED
    BY <1>1, <2>1, <2>2, <2>3, <2>4, <2>5, <2>6, <2>7, <2>8, <2>9, <2>10,
       <2>11, <2>12, <2>13, <2>14, <2>15, <2>16, <2>17, <2>18, <2>19, <2>20,
       <2>21, <2>22, <2>23, <2>24, <2>25, <2>26, <2>27, <2>28, <2>29, <2>30,
       <2>31, <2>32 DEF S!Next, S!Answering, S!Manager
<1>2. CASE UNCHANGED S!vars
  BY <1>2
<1>3. QED
  BY <1>1, <1>2

LEMMA StepCallTypes ==
  S!ShellConstants /\ TaskTypes /\ CallTypes /\ LocalTypes /\ [S!Next]_(S!vars)
  => CallTypes'
<1> SUFFICES ASSUME S!ShellConstants, TaskTypes, CallTypes, LocalTypes, [S!Next]_(S!vars)
             PROVE CallTypes'
  OBVIOUS
<1> USE Bounds
<1> USE DEF S!vars, S!netVars, S!timers, S!callVars, S!Fault, TaskTypes, CallTypes,
        LocalTypes, LocalState, S!Call, S!Awaits, S!Off, S!Limited
<1>1. CASE S!Next
  <2>1. ASSUME S!Execute PROVE CallTypes'
    BY <2>1 DEF S!Execute, S!Tell
  <2>2. ASSUME S!Ensured PROVE CallTypes'
    BY <2>2 DEF S!Ensured, S!Tell
  <2>3. ASSUME S!Unavailable PROVE CallTypes'
    BY <2>3 DEF S!Unavailable, S!RunLocal, S!SpawnLocal, S!Tell
  <2>4. ASSUME S!Spawn PROVE CallTypes'
    BY <2>4 DEF S!Spawn
  <2>5. ASSUME S!ParentStarted PROVE CallTypes'
    BY <2>5 DEF S!ParentStarted, S!Leave, S!BeginWait, S!Arm, S!Aborts, S!Tell
  <2>6. ASSUME S!ChildStarted PROVE CallTypes'
    BY <2>6 DEF S!ChildStarted, S!ChildStartedAt, S!BeginWait, S!Arm, S!Aborts, S!Tell
  <2>7. ASSUME S!HandleWait PROVE CallTypes'
    BY <2>7 DEF S!HandleWait
  <2>8. ASSUME S!WaitDone PROVE CallTypes'
    BY <2>8 DEF S!WaitDone
  <2>9. ASSUME S!MoveToBackground PROVE CallTypes'
    BY <2>9 DEF S!MoveToBackground, S!Expired, S!Leave, S!Tell
  <2>10. ASSUME S!WaitAgain PROVE CallTypes'
    BY <2>10 DEF S!WaitAgain, S!Expired, S!Arm
  <2>11. ASSUME S!StopAtDeadline PROVE CallTypes'
    BY <2>11 DEF S!StopAtDeadline, S!Killed, S!Tell
  <2>12. ASSUME S!Collect PROVE CallTypes'
    <3>1. CASE /\ read.to = S!Off
               /\ read' = [from |-> S!Max({0, task.size - Window}),
                            to |-> S!Max({0, task.size - Window})]
               /\ UNCHANGED <<pc, answer>>
      BY <2>12, <3>1, BeginsAt DEF S!Collect
    <3>2. ASSUME read.to # S!Off,
                 NEW next \in (IF read.to = task.size THEN {read.to}
                                ELSE (read.to + 1)..task.size),
                 read' = [read EXCEPT !.to = next],
                 IF next > read.to /\ next < task.size THEN UNCHANGED <<pc, answer>>
                 ELSE S!Finished
          PROVE  CallTypes'
      BY <2>12, <3>2 DEF S!Collect, S!Finished, S!Completed, S!Tell
    <3>3. QED
      BY <2>12, <3>1, <3>2 DEF S!Collect
  <2>13. ASSUME S!KilledStatus PROVE CallTypes'
    BY <2>13 DEF S!KilledStatus, S!Tell
  <2>14. ASSUME S!LinkGone PROVE CallTypes'
    BY <2>14 DEF S!LinkGone, S!Rejected, S!ParentRejected, S!ChildRejected, S!RunLocal,
       S!SpawnLocal, S!Leave, S!Tell
  <2>15. ASSUME S!LocalTimeout PROVE CallTypes'
    BY <2>15 DEF S!LocalTimeout
  <2>16. ASSUME S!LimitReached PROVE CallTypes'
    BY <2>16 DEF S!LimitReached, S!Killed
  <2>17. ASSUME S!StopHandled PROVE CallTypes'
    BY <2>17 DEF S!StopHandled, S!Killed
  <2>18. ASSUME S!Dies PROVE CallTypes'
    BY <2>18 DEF S!Dies, S!Ended
  <2>19. ASSUME S!Reconnect PROVE CallTypes'
    BY <2>19 DEF S!Reconnect
  <2>20. ASSUME S!GiveUp PROVE CallTypes'
    BY <2>20 DEF S!GiveUp, S!Discarded
  <2>21. ASSUME S!Tick PROVE CallTypes'
    BY <2>21 DEF S!Tick, S!Less, S!Due
  <2>22. ASSUME S!RequestTimesOut PROVE CallTypes'
    BY <2>22 DEF S!RequestTimesOut, S!Rejected, S!ParentRejected, S!ChildRejected,
       S!RunLocal, S!SpawnLocal, S!Leave, S!Tell
  <2>23. ASSUME S!Abort PROVE CallTypes'
    BY <2>23 DEF S!Abort, S!Aborts, S!Tell
  <2>24. ASSUME S!LocalEnds PROVE CallTypes'
    BY <2>24 DEF S!LocalEnds, S!LocalAnswer, S!Tell
  <2>25. ASSUME S!EndsItself PROVE CallTypes'
    BY <2>25 DEF S!EndsItself, S!Ended
  <2>26. ASSUME S!Writes PROVE CallTypes'
    BY <2>26 DEF S!Writes
  <2>27. ASSUME S!TaskOutput PROVE CallTypes'
    BY <2>27 DEF S!TaskOutput, S!CanLook
  <2>28. ASSUME S!TaskStop PROVE CallTypes'
    BY <2>28 DEF S!TaskStop, S!Killed
  <2>29. ASSUME S!Drop PROVE CallTypes'
    BY <2>29 DEF S!Drop
  <2>30. ASSUME S!Crash PROVE CallTypes'
    BY <2>30 DEF S!Crash
  <2>31. ASSUME S!SessionEnds PROVE CallTypes'
    BY <2>31 DEF S!SessionEnds, S!Killed, S!Discarded
  <2>32. ASSUME S!StopLost PROVE CallTypes'
    BY <2>32 DEF S!StopLost
  <2>33. QED
    BY <1>1, <2>1, <2>2, <2>3, <2>4, <2>5, <2>6, <2>7, <2>8, <2>9, <2>10,
       <2>11, <2>12, <2>13, <2>14, <2>15, <2>16, <2>17, <2>18, <2>19, <2>20,
       <2>21, <2>22, <2>23, <2>24, <2>25, <2>26, <2>27, <2>28, <2>29, <2>30,
       <2>31, <2>32 DEF S!Next, S!Answering, S!Manager
<1>2. CASE UNCHANGED S!vars
  BY <1>2
<1>3. QED
  BY <1>1, <1>2

(* The manager's limit comes no later than the deadline a subagent's bash  *)
(* keeps for itself, as long as the call waits; once it has come the task  *)
(* is being killed, for it or for somebody who stopped it before.          *)
LimitOk ==
  /\ task.cmd # "running" => limitLeft = S!Off
  /\ pc \in {"starting", "waiting"} /\ task.cmd = "running" /\ S!Limited =>
       /\ limitLeft = S!Off => task.kill # "none"
       /\ limitLeft # S!Off => 0 <= limitLeft /\ limitLeft <= shellCall.limit
       /\ limitLeft # S!Off /\ pc = "waiting" /\ ~S!Parent => limitLeft <= ownLeft

(* What the awaits rest on: nothing runs locally, the deadline is met only *)
(* when the limit has been, and collectOutput reads what is final.         *)
AwaitsOk ==
  /\ pc \in S!Awaits \cup {"new"} => local.at = "none"
  /\ pc \in {"new", "ensuring"} => task.cmd = "none"
  /\ answer # "none" => pc = "told"
  /\ stop # "none" => pc = "told"
  /\ ~S!Limited => ownLeft = S!Off
  /\ pc \in {"new", "ensuring", "starting", "waiting"} => read.to = S!Off
  /\ pc = "stopping" => ~S!Parent /\ limitLeft = S!Off /\ task.kill # "none"
  /\ pc \in {"collecting", "asking"} =>
       /\ task.cmd = "ended"
       /\ read.to # S!Off => read.from <= S!Max({0, task.size - Window})
       /\ pc = "asking" => S!WholeTail

LEMMA StepLimitOk ==
  S!ShellConstants /\ TaskTypes /\ CallTypes /\ LocalTypes /\ LimitOk /\ AwaitsOk /\ [S!Next]_(S!vars)
  => LimitOk'
<1> SUFFICES ASSUME S!ShellConstants, TaskTypes, CallTypes, LocalTypes, LimitOk,
                    AwaitsOk, [S!Next]_(S!vars)
             PROVE LimitOk'
  OBVIOUS
<1> USE Bounds
<1> USE DEF S!vars, S!netVars, S!timers, S!callVars, S!Fault, TaskTypes, CallTypes,
        LocalTypes, LocalState, S!Call, S!Awaits, S!Off, S!Limited, S!Parent, S!Reached,
        LimitOk, AwaitsOk
<1>1. CASE S!Next
  <2>1. ASSUME S!Execute PROVE LimitOk'
    BY <2>1 DEF S!Execute, S!Tell
  <2>2. ASSUME S!Ensured PROVE LimitOk'
    BY <2>2 DEF S!Ensured, S!Tell
  <2>3. ASSUME S!Unavailable PROVE LimitOk'
    BY <2>3 DEF S!Unavailable, S!RunLocal, S!SpawnLocal, S!Tell
  <2>4. ASSUME S!Spawn PROVE LimitOk'
    BY <2>4 DEF S!Spawn
  <2>5. ASSUME S!ParentStarted PROVE LimitOk'
    BY <2>5 DEF S!ParentStarted, S!Leave, S!BeginWait, S!Arm, S!Aborts, S!Tell
  <2>6. ASSUME S!ChildStarted PROVE LimitOk'
    BY <2>6 DEF S!ChildStarted, S!ChildStartedAt, S!BeginWait, S!Arm, S!Aborts, S!Tell
  <2>7. ASSUME S!HandleWait PROVE LimitOk'
    BY <2>7 DEF S!HandleWait
  <2>8. ASSUME S!WaitDone PROVE LimitOk'
    BY <2>8 DEF S!WaitDone
  <2>9. ASSUME S!MoveToBackground PROVE LimitOk'
    BY <2>9 DEF S!MoveToBackground, S!Expired, S!Leave, S!Tell
  <2>10. ASSUME S!WaitAgain PROVE LimitOk'
    BY <2>10 DEF S!WaitAgain, S!Expired, S!Arm
  <2>11. ASSUME S!StopAtDeadline PROVE LimitOk'
    BY <2>11 DEF S!StopAtDeadline, S!Killed, S!Tell
  <2>12. ASSUME S!Collect PROVE LimitOk'
    BY <2>12 DEF S!Collect, S!Finished, S!Completed, S!Tell
  <2>13. ASSUME S!KilledStatus PROVE LimitOk'
    BY <2>13 DEF S!KilledStatus, S!Tell
  <2>14. ASSUME S!LinkGone PROVE LimitOk'
    BY <2>14 DEF S!LinkGone, S!Rejected, S!ParentRejected, S!ChildRejected, S!RunLocal,
       S!SpawnLocal, S!Leave, S!Tell
  <2>15. ASSUME S!LocalTimeout PROVE LimitOk'
    BY <2>15 DEF S!LocalTimeout
  <2>16. ASSUME S!LimitReached PROVE LimitOk'
    BY <2>16 DEF S!LimitReached, S!Killed
  <2>17. ASSUME S!StopHandled PROVE LimitOk'
    BY <2>17 DEF S!StopHandled, S!Killed
  <2>18. ASSUME S!Dies PROVE LimitOk'
    BY <2>18 DEF S!Dies, S!Ended
  <2>19. ASSUME S!Reconnect PROVE LimitOk'
    BY <2>19 DEF S!Reconnect
  <2>20. ASSUME S!GiveUp PROVE LimitOk'
    BY <2>20 DEF S!GiveUp, S!Discarded
  <2>21. ASSUME S!Tick PROVE LimitOk'
    BY <2>21 DEF S!Tick, S!Less, S!Due
  <2>22. ASSUME S!RequestTimesOut PROVE LimitOk'
    BY <2>22 DEF S!RequestTimesOut, S!Rejected, S!ParentRejected, S!ChildRejected,
       S!RunLocal, S!SpawnLocal, S!Leave, S!Tell
  <2>23. ASSUME S!Abort PROVE LimitOk'
    BY <2>23 DEF S!Abort, S!Aborts, S!Tell
  <2>24. ASSUME S!LocalEnds PROVE LimitOk'
    BY <2>24 DEF S!LocalEnds, S!LocalAnswer, S!Tell
  <2>25. ASSUME S!EndsItself PROVE LimitOk'
    BY <2>25 DEF S!EndsItself, S!Ended
  <2>26. ASSUME S!Writes PROVE LimitOk'
    BY <2>26 DEF S!Writes
  <2>27. ASSUME S!TaskOutput PROVE LimitOk'
    BY <2>27 DEF S!TaskOutput, S!CanLook
  <2>28. ASSUME S!TaskStop PROVE LimitOk'
    BY <2>28 DEF S!TaskStop, S!Killed
  <2>29. ASSUME S!Drop PROVE LimitOk'
    BY <2>29 DEF S!Drop
  <2>30. ASSUME S!Crash PROVE LimitOk'
    BY <2>30 DEF S!Crash
  <2>31. ASSUME S!SessionEnds PROVE LimitOk'
    BY <2>31 DEF S!SessionEnds, S!Killed, S!Discarded
  <2>32. ASSUME S!StopLost PROVE LimitOk'
    BY <2>32 DEF S!StopLost
  <2>33. QED
    BY <1>1, <2>1, <2>2, <2>3, <2>4, <2>5, <2>6, <2>7, <2>8, <2>9, <2>10,
       <2>11, <2>12, <2>13, <2>14, <2>15, <2>16, <2>17, <2>18, <2>19, <2>20,
       <2>21, <2>22, <2>23, <2>24, <2>25, <2>26, <2>27, <2>28, <2>29, <2>30,
       <2>31, <2>32 DEF S!Next, S!Answering, S!Manager
<1>2. CASE UNCHANGED S!vars
  BY <1>2
<1>3. QED
  BY <1>1, <1>2

LEMMA StepAwaitsOk ==
  S!ShellConstants /\ TaskTypes /\ CallTypes /\ LocalTypes /\ LimitOk /\ AwaitsOk /\ [S!Next]_(S!vars)
  => AwaitsOk'
<1> SUFFICES ASSUME S!ShellConstants, TaskTypes, CallTypes, LocalTypes, LimitOk,
                    AwaitsOk, [S!Next]_(S!vars)
             PROVE AwaitsOk'
  OBVIOUS
<1> USE Bounds
<1> USE DEF S!vars, S!netVars, S!timers, S!callVars, S!Fault, TaskTypes, CallTypes,
        LocalTypes, LocalState, S!Call, S!Awaits, S!Off, S!NoLimit, S!BadLimit, S!Limited,
        S!Parent, S!Reached, LimitOk, AwaitsOk, S!WholeTail
<1>1. CASE S!Next
  <2>1. ASSUME S!Execute PROVE AwaitsOk'
    BY <2>1 DEF S!Execute, S!Tell
  <2>2. ASSUME S!Ensured PROVE AwaitsOk'
    BY <2>2 DEF S!Ensured, S!Tell
  <2>3. ASSUME S!Unavailable PROVE AwaitsOk'
    BY <2>3 DEF S!Unavailable, S!RunLocal, S!SpawnLocal, S!Tell
  <2>4. ASSUME S!Spawn PROVE AwaitsOk'
    BY <2>4 DEF S!Spawn
  <2>5. ASSUME S!ParentStarted PROVE AwaitsOk'
    BY <2>5 DEF S!ParentStarted, S!Leave, S!BeginWait, S!Arm, S!Aborts, S!Tell
  <2>6. ASSUME S!ChildStarted PROVE AwaitsOk'
    BY <2>6 DEF S!ChildStarted, S!ChildStartedAt, S!BeginWait, S!Arm, S!Aborts, S!Tell
  <2>7. ASSUME S!HandleWait PROVE AwaitsOk'
    BY <2>7 DEF S!HandleWait
  <2>8. ASSUME S!WaitDone PROVE AwaitsOk'
    BY <2>8 DEF S!WaitDone
  <2>9. ASSUME S!MoveToBackground PROVE AwaitsOk'
    BY <2>9 DEF S!MoveToBackground, S!Expired, S!Leave, S!Tell
  <2>10. ASSUME S!WaitAgain PROVE AwaitsOk'
    BY <2>10 DEF S!WaitAgain, S!Expired, S!Arm
  <2>11. ASSUME S!StopAtDeadline PROVE AwaitsOk'
    BY <2>11 DEF S!StopAtDeadline, S!Killed, S!Tell
  <2>12. ASSUME S!Collect PROVE AwaitsOk'
    <3>1. CASE /\ read.to = S!Off
               /\ read' = [from |-> S!Max({0, task.size - Window}),
                            to |-> S!Max({0, task.size - Window})]
               /\ UNCHANGED <<pc, answer>>
      BY <2>12, <3>1, BeginsAt DEF S!Collect
    <3>2. ASSUME read.to # S!Off,
                 NEW next \in (IF read.to = task.size THEN {read.to}
                                ELSE (read.to + 1)..task.size),
                 read' = [read EXCEPT !.to = next],
                 IF next > read.to /\ next < task.size THEN UNCHANGED <<pc, answer>>
                 ELSE S!Finished
          PROVE  AwaitsOk'
      BY <2>12, <3>2 DEF S!Collect, S!Finished, S!Completed, S!Tell
    <3>3. QED
      BY <2>12, <3>1, <3>2 DEF S!Collect
  <2>13. ASSUME S!KilledStatus PROVE AwaitsOk'
    BY <2>13 DEF S!KilledStatus, S!Tell
  <2>14. ASSUME S!LinkGone PROVE AwaitsOk'
    BY <2>14 DEF S!LinkGone, S!Rejected, S!ParentRejected, S!ChildRejected, S!RunLocal,
       S!SpawnLocal, S!Leave, S!Tell
  <2>15. ASSUME S!LocalTimeout PROVE AwaitsOk'
    BY <2>15 DEF S!LocalTimeout
  <2>16. ASSUME S!LimitReached PROVE AwaitsOk'
    BY <2>16 DEF S!LimitReached, S!Killed
  <2>17. ASSUME S!StopHandled PROVE AwaitsOk'
    BY <2>17 DEF S!StopHandled, S!Killed
  <2>18. ASSUME S!Dies PROVE AwaitsOk'
    BY <2>18 DEF S!Dies, S!Ended
  <2>19. ASSUME S!Reconnect PROVE AwaitsOk'
    BY <2>19 DEF S!Reconnect
  <2>20. ASSUME S!GiveUp PROVE AwaitsOk'
    BY <2>20 DEF S!GiveUp, S!Discarded
  <2>21. ASSUME S!Tick PROVE AwaitsOk'
    BY <2>21 DEF S!Tick, S!Less, S!Due
  <2>22. ASSUME S!RequestTimesOut PROVE AwaitsOk'
    BY <2>22 DEF S!RequestTimesOut, S!Rejected, S!ParentRejected, S!ChildRejected,
       S!RunLocal, S!SpawnLocal, S!Leave, S!Tell
  <2>23. ASSUME S!Abort PROVE AwaitsOk'
    BY <2>23 DEF S!Abort, S!Aborts, S!Tell
  <2>24. ASSUME S!LocalEnds PROVE AwaitsOk'
    BY <2>24 DEF S!LocalEnds, S!LocalAnswer, S!Tell
  <2>25. ASSUME S!EndsItself PROVE AwaitsOk'
    BY <2>25 DEF S!EndsItself, S!Ended
  <2>26. ASSUME S!Writes PROVE AwaitsOk'
    BY <2>26 DEF S!Writes
  <2>27. ASSUME S!TaskOutput PROVE AwaitsOk'
    BY <2>27 DEF S!TaskOutput, S!CanLook
  <2>28. ASSUME S!TaskStop PROVE AwaitsOk'
    BY <2>28 DEF S!TaskStop, S!Killed
  <2>29. ASSUME S!Drop PROVE AwaitsOk'
    BY <2>29 DEF S!Drop
  <2>30. ASSUME S!Crash PROVE AwaitsOk'
    BY <2>30 DEF S!Crash
  <2>31. ASSUME S!SessionEnds PROVE AwaitsOk'
    BY <2>31 DEF S!SessionEnds, S!Killed, S!Discarded
  <2>32. ASSUME S!StopLost PROVE AwaitsOk'
    BY <2>32 DEF S!StopLost
  <2>33. QED
    BY <1>1, <2>1, <2>2, <2>3, <2>4, <2>5, <2>6, <2>7, <2>8, <2>9, <2>10,
       <2>11, <2>12, <2>13, <2>14, <2>15, <2>16, <2>17, <2>18, <2>19, <2>20,
       <2>21, <2>22, <2>23, <2>24, <2>25, <2>26, <2>27, <2>28, <2>29, <2>30,
       <2>31, <2>32 DEF S!Next, S!Answering, S!Manager
<1>2. CASE UNCHANGED S!vars
  BY <1>2
<1>3. QED
  BY <1>1, <1>2

(* A timer that is not armed never fires. *)
LEMMA UnarmedStays ==
  ASSUME S!Tick, limitLeft = S!Off
  PROVE  limitLeft' = S!Off
<1>1. limitLeft' = S!Less(S!Off)
  BY DEF S!Tick
<1>2. S!Less(S!Off) = S!Off
  <2>1. ~(-1 > 0)
    OBVIOUS
  <2>2. QED
    BY <2>1 DEF S!Less, S!Off
<1>3. QED
  BY <1>1, <1>2

LEMMA StepAnswersTrue ==
  S!ShellConstants /\ TaskTypes /\ CallTypes /\ LocalTypes /\ LimitOk /\ AwaitsOk /\ S!AnswersTrue /\ [S!Next]_(S!vars)
  => S!AnswersTrue'
<1> SUFFICES ASSUME S!ShellConstants, TaskTypes, CallTypes, LocalTypes, LimitOk, AwaitsOk,
                    S!AnswersTrue, [S!Next]_(S!vars)
             PROVE S!AnswersTrue'
  OBVIOUS
<1> USE Bounds
<1> USE DEF S!vars, S!netVars, S!timers, S!callVars, S!Fault, TaskTypes, CallTypes,
        LocalTypes, LocalState, S!Call, S!Awaits, S!Off, S!Limited, S!Parent, S!Reached,
        LimitOk, AwaitsOk, S!AnswersTrue, S!WholeTail
<1>1. CASE S!Next
  <2>1. ASSUME S!Execute PROVE S!AnswersTrue'
    BY <2>1 DEF S!Execute, S!Tell
  <2>2. ASSUME S!Ensured PROVE S!AnswersTrue'
    BY <2>2 DEF S!Ensured, S!Tell
  <2>3. ASSUME S!Unavailable PROVE S!AnswersTrue'
    BY <2>3 DEF S!Unavailable, S!RunLocal, S!SpawnLocal, S!Tell
  <2>4. ASSUME S!Spawn PROVE S!AnswersTrue'
    BY <2>4 DEF S!Spawn
  <2>5. ASSUME S!ParentStarted PROVE S!AnswersTrue'
    BY <2>5 DEF S!ParentStarted, S!Leave, S!BeginWait, S!Arm, S!Aborts, S!Tell
  <2>6. ASSUME S!ChildStarted PROVE S!AnswersTrue'
    BY <2>6 DEF S!ChildStarted, S!ChildStartedAt, S!BeginWait, S!Arm, S!Aborts, S!Tell
  <2>7. ASSUME S!HandleWait PROVE S!AnswersTrue'
    BY <2>7 DEF S!HandleWait
  <2>8. ASSUME S!WaitDone PROVE S!AnswersTrue'
    BY <2>8 DEF S!WaitDone
  <2>9. ASSUME S!MoveToBackground PROVE S!AnswersTrue'
    BY <2>9 DEF S!MoveToBackground, S!Expired, S!Leave, S!Tell
  <2>10. ASSUME S!WaitAgain PROVE S!AnswersTrue'
    BY <2>10 DEF S!WaitAgain, S!Expired, S!Arm
  <2>11. ASSUME S!StopAtDeadline PROVE S!AnswersTrue'
    BY <2>11 DEF S!StopAtDeadline, S!Killed, S!Tell
  <2>12. ASSUME S!Collect PROVE S!AnswersTrue'
    <3>1. CASE /\ read.to = S!Off
               /\ read' = [from |-> S!Max({0, task.size - Window}),
                            to |-> S!Max({0, task.size - Window})]
               /\ UNCHANGED <<pc, answer>>
      BY <2>12, <3>1, BeginsAt DEF S!Collect
    <3>2. ASSUME read.to # S!Off,
                 NEW next \in (IF read.to = task.size THEN {read.to}
                                ELSE (read.to + 1)..task.size),
                 read' = [read EXCEPT !.to = next],
                 IF next > read.to /\ next < task.size THEN UNCHANGED <<pc, answer>>
                 ELSE S!Finished
          PROVE  S!AnswersTrue'
      <4>1. CASE next > read.to /\ next < task.size
        BY <2>12, <3>2, <4>1 DEF S!Collect
      <4>2. CASE ~(next > read.to /\ next < task.size)
        <5>1. next = task.size
          <6>1. read.to \in Int
            OBVIOUS
          <6>2. task.size \in Nat
            OBVIOUS
          <6>3. QED
            BY <3>2, <4>2, <6>1, <6>2, LastPage
        <5>2. S!WholeTail'
          BY <2>12, <3>2, <5>1 DEF S!Collect
        <5>3. S!Finished
          BY <3>2, <4>2
        <5>4. answer' \in {"output", "exit", "none"} \/ pc' # "told"
          BY <5>3 DEF S!Finished, S!Tell
        <5>5. QED
          BY <2>12, <5>2, <5>3, <5>4 DEF S!Collect, S!Finished, S!Tell
      <4>3. QED
        BY <4>1, <4>2
    <3>3. QED
      BY <2>12, <3>1, <3>2 DEF S!Collect
  <2>13. ASSUME S!KilledStatus PROVE S!AnswersTrue'
    BY <2>13 DEF S!KilledStatus, S!Tell
  <2>14. ASSUME S!LinkGone PROVE S!AnswersTrue'
    BY <2>14 DEF S!LinkGone, S!Rejected, S!ParentRejected, S!ChildRejected, S!RunLocal,
       S!SpawnLocal, S!Leave, S!Tell
  <2>15. ASSUME S!LocalTimeout PROVE S!AnswersTrue'
    BY <2>15 DEF S!LocalTimeout
  <2>16. ASSUME S!LimitReached PROVE S!AnswersTrue'
    BY <2>16 DEF S!LimitReached, S!Killed
  <2>17. ASSUME S!StopHandled PROVE S!AnswersTrue'
    BY <2>17 DEF S!StopHandled, S!Killed
  <2>18. ASSUME S!Dies PROVE S!AnswersTrue'
    BY <2>18 DEF S!Dies, S!Ended
  <2>19. ASSUME S!Reconnect PROVE S!AnswersTrue'
    BY <2>19 DEF S!Reconnect
  <2>20. ASSUME S!GiveUp PROVE S!AnswersTrue'
    BY <2>20 DEF S!GiveUp, S!Discarded
  <2>21. ASSUME S!Tick PROVE S!AnswersTrue'
    <3>1. limitLeft = S!Off => limitLeft' = S!Off
      BY <2>21, UnarmedStays
    <3>2. UNCHANGED <<shellCall, pc, answer, backgrounded, task, stop, read>>
      BY <2>21 DEF S!Tick
    <3>3. local'.at = local.at /\ local'.cut = local.cut
      BY <2>21 DEF S!Tick
    <3>4. QED
      BY <3>1, <3>2, <3>3
  <2>22. ASSUME S!RequestTimesOut PROVE S!AnswersTrue'
    BY <2>22 DEF S!RequestTimesOut, S!Rejected, S!ParentRejected, S!ChildRejected,
       S!RunLocal, S!SpawnLocal, S!Leave, S!Tell
  <2>23. ASSUME S!Abort PROVE S!AnswersTrue'
    BY <2>23 DEF S!Abort, S!Aborts, S!Tell
  <2>24. ASSUME S!LocalEnds PROVE S!AnswersTrue'
    BY <2>24 DEF S!LocalEnds, S!LocalAnswer, S!Tell
  <2>25. ASSUME S!EndsItself PROVE S!AnswersTrue'
    <3>1. PICK code \in {"zero", "other", "signal", "none"} :
            task' = [task EXCEPT !.cmd = "ended", !.code = code]
      BY <2>25 DEF S!EndsItself, S!Ended
    <3>2. task'.cmd = "ended" /\ task'.size = task.size /\ task'.kill = task.kill
      BY <3>1
    <3>3. task.cmd = "running"
      BY <2>25 DEF S!EndsItself
    <3>4. UNCHANGED <<answer, pc, local, shellCall, backgrounded>> /\ limitLeft' = S!Off
      BY <2>25 DEF S!EndsItself, S!Ended
    <3>5. pc = "told" => ~(answer \in {"output", "exit", "killed"} /\ local.at = "none")
      BY <3>3
    <3>6. QED
      BY <3>2, <3>4, <3>5
  <2>26. ASSUME S!Writes PROVE S!AnswersTrue'
    BY <2>26 DEF S!Writes
  <2>27. ASSUME S!TaskOutput PROVE S!AnswersTrue'
    BY <2>27 DEF S!TaskOutput, S!CanLook
  <2>28. ASSUME S!TaskStop PROVE S!AnswersTrue'
    BY <2>28 DEF S!TaskStop, S!Killed
  <2>29. ASSUME S!Drop PROVE S!AnswersTrue'
    BY <2>29 DEF S!Drop
  <2>30. ASSUME S!Crash PROVE S!AnswersTrue'
    BY <2>30 DEF S!Crash
  <2>31. ASSUME S!SessionEnds PROVE S!AnswersTrue'
    BY <2>31 DEF S!SessionEnds, S!Killed, S!Discarded
  <2>32. ASSUME S!StopLost PROVE S!AnswersTrue'
    BY <2>32 DEF S!StopLost
  <2>33. QED
    BY <1>1, <2>1, <2>2, <2>3, <2>4, <2>5, <2>6, <2>7, <2>8, <2>9, <2>10,
       <2>11, <2>12, <2>13, <2>14, <2>15, <2>16, <2>17, <2>18, <2>19, <2>20,
       <2>21, <2>22, <2>23, <2>24, <2>25, <2>26, <2>27, <2>28, <2>29, <2>30,
       <2>31, <2>32 DEF S!Next, S!Answering, S!Manager
<1>2. CASE UNCHANGED S!vars
  BY <1>2
<1>3. QED
  BY <1>1, <1>2

-----------------------------------------------------------------------------
(* What is told of every command.                                          *)

ShellInv == TaskTypes /\ CallTypes /\ LocalTypes /\ LimitOk /\ AwaitsOk /\ S!AnswersTrue

LEMMA InitShellInv == S!ShellConstants /\ S!Init => ShellInv
<1> SUFFICES ASSUME S!ShellConstants, S!Init PROVE ShellInv
  OBVIOUS
<1> USE DEF S!Init
<1>1. TaskTypes /\ CallTypes
  BY DEF TaskTypes, CallTypes, S!Off
<1>2. LocalTypes
  <2>1. aborted \in BOOLEAN
    BY Zenon
  <2>2. FALSE \in BOOLEAN /\ {} \in SUBSET {"abort", "timeout"} /\ S!Off \in Int
    BY DEF S!Off
  <2>3. local \in LocalState
    BY <2>2 DEF LocalState
  <2>4. QED
    BY <2>1, <2>3 DEF LocalTypes
<1>3. LimitOk /\ AwaitsOk /\ S!AnswersTrue
  BY DEF LimitOk, AwaitsOk, S!AnswersTrue, S!Awaits
<1>4. QED
  BY <1>1, <1>2, <1>3 DEF ShellInv

LEMMA ShellInvariant ==
  ASSUME S!ShellConstants
  PROVE  S!Spec => []ShellInv
<1>0. S!Init => ShellInv
  BY InitShellInv
<1>1. ShellInv /\ [S!Next]_(S!vars) => ShellInv'
  BY StepTaskTypes, StepCallTypes, StepLocalTypes, StepLimitOk, StepAwaitsOk,
     StepAnswersTrue
     DEF ShellInv
<1>2. QED
  BY <1>0, <1>1, PTL DEF S!Spec

(* What a bash tool has told the model of a command is true of it, however *)
(* often the connection dropped, the daemon died or a request ran out of   *)
(* time, and whoever else stops the command during the call: a result only *)
(* of a command that has ended, its window read whole; a timeout only when *)
(* the manager's limit has run out, on a command cut by it or, for a       *)
(* subagent, stopped by somebody before; what runs on in the background is *)
(* marked to wake; what was aborted has ended, is being killed, or has a   *)
(* stop that is on its way or was lost on it (bash-override.ts,            *)
(* child-bash.ts and shell-exec.ts).                                       *)
THEOREM AnswersAlwaysTrue ==
  ASSUME S!ShellConstants
  PROVE  S!Spec => []S!AnswersTrue
<1>1. ShellInv => S!AnswersTrue
  BY DEF ShellInv
<1>2. S!Spec => []ShellInv
  BY ShellInvariant
<1>3. QED
  BY <1>1, <1>2, PTL
=============================================================================
