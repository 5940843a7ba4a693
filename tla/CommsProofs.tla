----------------------------- MODULE CommsProofs -----------------------------
(***************************************************************************)
(* Theorems about Comms, for any number of children, labels, turns and     *)
(* decisions: no result is kept from a parent that does not wait, and no   *)
(* prompt of a chain refers to a text that is missing.                     *)
(*                                                                         *)
(* The first rests on TellInv: of every result that the parent has not     *)
(* seen, ToldOk names the reaction that is still to tell it, and TurnOk,   *)
(* PoolOk and PhaseOk say what makes sure that there is one.  After        *)
(* session_shutdown nothing is told, and nothing is claimed.               *)
(***************************************************************************)
EXTENDS Comms, FiniteSetTheorems, SequenceTheorems, TLAPS

(* The types the proof needs; how deep the tools of a run nest, and how    *)
(* often a child asks, is left to the runs.                                *)
HandleShape ==
  [rec : {"pending", "running", "over"}, st : {"pending", "running", "over"}, turn : Nat,
   adm : BOOLEAN, session : BOOLEAN, run : {"none", "on", "interrupted", "aborted"},
   depth : Nat, other : BOOLEAN, waiter : BOOLEAN, paused : BOOLEAN, armed : BOOLEAN,
   ok : BOOLEAN, asks : Nat, ring : BOOLEAN, handed : Nat, seen : BOOLEAN]

Shapes ==
  /\ h \in [Child -> HandleShape]
  /\ chain \in Seq(Step)
  /\ watch \subseteq Child /\ pool \subseteq Child
  /\ fin \in BOOLEAN /\ live \in BOOLEAN

(* Where a child stands within its turn.  A turn that resume() made has a  *)
(* parent in the call until it is admitted, and a listener from then on;   *)
(* without that listener its end would reach nobody.                       *)
TurnOk(c) ==
  /\ h[c].turn = 0 => h[c].st = "pending" /\ ~h[c].adm /\ ~h[c].session
  /\ h[c].turn = 1 /\ h[c].adm => h[c].st = "pending" /\ h[c].run = "none" /\ ~h[c].session
  /\ h[c].turn = 1 /\ h[c].st = "pending" => h[c].adm
  /\ h[c].st = "running" <=> h[c].run = "on"
  /\ h[c].armed => h[c].st = "running"
  /\ h[c].adm => h[c].st # "running"
  /\ h[c].st = "over" /\ ~h[c].adm => h[c].rec = "over"
  /\ h[c].turn > 1 =>
       /\ h[c].adm => parent = [call |-> "resume", child |-> c]
       /\ h[c].st = "pending" => h[c].adm
       /\ h[c].st = "running" => h[c].ring
  /\ h[c].handed = 0 \/ h[c].seen

(* Where the run has a child: what the pool awaits has not ended, or has   *)
(* and watchChild is about to see it.  In a chain only the step at work    *)
(* has been submitted.                                                     *)
PoolOk(c) ==
  /\ c \in pool /\ c \notin watch => h[c].turn <= 1 /\ h[c].rec # "over" /\ h[c].st # "over"
  /\ c \in watch => c \in pool /\ h[c].turn = 1 /\ h[c].st = "over" /\ ~h[c].adm
  /\ h[c].turn = 1 /\ h[c].st # "over" => c \in pool
  /\ chain # <<>> => /\ h[c].turn = 0 => c \in pool
                     /\ c \in pool /\ c # Head(chain).child => h[c].turn = 0

(* What the phases of the run promise of each child. *)
PhaseOk(c) ==
  /\ mode = "new" => chain = <<>> /\ ~fin /\ c \in pool /\ h[c].turn = 0
  /\ mode = "waiting" => ~fin /\ parent = Foreground
  /\ mode = "delivered" => fin
  /\ fin => c \notin pool

Unseen(c) ==
  mode \in {"background", "delivered"} /\ h[c].st = "over" /\ ~h[c].adm /\ ~h[c].seen

(* A result the parent has not seen is still on its way: watchChild, a     *)
(* resumed turn's reaction or the end of the whole run will tell it.       *)
Due(c) == c \in watch \/ Rings(c) \/ (~fin /\ pool \subseteq watch)

ToldOk(c) == Unseen(c) => Due(c)

TellInv ==
  /\ Shapes
  /\ \A c \in Child : h[c].handed <= 1
  /\ live => \A c \in Child : TurnOk(c) /\ PoolOk(c) /\ PhaseOk(c) /\ ToldOk(c)

(* The prompts of the steps that are left refer to texts that are there,   *)
(* or that steps before them will have left.                               *)
RefsOk ==
  /\ chain \in Seq(Step)
  /\ \A i \in 1..Len(chain) :
       chain[i].refs \subseteq
         outputs \cup {chain[j].label : j \in 1..i - 1} \cup {"previous" : j \in 1..i - 1}

-----------------------------------------------------------------------------
(* Handles *)

LEMMA OneHandle ==
  ASSUME Shapes, NEW c \in Child, NEW y \in HandleShape, h' = [h EXCEPT ![c] = y]
  PROVE  /\ h' \in [Child -> HandleShape]
         /\ h'[c] = y
         /\ \A d \in Child \ {c} : h'[d] = h[d]
BY DEF Shapes

(* settle() ends the turn and leaves the rest of the handle alone. *)
LEMMA SettledHandle ==
  ASSUME NEW x \in HandleShape, NEW run \in {"none", "on", "interrupted", "aborted"}
  PROVE  LET y == Settled(x, run)
         IN  /\ y \in HandleShape
             /\ y.st = "over" /\ y.run = run /\ ~y.armed
             /\ y.rec = IF x.adm THEN x.rec ELSE "over"
             /\ y.turn = x.turn /\ y.adm = x.adm /\ y.session = x.session
             /\ y.ring = x.ring /\ y.handed = x.handed /\ y.seen = x.seen
BY DEF Settled, HandleShape

LEMMA UnstartedHandle == Unstarted \in HandleShape
BY DEF Unstarted, HandleShape

LEMMA SubmittedHandles ==
  /\ LET y == Submitted
     IN  /\ y \in HandleShape
         /\ y.st = "pending" /\ y.run = "none" /\ ~y.armed /\ y.rec = "pending"
         /\ y.turn = 1 /\ y.adm /\ ~y.session /\ ~y.ring /\ y.handed = 0 /\ ~y.seen
  /\ LET y == FailedWithoutSession
     IN  /\ y \in HandleShape
         /\ y.st = "over" /\ y.run = "none" /\ ~y.armed /\ y.rec = "over"
         /\ y.turn = 1 /\ ~y.adm /\ ~y.session /\ ~y.ring /\ y.handed = 0 /\ ~y.seen
<1> DEFINE x == [Unstarted EXCEPT !.turn = 1]
<1>1. /\ x \in HandleShape /\ x.turn = 1 /\ ~x.adm /\ ~x.session /\ ~x.ring
      /\ x.handed = 0 /\ ~x.seen
  BY DEF Unstarted, HandleShape
<1> HIDE DEF x
<1>2. LET y == Settled(x, "none")
      IN  /\ y \in HandleShape
          /\ y.st = "over" /\ y.run = "none" /\ ~y.armed /\ y.rec = "over"
          /\ y.turn = 1 /\ ~y.adm /\ ~y.session /\ ~y.ring /\ y.handed = 0 /\ ~y.seen
  BY <1>1, SettledHandle
<1>3. FailedWithoutSession = Settled(x, "none")
  BY DEF FailedWithoutSession, x
<1>4. LET y == Submitted
      IN  /\ y \in HandleShape
          /\ y.st = "pending" /\ y.run = "none" /\ ~y.armed /\ y.rec = "pending"
          /\ y.turn = 1 /\ y.adm /\ ~y.session /\ ~y.ring /\ y.handed = 0 /\ ~y.seen
  BY DEF Submitted, Unstarted, HandleShape
<1>5. QED
  BY <1>2, <1>3, <1>4

(* What a tool's start, its return and a decision leave alone. *)
Same(y, x) ==
  /\ y.rec = x.rec /\ y.st = x.st /\ y.turn = x.turn /\ y.adm = x.adm
  /\ y.session = x.session /\ y.ring = x.ring /\ y.handed = x.handed /\ y.seen = x.seen

LEMMA ToolHandles ==
  ASSUME NEW x \in HandleShape
  PROVE  /\ LET y == ToolStart(x)
            IN  y \in HandleShape /\ Same(y, x) /\ y.run = x.run /\ ~y.armed
         /\ LET y == ToolEnd(x)
            IN  y \in HandleShape /\ Same(y, x) /\ y.run = x.run /\ (y.armed => x.st = "running")
<1> DEFINE d == IF x.depth = 0 THEN 0 ELSE x.depth - 1
<1>1. x.depth \in Nat
  BY DEF HandleShape
<1>2. d \in Nat /\ x.depth + 1 \in Nat
  BY <1>1
<1> HIDE DEF d
<1>3. LET y == ToolStart(x)
      IN  y \in HandleShape /\ Same(y, x) /\ y.run = x.run /\ ~y.armed
  BY <1>2 DEF ToolStart, HandleShape, Same
<1>4. ToolEnd(x) = [x EXCEPT !.depth = d, !.armed = x.st = "running" /\ d = 0 /\ ~x.paused]
  BY DEF ToolEnd, d
<1>5. (x.st = "running" /\ d = 0 /\ ~x.paused) \in BOOLEAN
  OBVIOUS
<1>6. LET y == ToolEnd(x)
      IN  y \in HandleShape /\ Same(y, x) /\ y.run = x.run /\ (y.armed => x.st = "running")
  BY <1>2, <1>4, <1>5 DEF HandleShape, Same
<1>7. QED
  BY <1>3, <1>6

LEMMA AnsweredHandle ==
  ASSUME NEW x \in HandleShape
  PROVE  LET y == Answered(x)
         IN  y \in HandleShape /\ Same(y, x) /\ y.run = x.run /\ (y.armed => x.st = "running")
<1> DEFINE v == [x EXCEPT !.waiter = FALSE]
           w == ResumeStall(v)
<1>1. v \in HandleShape /\ Same(v, x) /\ v.run = x.run
  BY DEF HandleShape, Same
<1> HIDE DEF v
<1>2. (v.st = "running" /\ v.depth = 0) \in BOOLEAN
  OBVIOUS
<1>3. w \in HandleShape /\ Same(w, v) /\ w.run = v.run
  BY <1>1, <1>2 DEF ResumeStall, HandleShape, Same
<1> HIDE DEF w
<1>4. LET y == ToolEnd(w)
      IN  y \in HandleShape /\ Same(y, w) /\ y.run = w.run /\ (y.armed => w.st = "running")
  BY <1>3, ToolHandles
<1>5. Answered(x) = ToolEnd(w)
  BY DEF Answered, v, w
<1>6. QED
  BY <1>1, <1>3, <1>4, <1>5 DEF Same

(* A handover marks the children of S, "done" every child that is over. *)
LEMMA ToldHandles ==
  ASSUME Shapes
  PROVE  /\ \A S : HandOver(S) \in [Child -> HandleShape]
         /\ AllTold \in [Child -> HandleShape]
         /\ \A S : \A c \in Child :
              LET y == HandOver(S)[c]
              IN  /\ c \notin S => y = h[c]
                  /\ c \in S => y.handed = h[c].handed + 1 /\ y.seen
                  /\ y.rec = h[c].rec /\ y.st = h[c].st /\ y.turn = h[c].turn
                  /\ y.adm = h[c].adm /\ y.session = h[c].session /\ y.run = h[c].run
                  /\ y.armed = h[c].armed /\ y.ring = h[c].ring
         /\ \A c \in Child :
              LET y == AllTold[c]
              IN  /\ y.seen <=> h[c].seen \/ h[c].st = "over"
                  /\ y.rec = h[c].rec /\ y.st = h[c].st /\ y.turn = h[c].turn
                  /\ y.adm = h[c].adm /\ y.session = h[c].session /\ y.run = h[c].run
                  /\ y.armed = h[c].armed /\ y.ring = h[c].ring /\ y.handed = h[c].handed
<1>1. ASSUME NEW c \in Child
      PROVE  LET y == [h[c] EXCEPT !.handed = @ + 1, !.seen = TRUE]
             IN  /\ y \in HandleShape
                 /\ y.handed = h[c].handed + 1 /\ y.seen
                 /\ y.rec = h[c].rec /\ y.st = h[c].st /\ y.turn = h[c].turn
                 /\ y.adm = h[c].adm /\ y.session = h[c].session /\ y.run = h[c].run
                 /\ y.armed = h[c].armed /\ y.ring = h[c].ring
  <2> DEFINE x == h[c]
  <2>1. x \in HandleShape
    BY <1>1 DEF Shapes
  <2> HIDE DEF x
  <2>2. x.handed + 1 \in Nat
    BY <2>1 DEF HandleShape
  <2>3. LET y == [x EXCEPT !.handed = @ + 1, !.seen = TRUE]
        IN  /\ y \in HandleShape
            /\ y.handed = x.handed + 1 /\ y.seen
            /\ y.rec = x.rec /\ y.st = x.st /\ y.turn = x.turn
            /\ y.adm = x.adm /\ y.session = x.session /\ y.run = x.run
            /\ y.armed = x.armed /\ y.ring = x.ring
    BY <2>1, <2>2 DEF HandleShape
  <2>4. QED
    BY <2>3 DEF x
<1>2. ASSUME NEW c \in Child
      PROVE  LET y == [h[c] EXCEPT !.seen = @ \/ h[c].st = "over"]
             IN  /\ y \in HandleShape
                 /\ y.seen <=> h[c].seen \/ h[c].st = "over"
                 /\ y.rec = h[c].rec /\ y.st = h[c].st /\ y.turn = h[c].turn
                 /\ y.adm = h[c].adm /\ y.session = h[c].session /\ y.run = h[c].run
                 /\ y.armed = h[c].armed /\ y.ring = h[c].ring /\ y.handed = h[c].handed
  <2> DEFINE x == h[c]
             b == x.seen \/ x.st = "over"
  <2>1. x \in HandleShape
    BY <1>2 DEF Shapes
  <2>2. b \in BOOLEAN
    OBVIOUS
  <2> HIDE DEF x, b
  <2>3. LET y == [x EXCEPT !.seen = b]
        IN  /\ y \in HandleShape
            /\ y.seen = b
            /\ y.rec = x.rec /\ y.st = x.st /\ y.turn = x.turn
            /\ y.adm = x.adm /\ y.session = x.session /\ y.run = x.run
            /\ y.armed = x.armed /\ y.ring = x.ring /\ y.handed = x.handed
    BY <2>1, <2>2 DEF HandleShape
  <2>4. [h[c] EXCEPT !.seen = @ \/ h[c].st = "over"] = [x EXCEPT !.seen = b]
    BY DEF x, b
  <2>5. QED
    BY <2>3, <2>4 DEF x, b
<1>3. \A c \in Child : h[c] \in HandleShape
  BY DEF Shapes
<1>4. ASSUME NEW S, NEW c \in Child
      PROVE  /\ c \notin S => HandOver(S)[c] = h[c]
             /\ c \in S => HandOver(S)[c] = [h[c] EXCEPT !.handed = @ + 1, !.seen = TRUE]
  BY DEF HandOver
<1>5. \A c \in Child : AllTold[c] = [h[c] EXCEPT !.seen = @ \/ h[c].st = "over"]
  BY DEF AllTold
<1>6. ASSUME NEW S
      PROVE  HandOver(S) \in [Child -> HandleShape]
  BY <1>1, <1>3 DEF HandOver
<1>7. AllTold \in [Child -> HandleShape]
  BY <1>2 DEF AllTold
<1>8. ASSUME NEW S, NEW c \in Child
      PROVE  LET y == HandOver(S)[c]
             IN  /\ c \notin S => y = h[c]
                 /\ c \in S => y.handed = h[c].handed + 1 /\ y.seen
                 /\ y.rec = h[c].rec /\ y.st = h[c].st /\ y.turn = h[c].turn
                 /\ y.adm = h[c].adm /\ y.session = h[c].session /\ y.run = h[c].run
                 /\ y.armed = h[c].armed /\ y.ring = h[c].ring
  <2>1. CASE c \in S
    <3> DEFINE y == [h[c] EXCEPT !.handed = @ + 1, !.seen = TRUE]
    <3>1. HandOver(S)[c] = y
      BY <1>4, <2>1
    <3>2. /\ y.handed = h[c].handed + 1 /\ y.seen
          /\ y.rec = h[c].rec /\ y.st = h[c].st /\ y.turn = h[c].turn
          /\ y.adm = h[c].adm /\ y.session = h[c].session /\ y.run = h[c].run
          /\ y.armed = h[c].armed /\ y.ring = h[c].ring
      BY <1>1
    <3> HIDE DEF y
    <3>3. QED
      BY <2>1, <3>1, <3>2
  <2>2. CASE c \notin S
    BY <1>4, <2>2
  <2>3. QED
    BY <2>1, <2>2
<1>9. ASSUME NEW c \in Child
      PROVE  LET y == AllTold[c]
             IN  /\ y.seen <=> h[c].seen \/ h[c].st = "over"
                 /\ y.rec = h[c].rec /\ y.st = h[c].st /\ y.turn = h[c].turn
                 /\ y.adm = h[c].adm /\ y.session = h[c].session /\ y.run = h[c].run
                 /\ y.armed = h[c].armed /\ y.ring = h[c].ring /\ y.handed = h[c].handed
  <2> DEFINE y == [h[c] EXCEPT !.seen = @ \/ h[c].st = "over"]
  <2>1. AllTold[c] = y
    BY <1>5
  <2>2. /\ y.seen <=> h[c].seen \/ h[c].st = "over"
        /\ y.rec = h[c].rec /\ y.st = h[c].st /\ y.turn = h[c].turn
        /\ y.adm = h[c].adm /\ y.session = h[c].session /\ y.run = h[c].run
        /\ y.armed = h[c].armed /\ y.ring = h[c].ring /\ y.handed = h[c].handed
    BY <1>2
  <2> HIDE DEF y
  <2>3. QED
    BY <2>1, <2>2
<1>10. QED
  BY <1>6, <1>7, <1>8, <1>9

-----------------------------------------------------------------------------
(* Steps inside a turn, and the end of one *)

(* A tool starts or returns, a decision is asked for or answered, or an    *)
(* aborted run is over.                                                    *)
LEMMA InsideTurn ==
  ASSUME TellInv, live, NEW c \in Child, NEW y \in HandleShape,
         Same(y, h[c]), y.armed => h[c].st = "running",
         y.run = h[c].run \/ (y.run = "none" /\ h[c].run # "on"),
         h' = [h EXCEPT ![c] = y],
         parent' = parent \/ parent = [call |-> "interrupt", child |-> c],
         UNCHANGED <<mode, live, watch, pool, chain, fin>>
  PROVE  TellInv'
<1>1. /\ h' \in [Child -> HandleShape]
      /\ h'[c] = y
      /\ \A d \in Child \ {c} : h'[d] = h[d]
  BY OneHandle DEF TellInv
<1>2. \A d \in Child : Same(h'[d], h[d]) /\ (h'[d].armed => h[d].st = "running")
                    /\ (h'[d].run = h[d].run \/ (h'[d].run = "none" /\ h[d].run # "on"))
  <2>1. ASSUME NEW d \in Child, d # c
        PROVE  h'[d] = h[d] /\ (h[d].armed => h[d].st = "running")
    BY <1>1, <2>1 DEF TellInv, TurnOk
  <2>2. QED
    BY <1>1, <2>1 DEF Same
<1>3. ASSUME NEW d \in Child
      PROVE  TurnOk(d)' /\ PoolOk(d)' /\ PhaseOk(d)' /\ ToldOk(d)' /\ h'[d].handed <= 1
  <2>1. Same(h'[d], h[d]) /\ (h'[d].armed => h[d].st = "running")
        /\ (h'[d].run = h[d].run \/ (h'[d].run = "none" /\ h[d].run # "on"))
    BY <1>2
  <2>2. TurnOk(d) /\ PoolOk(d) /\ PhaseOk(d) /\ ToldOk(d) /\ h[d].handed <= 1
    BY DEF TellInv
  <2>3. [call |-> "interrupt", child |-> c] # [call |-> "resume", child |-> d]
        /\ [call |-> "interrupt", child |-> c] # Foreground
    BY DEF Foreground
  <2>4. TurnOk(d)'
    BY <2>1, <2>2, <2>3 DEF TurnOk, Same
  <2>5. PoolOk(d)'
    BY <2>1, <2>2 DEF PoolOk, Same
  <2>6. PhaseOk(d)'
    BY <2>1, <2>2, <2>3 DEF PhaseOk, Same
  <2>7. ToldOk(d)'
    BY <2>1, <2>2 DEF ToldOk, Unseen, Due, Rings, Same
  <2>8. QED
    BY <2>1, <2>2, <2>4, <2>5, <2>6, <2>7 DEF Same
<1>4. Shapes'
  BY <1>1 DEF TellInv, Shapes
<1>5. QED
  BY <1>3, <1>4 DEF TellInv

(* A turn that runs, or is resumed and still queues, is settled: it has    *)
(* watchChild, or its listener, or its admission before it.                *)
LEMMA EndsTurn ==
  ASSUME TellInv, live, NEW c \in Child, NEW y \in HandleShape,
         h[c].st # "over", h[c].turn > 0, h[c].turn = 1 => ~h[c].adm,
         y.st = "over", y.run # "on", ~y.armed, y.rec = IF h[c].adm THEN h[c].rec ELSE "over",
         y.turn = h[c].turn, y.adm = h[c].adm, y.session = h[c].session,
         y.ring = h[c].ring, y.handed = h[c].handed, y.seen = h[c].seen,
         h' = [h EXCEPT ![c] = y],
         watch' = IF h[c].turn = 1 THEN watch \cup {c} ELSE watch,
         parent' = parent \/ parent = Free,
         UNCHANGED <<mode, live, pool, chain, fin>>
  PROVE  TellInv'
<1>1. /\ h' \in [Child -> HandleShape]
      /\ h'[c] = y
      /\ \A d \in Child \ {c} : h'[d] = h[d]
  BY OneHandle DEF TellInv
<1>2. /\ TurnOk(c) /\ PoolOk(c) /\ PhaseOk(c) /\ h[c].handed <= 1
      /\ h[c].turn \in Nat /\ watch \subseteq Child /\ h[c].st \in {"pending", "running", "over"}
  BY DEF TellInv, Shapes, HandleShape
<1>3. \A d \in Child : Free # [call |-> "resume", child |-> d] /\ Free # Foreground
  BY DEF Free, Foreground
<1>4. TurnOk(c)' /\ PoolOk(c)' /\ PhaseOk(c)' /\ ToldOk(c)' /\ h'[c].handed <= 1
  <2>1. TurnOk(c)'
    BY <1>1, <1>2, <1>3 DEF TurnOk
  <2>2. PoolOk(c)'
    BY <1>1, <1>2 DEF PoolOk
  <2>3. PhaseOk(c)'
    BY <1>1, <1>2, <1>3 DEF PhaseOk
  <2>4. ToldOk(c)'
    <3>1. CASE h[c].turn = 1
      BY <1>1, <3>1 DEF ToldOk, Due
    <3>2. CASE h[c].turn > 1
      BY <1>1, <1>2, <3>2 DEF ToldOk, Unseen, Due, Rings, TurnOk
    <3>3. QED
      BY <1>2, <3>1, <3>2
  <2>5. QED
    BY <1>1, <1>2, <2>1, <2>2, <2>3, <2>4
<1>5. ASSUME NEW d \in Child \ {c}
      PROVE  TurnOk(d)' /\ PoolOk(d)' /\ PhaseOk(d)' /\ ToldOk(d)' /\ h'[d].handed <= 1
  <2>1. h'[d] = h[d] /\ (d \in watch' <=> d \in watch)
    BY <1>1
  <2>2. TurnOk(d) /\ PoolOk(d) /\ PhaseOk(d) /\ ToldOk(d) /\ h[d].handed <= 1
    BY DEF TellInv
  <2>3. TurnOk(d)'
    BY <1>3, <2>1, <2>2 DEF TurnOk
  <2>4. PoolOk(d)'
    BY <2>1, <2>2 DEF PoolOk
  <2>5. PhaseOk(d)'
    BY <1>3, <2>1, <2>2 DEF PhaseOk
  <2>6. ToldOk(d)'
    BY <2>1, <2>2 DEF ToldOk, Unseen, Due, Rings
  <2>7. QED
    BY <2>1, <2>2, <2>3, <2>4, <2>5, <2>6
<1>6. Shapes'
  BY <1>1, <1>2 DEF TellInv, Shapes
<1>7. QED
  BY <1>4, <1>5, <1>6 DEF TellInv

(* Before any reaction is left to run, the run's own reactions are done.   *)
LEMMA InitTold == Init => TellInv
<1> SUFFICES ASSUME Init
             PROVE  TellInv
  OBVIOUS
<1>1. h \in [Child -> HandleShape] /\ \A c \in Child : h[c] = Unstarted
  BY UnstartedHandle DEF Init
<1>2. Shapes
  BY <1>1, EmptySeq DEF Shapes, Init
<1>3. ASSUME NEW c \in Child
      PROVE  TurnOk(c) /\ PoolOk(c) /\ PhaseOk(c) /\ ToldOk(c) /\ h[c].handed <= 1
  <2>1. /\ h[c].rec = "pending" /\ h[c].st = "pending" /\ h[c].turn = 0 /\ ~h[c].adm
        /\ ~h[c].session /\ h[c].run = "none" /\ ~h[c].armed /\ h[c].handed = 0
    BY <1>1 DEF Unstarted
  <2>2. QED
    BY <2>1 DEF Init, TurnOk, PoolOk, PhaseOk, ToldOk, Unseen
<1>4. QED
  BY <1>2, <1>3 DEF TellInv

(* A run is started: nothing has been told, and all children are awaited. *)
LEMMA StartRunTold ==
  ASSUME TellInv, StartRun
  PROVE  TellInv'
<1>1. live /\ mode = "new" /\ UNCHANGED <<live, pool, fin>>
  BY DEF StartRun
<1>2. mode' = "background" \/ (mode' = "waiting" /\ parent' = Foreground)
  BY DEF StartRun
<1>3. \A c \in Child : /\ TurnOk(c) /\ PoolOk(c) /\ h[c].handed <= 1
                       /\ chain = <<>> /\ ~fin /\ c \in pool /\ h[c].turn = 0
  BY <1>1 DEF TellInv, PhaseOk
<1>4. CASE \E F \in SUBSET Child :
             /\ h' = [c \in Child |-> IF c \in F THEN FailedWithoutSession ELSE Submitted]
             /\ watch' = F
             /\ UNCHANGED chain
  <2>1. PICK F \in SUBSET Child :
          /\ h' = [c \in Child |-> IF c \in F THEN FailedWithoutSession ELSE Submitted]
          /\ watch' = F
          /\ UNCHANGED chain
    BY <1>4
  <2>2. Shapes'
    BY <1>1, <2>1, SubmittedHandles DEF TellInv, Shapes
  <2>3. ASSUME NEW c \in Child
        PROVE  TurnOk(c)' /\ PoolOk(c)' /\ PhaseOk(c)' /\ ToldOk(c)' /\ h'[c].handed <= 1
    <3>1. chain' = <<>> /\ ~fin' /\ c \in pool'
      BY <1>1, <1>3, <2>1
    <3>2. CASE c \in F
      <4>1. /\ h'[c].st = "over" /\ h'[c].run = "none" /\ ~h'[c].armed /\ h'[c].rec = "over"
            /\ h'[c].turn = 1 /\ ~h'[c].adm /\ h'[c].handed = 0 /\ c \in watch'
        BY <2>1, <3>2, SubmittedHandles
      <4>2. QED
        BY <1>2, <3>1, <4>1 DEF TurnOk, PoolOk, PhaseOk, ToldOk, Due
    <3>3. CASE c \notin F
      <4>1. /\ h'[c].st = "pending" /\ h'[c].run = "none" /\ ~h'[c].armed
            /\ h'[c].rec = "pending" /\ ~h'[c].session
            /\ h'[c].turn = 1 /\ h'[c].adm /\ h'[c].handed = 0 /\ c \notin watch'
        BY <2>1, <3>3, SubmittedHandles
      <4>2. QED
        BY <1>2, <3>1, <4>1 DEF TurnOk, PoolOk, PhaseOk, ToldOk, Unseen
    <3>4. QED
      BY <3>2, <3>3
  <2>4. QED
    BY <2>2, <2>3 DEF TellInv
<1>5. CASE chain' \in Chains /\ UNCHANGED <<watch, h>>
  <2>1. Cardinality(Child) \in Nat
    BY CommsAssumption, FS_CardinalityType
  <2>2. chain' \in [1..Cardinality(Child) -> Step]
    BY <1>5 DEF Chains
  <2>3. chain' \in Seq(Step)
    BY <2>1, <2>2
  <2>4. Shapes'
    BY <1>1, <1>5, <2>3 DEF TellInv, Shapes
  <2>5. ASSUME NEW c \in Child
        PROVE  TurnOk(c)' /\ PoolOk(c)' /\ PhaseOk(c)' /\ ToldOk(c)' /\ h'[c].handed <= 1
    BY <1>1, <1>2, <1>3, <1>5 DEF TurnOk, PoolOk, PhaseOk, ToldOk, Unseen
  <2>6. QED
    BY <2>4, <2>5 DEF TellInv
<1>6. QED
  BY <1>4, <1>5 DEF StartRun

-----------------------------------------------------------------------------
(* The run's own steps *)

LEMMA ChainHead ==
  ASSUME chain \in Seq(Step), chain # <<>>
  PROVE  /\ Head(chain).child \in Child
         /\ Tail(chain) \in Seq(Step)
<1>1. Head(chain) \in Step /\ Tail(chain) \in Seq(Step)
  BY HeadTailProperties
<1>2. QED
  BY <1>1 DEF Step

(* The step runChain comes to is awaited by the pool, and alone at work. *)
LEMMA StartStepTold ==
  ASSUME TellInv, StartStep
  PROVE  TellInv'
<1>1. chain # <<>> /\ h[Head(chain).child].turn = 0 /\ chain \in Seq(Step)
  BY DEF StartStep, StepDue, TellInv, Shapes
<1>2. PICK c \in Child : c = Head(chain).child /\ h[c].turn = 0
  BY <1>1, ChainHead
<1>3. PICK y \in {Submitted, FailedWithoutSession} :
        /\ h' = [h EXCEPT ![c] = y]
        /\ y = Submitted => UNCHANGED watch
        /\ y = FailedWithoutSession => watch' = {c}
  <2>1. \/ h' = [h EXCEPT ![c] = Submitted] /\ UNCHANGED watch
        \/ h' = [h EXCEPT ![c] = FailedWithoutSession] /\ watch' = {c}
    BY <1>2 DEF StartStep
  <2>2. Submitted # FailedWithoutSession
    BY SubmittedHandles
  <2>3. QED
    BY <2>1, <2>2
<1>4. UNCHANGED <<mode, live, parent, pool, chain, fin>>
  BY DEF StartStep
<1>5. y \in HandleShape /\ y.turn = 1 /\ ~y.armed /\ y.run = "none" /\ y.handed = 0
  BY SubmittedHandles
<1>6. /\ h' \in [Child -> HandleShape]
      /\ h'[c] = y
      /\ \A d \in Child \ {c} : h'[d] = h[d]
  BY <1>2, <1>3, <1>5, OneHandle DEF TellInv
<1>7. Shapes'
  BY <1>2, <1>3, <1>4, <1>6 DEF TellInv, Shapes
<1>8. CASE ~live
  BY <1>4, <1>5, <1>6, <1>7, <1>8 DEF TellInv
<1>9. CASE live
  <2>1. /\ TurnOk(c) /\ PoolOk(c) /\ PhaseOk(c)
        /\ c \in pool
    BY <1>1, <1>2, <1>9 DEF TellInv, PoolOk
  <2>2. watch = {}
    <3>1. SUFFICES ASSUME NEW d \in Child, d \in watch
                   PROVE  FALSE
      BY DEF TellInv, Shapes
    <3>2. d \in pool /\ h[d].turn = 1
      BY <1>9, <3>1 DEF TellInv, PoolOk
    <3>3. d = c
      BY <1>1, <1>2, <1>9, <3>1, <3>2 DEF TellInv, PoolOk
    <3>4. QED
      BY <1>2, <3>2, <3>3
  <2>3. TurnOk(c)' /\ PoolOk(c)' /\ PhaseOk(c)' /\ ToldOk(c)'
    <3>1. CASE y = FailedWithoutSession
      <4>1. /\ h'[c].st = "over" /\ h'[c].run = "none" /\ ~h'[c].armed /\ h'[c].rec = "over"
            /\ h'[c].turn = 1 /\ ~h'[c].adm /\ h'[c].handed = 0 /\ c \in watch'
        BY <1>3, <1>6, <3>1, SubmittedHandles
      <4>2. QED
        BY <1>1, <1>2, <1>4, <2>1, <4>1 DEF TurnOk, PoolOk, PhaseOk, ToldOk, Due
    <3>2. CASE y = Submitted
      <4>1. /\ h'[c].st = "pending" /\ h'[c].run = "none" /\ ~h'[c].armed
            /\ h'[c].rec = "pending" /\ ~h'[c].session
            /\ h'[c].turn = 1 /\ h'[c].adm /\ h'[c].handed = 0 /\ c \notin watch'
        BY <1>3, <1>6, <2>2, <3>2, SubmittedHandles
      <4>2. QED
        BY <1>1, <1>2, <1>4, <2>1, <4>1 DEF TurnOk, PoolOk, PhaseOk, ToldOk,
           Unseen
    <3>3. QED
      BY <3>1, <3>2
  <2>4. ASSUME NEW d \in Child \ {c}
        PROVE  TurnOk(d)' /\ PoolOk(d)' /\ PhaseOk(d)' /\ ToldOk(d)' /\ h'[d].handed <= 1
    <3>1. h'[d] = h[d] /\ d \notin watch' /\ d \notin watch
      BY <1>3, <1>6, <2>2
    <3>2. TurnOk(d) /\ PoolOk(d) /\ PhaseOk(d) /\ ToldOk(d) /\ h[d].handed <= 1
      BY <1>9 DEF TellInv
    <3>3. TurnOk(d)' /\ PhaseOk(d)' /\ h'[d].handed <= 1
      BY <1>4, <3>1, <3>2 DEF TurnOk, PhaseOk
    <3>4. PoolOk(d)'
      BY <1>4, <3>1, <3>2 DEF PoolOk
    <3>5. ToldOk(d)'
      BY <1>4, <2>1, <2>2, <3>1, <3>2 DEF ToldOk, Unseen, Due, Rings
    <3>6. QED
      BY <3>3, <3>4, <3>5
  <2>5. h'[c].handed <= 1
    BY <1>5, <1>6
  <2>6. \A d \in Child : TurnOk(d)' /\ PoolOk(d)' /\ PhaseOk(d)' /\ ToldOk(d)' /\ h'[d].handed <= 1
    BY <2>3, <2>4, <2>5, Zenon
  <2>7. QED
    BY <1>7, <2>6 DEF TellInv
<1>10. QED
  BY <1>8, <1>9 DEF TellInv, Shapes

(* What watchChild makes of the pool and of the chain. *)
LEMMA WatchMoves ==
  ASSUME Shapes, NEW c \in Child, Watch(c)
  PROVE  /\ chain' \in Seq(Step)
         /\ pool' = pool \ {c} \/ pool' = {}
         /\ chain = <<>> => chain' = <<>> /\ pool' = pool \ {c}
         /\ chain' # <<>> => chain # <<>> /\ pool' = pool \ {c}
<1>1. CASE chain = <<>>
  BY <1>1, EmptySeq DEF Shapes, Watch
<1>2. CASE chain # <<>>
  <2>1. ChainGoesOn(c) /\ Tail(chain) \in Seq(Step) /\ <<>> \in Seq(Step)
    BY <1>2, ChainHead, EmptySeq DEF Shapes, Watch
  <2>2. QED
    BY <1>2, <2>1 DEF ChainGoesOn
<1>3. QED
  BY <1>1, <1>2

(* The first result of c reaches watchChild: it is handed over, or c was   *)
(* the last at work, and the end of the run is at hand.                    *)
LEMMA WatchTold ==
  ASSUME TellInv, NEW c \in Child, Watch(c)
  PROVE  TellInv'
<1>1. c \in watch /\ watch' = watch \ {c} /\ UNCHANGED <<mode, live, parent, fin>>
  BY DEF Watch
<1>2. /\ chain' \in Seq(Step)
      /\ pool' = pool \ {c} \/ pool' = {}
      /\ chain = <<>> => chain' = <<>> /\ pool' = pool \ {c}
      /\ chain' # <<>> => chain # <<>> /\ pool' = pool \ {c}
  BY WatchMoves DEF TellInv
<1>3. h' = IF mode = "background" /\ HandsOver(c) THEN HandOver({c}) ELSE h
  BY DEF Watch
<1>4. /\ h' \in [Child -> HandleShape]
      /\ \A d \in Child : /\ d # c => h'[d] = h[d]
                          /\ h'[d].rec = h[d].rec /\ h'[d].st = h[d].st /\ h'[d].turn = h[d].turn
                          /\ h'[d].adm = h[d].adm /\ h'[d].session = h[d].session
                          /\ h'[d].run = h[d].run /\ h'[d].armed = h[d].armed
                          /\ h'[d].ring = h[d].ring
      /\ IF mode = "background" /\ HandsOver(c) THEN h'[c].handed = h[c].handed + 1 /\ h'[c].seen
                                               ELSE h'[c] = h[c]
  <2>1. CASE mode = "background" /\ HandsOver(c)
    <3>1. h' = HandOver({c})
      BY <1>3, <2>1
    <3>2. QED
      BY <2>1, <3>1, ToldHandles DEF TellInv
  <2>2. CASE ~(mode = "background" /\ HandsOver(c))
    BY <1>3, <2>2 DEF TellInv, Shapes
  <2>3. QED
    BY <2>1, <2>2
<1>5. \A d \in Child : h'[d].handed <= 1
  BY <1>4 DEF TellInv, HandsOver
<1>6. Shapes'
  BY <1>1, <1>2, <1>4 DEF TellInv, Shapes
<1>7. CASE ~live
  BY <1>1, <1>5, <1>6, <1>7 DEF TellInv
<1>8. CASE live
  <2>1. TurnOk(c) /\ PoolOk(c) /\ PhaseOk(c)
    BY <1>8 DEF TellInv
  <2>2. c \in pool /\ h[c].turn = 1 /\ h[c].st = "over" /\ ~h[c].adm /\ h[c].rec = "over" /\ ~fin
    BY <1>1, <2>1 DEF PoolOk, TurnOk, PhaseOk
  <2>3. chain # <<>> => c = Head(chain).child /\ \A d \in watch : d = c
    <3>1. \A d \in Child : chain # <<>> /\ d \in watch => d = Head(chain).child
      BY <1>8 DEF TellInv, PoolOk
    <3>2. QED
      BY <1>1, <3>1 DEF TellInv, Shapes
  <2>4. pool \subseteq watch => pool' \subseteq watch'
    BY <1>1, <1>2
  <2>5. ASSUME NEW d \in Child
        PROVE  PoolOk(d)'
    <3>1. PoolOk(d)
      BY <1>8 DEF TellInv
    <3>2. /\ h'[d].rec = h[d].rec /\ h'[d].st = h[d].st /\ h'[d].turn = h[d].turn
          /\ h'[d].adm = h[d].adm
      BY <1>4
    <3>3. CASE pool' = pool \ {c}
      BY <1>1, <1>2, <2>2, <2>3, <3>1, <3>2, <3>3 DEF PoolOk
    <3>4. CASE pool' = {} /\ chain # <<>> /\ chain' = <<>>
      <4>1. d \notin watch' /\ d \notin pool'
        BY <1>1, <2>3, <3>4
      <4>2. ~(h[d].turn = 1 /\ h[d].st # "over")
        BY <2>2, <2>3, <3>1, <3>4 DEF PoolOk
      <4>3. QED
        BY <3>2, <3>4, <4>1, <4>2 DEF PoolOk
    <3>5. QED
      BY <1>2, <3>3, <3>4
  <2>6. ASSUME NEW d \in Child
        PROVE  TurnOk(d)' /\ PhaseOk(d)'
    <3>1. TurnOk(d) /\ PhaseOk(d)
      BY <1>8 DEF TellInv
    <3>2. h'[d].handed = 0 \/ h'[d].seen
      BY <1>4, <3>1 DEF TurnOk
    <3>3. mode # "new"
      BY <2>1, <2>2 DEF PhaseOk
    <3>4. QED
      BY <1>1, <1>2, <1>4, <3>1, <3>2, <3>3 DEF TurnOk, PhaseOk
  <2>7. ASSUME NEW d \in Child \ {c}
        PROVE  ToldOk(d)'
    <3>1. ToldOk(d) /\ h'[d] = h[d]
      BY <1>4, <1>8 DEF TellInv
    <3>2. QED
      BY <1>1, <2>4, <3>1 DEF ToldOk, Unseen, Due, Rings
  <2>8. ToldOk(c)'
    <3>1. SUFFICES ASSUME Unseen(c)'
                   PROVE  ~fin' /\ pool' \subseteq watch'
      BY DEF ToldOk, Due
    <3>2. mode = "background"
      BY <1>1, <2>1, <2>2, <3>1 DEF Unseen, PhaseOk
    <3>3. ~HandsOver(c) /\ ~h[c].seen
      BY <1>4, <3>1, <3>2 DEF Unseen
    <3>4. h[c].handed = 0
      BY <2>1, <3>3 DEF TurnOk
    <3>5. StillRunning(c) = {}
      BY <2>2, <3>3, <3>4 DEF HandsOver
    <3>6. ASSUME NEW d \in Child, d \in pool', d \notin watch'
          PROVE  FALSE
      <4>1. d \in pool /\ d # c /\ d \notin watch
        BY <1>1, <1>2, <3>6
      <4>2. h[d].rec # "over"
        BY <1>8, <4>1 DEF TellInv, PoolOk
      <4>3. QED
        BY <3>5, <4>1, <4>2 DEF StillRunning
    <3>7. QED
      BY <1>1, <1>6, <2>2, <3>6 DEF Shapes
  <2>9. QED
    BY <1>5, <1>6, <2>5, <2>6, <2>7, <2>8 DEF TellInv
<1>9. QED
  BY <1>7, <1>8 DEF TellInv, Shapes

(* The pool's results are in: the parent is told of all that is over. *)
LEMMA TrackedTold ==
  ASSUME TellInv, Tracked
  PROVE  TellInv'
<1>1. /\ live /\ pool = {} /\ ~fin /\ fin' = TRUE
      /\ UNCHANGED <<live, watch, pool, chain>>
      /\ h' = Finalized(AllTold)
  BY DEF Tracked, PoolDue
<1>2. \/ mode = "waiting" /\ mode' = "delivered" /\ parent' = Free
      \/ mode # "waiting" /\ UNCHANGED <<mode, parent>>
  BY DEF Tracked
<1>3. /\ h' \in [Child -> HandleShape]
      /\ \A c \in Child :
           /\ h'[c].seen <=> h[c].seen \/ h[c].st = "over"
           /\ h'[c].rec = IF h[c].turn = 0 THEN "over" ELSE h[c].rec
           /\ h'[c].st = h[c].st /\ h'[c].turn = h[c].turn
           /\ h'[c].adm = h[c].adm /\ h'[c].session = h[c].session /\ h'[c].run = h[c].run
           /\ h'[c].armed = h[c].armed /\ h'[c].ring = h[c].ring /\ h'[c].handed = h[c].handed
  <2> DEFINE g == AllTold
  <2>1. /\ g \in [Child -> HandleShape]
        /\ \A c \in Child :
             /\ g[c].seen <=> h[c].seen \/ h[c].st = "over"
             /\ g[c].rec = h[c].rec /\ g[c].st = h[c].st /\ g[c].turn = h[c].turn
             /\ g[c].adm = h[c].adm /\ g[c].session = h[c].session /\ g[c].run = h[c].run
             /\ g[c].armed = h[c].armed /\ g[c].ring = h[c].ring /\ g[c].handed = h[c].handed
    BY ToldHandles DEF TellInv
  <2>2. h' = [c \in Child |-> IF g[c].turn = 0 THEN [g[c] EXCEPT !.rec = "over"] ELSE g[c]]
    BY <1>1 DEF Finalized
  <2> HIDE DEF g
  <2>3. ASSUME NEW c \in Child
        PROVE  /\ h'[c] \in HandleShape
               /\ h'[c].rec = IF g[c].turn = 0 THEN "over" ELSE g[c].rec
               /\ h'[c].st = g[c].st /\ h'[c].turn = g[c].turn
               /\ h'[c].adm = g[c].adm /\ h'[c].session = g[c].session /\ h'[c].run = g[c].run
               /\ h'[c].armed = g[c].armed /\ h'[c].ring = g[c].ring /\ h'[c].handed = g[c].handed
               /\ h'[c].seen = g[c].seen
    <3>1. g[c] \in HandleShape
      BY <2>1
    <3>2. CASE g[c].turn = 0
      <4>1. h'[c] = [g[c] EXCEPT !.rec = "over"]
        BY <2>2, <3>2
      <4>2. QED
        BY <3>1, <3>2, <4>1 DEF HandleShape
    <3>3. CASE g[c].turn # 0
      BY <2>2, <3>1, <3>3
    <3>4. QED
      BY <3>2, <3>3
  <2>4. h' \in [Child -> HandleShape]
    BY <2>2, <2>3
  <2>5. QED
    BY <2>1, <2>3, <2>4
<1>4. Shapes'
  BY <1>1, <1>3 DEF TellInv, Shapes
<1>5. ASSUME NEW c \in Child
      PROVE  TurnOk(c)' /\ PoolOk(c)' /\ PhaseOk(c)' /\ ToldOk(c)' /\ h'[c].handed <= 1
  <2>1. TurnOk(c) /\ PoolOk(c) /\ PhaseOk(c) /\ h[c].handed <= 1
    BY <1>1 DEF TellInv
  <2>2. Foreground # [call |-> "resume", child |-> c]
    BY DEF Foreground
  <2>3. parent' = parent \/ parent = Foreground
    BY <1>2, <2>1 DEF PhaseOk
  <2>4. TurnOk(c)'
    BY <1>3, <2>1, <2>2, <2>3 DEF TurnOk
  <2>5. PoolOk(c)'
    BY <1>1, <1>3, <2>1 DEF PoolOk
  <2>6. PhaseOk(c)'
    BY <1>1, <1>2, <1>3, <2>1 DEF PhaseOk
  <2>7. ToldOk(c)'
    BY <1>3 DEF ToldOk, Unseen
  <2>8. QED
    BY <1>3, <2>1, <2>4, <2>5, <2>6, <2>7
<1>6. QED
  BY <1>4, <1>5 DEF TellInv

(* The run goes to the background: what has ended is handed over, unless   *)
(* all has, and then the end of the run would have come first.             *)
LEMMA BudgetOverTold ==
  ASSUME TellInv, BudgetOver
  PROVE  TellInv'
<1>1. /\ Quiet /\ live /\ mode = "waiting" /\ mode' = "background" /\ parent' = Free
      /\ UNCHANGED <<live, watch, pool, chain, fin>>
      /\ h' = HandOver({c \in Child : HandsOver(c)})
  BY DEF BudgetOver, Quiet, ArmBackground
<1>2. /\ h' \in [Child -> HandleShape]
      /\ \A c \in Child :
           /\ ~HandsOver(c) => h'[c] = h[c]
           /\ HandsOver(c) => h'[c].handed = h[c].handed + 1 /\ h'[c].seen
           /\ h'[c].rec = h[c].rec /\ h'[c].st = h[c].st /\ h'[c].turn = h[c].turn
           /\ h'[c].adm = h[c].adm /\ h'[c].session = h[c].session /\ h'[c].run = h[c].run
           /\ h'[c].armed = h[c].armed /\ h'[c].ring = h[c].ring
  BY <1>1, ToldHandles DEF TellInv
<1>3. Shapes'
  BY <1>1, <1>2 DEF TellInv, Shapes
<1>4. ASSUME NEW c \in Child
      PROVE  TurnOk(c)' /\ PoolOk(c)' /\ PhaseOk(c)' /\ ToldOk(c)' /\ h'[c].handed <= 1
  <2>1. TurnOk(c) /\ PoolOk(c) /\ PhaseOk(c) /\ h[c].handed <= 1
    BY <1>1 DEF TellInv
  <2>2. Foreground # [call |-> "resume", child |-> c]
    BY DEF Foreground
  <2>3. h'[c].handed <= 1 /\ (h'[c].handed = 0 \/ h'[c].seen)
    BY <1>2, <2>1 DEF TurnOk, HandsOver
  <2>4. TurnOk(c)'
    BY <1>1, <1>2, <2>1, <2>2, <2>3 DEF TurnOk, PhaseOk
  <2>5. PoolOk(c)'
    BY <1>1, <1>2, <2>1 DEF PoolOk
  <2>6. PhaseOk(c)'
    BY <1>1, <2>1 DEF PhaseOk
  <2>7. ToldOk(c)'
    <3>1. SUFFICES ASSUME Unseen(c)'
                   PROVE  FALSE
      BY DEF ToldOk
    <3>2. h[c].st = "over" /\ ~h[c].adm /\ ~HandsOver(c) /\ h'[c] = h[c] /\ ~h[c].seen
      BY <1>2, <3>1 DEF Unseen
    <3>3. h[c].rec = "over" /\ h[c].handed = 0
      BY <2>1, <3>2 DEF TurnOk
    <3>4. StillRunning(c) = {}
      BY <3>2, <3>3 DEF HandsOver
    <3>5. ASSUME NEW d \in Child, d \in pool
          PROVE  FALSE
      <4>1. h[d].rec # "over"
        BY <1>1, <3>5 DEF TellInv, PoolOk, Quiet
      <4>2. QED
        BY <3>3, <3>4, <4>1 DEF StillRunning
    <3>6. pool = {}
      BY <3>5 DEF TellInv, Shapes
    <3>7. QED
      BY <1>1, <2>1, <3>6 DEF PhaseOk, Quiet, PoolDue
  <2>8. QED
    BY <2>3, <2>4, <2>5, <2>6, <2>7
<1>5. QED
  BY <1>3, <1>4 DEF TellInv

-----------------------------------------------------------------------------
(* A child's steps *)

(* resume() returns when its child is admitted, and listens from then on.  *)
LEMMA AdmitTold ==
  ASSUME TellInv, NEW c \in Child, Admit(c)
  PROVE  TellInv'
<1> DEFINE resumed == parent = [call |-> "resume", child |-> c]
           x == [h[c] EXCEPT !.adm = FALSE, !.rec = "running", !.session = TRUE, !.ring = resumed]
<1>1. /\ Quiet /\ live /\ h[c].adm /\ parent' = IF resumed THEN Free ELSE parent
      /\ UNCHANGED <<mode, live, pool, chain, fin>>
  BY DEF Admit, Quiet
<1>2. /\ TurnOk(c) /\ PoolOk(c) /\ PhaseOk(c) /\ h[c].handed <= 1
      /\ h[c] \in HandleShape /\ h[c].turn \in Nat
  BY <1>1 DEF TellInv, Shapes, HandleShape
<1>3. resumed \in BOOLEAN
  OBVIOUS
<1>4. /\ x \in HandleShape
      /\ x.turn = h[c].turn /\ ~x.adm /\ x.handed = h[c].handed /\ x.seen = h[c].seen
      /\ x.ring = resumed /\ x.rec = "running"
  BY <1>2, <1>3 DEF HandleShape
<1>5. \/ /\ h[c].st = "over" \/ h[c].run # "none"
         /\ h' = [h EXCEPT ![c] = Settled(x, h[c].run)]
         /\ UNCHANGED watch
      \/ /\ h[c].st = "pending" /\ h[c].run = "none"
         /\ h' = [h EXCEPT ![c] = [x EXCEPT !.st = "running", !.run = "on", !.armed = TRUE]]
         /\ UNCHANGED watch
      \/ /\ h[c].turn = 1
         /\ h' = [h EXCEPT ![c] = [Settled(x, "none") EXCEPT !.session = FALSE]]
         /\ watch' = watch \cup {c}
  BY DEF Admit
<1> HIDE DEF x
<1>6. PICK y \in HandleShape :
        /\ h' = [h EXCEPT ![c] = y]
        /\ y.turn = h[c].turn /\ ~y.adm /\ y.handed = h[c].handed /\ y.ring = resumed
        /\ \/ y.st = "over" /\ y.run # "on" /\ ~y.armed /\ y.rec = "over"
           \/ y.st = "running" /\ y.run = "on" /\ y.rec = "running"
        /\ watch' = IF y.st = "over" /\ h[c].turn = 1 THEN watch \cup {c} ELSE watch
        /\ y.seen = h[c].seen
  <2>1. CASE /\ h[c].st = "over" \/ h[c].run # "none"
             /\ h' = [h EXCEPT ![c] = Settled(x, h[c].run)]
             /\ UNCHANGED watch
    <3>1. h[c].run \in {"none", "on", "interrupted", "aborted"}
      BY <1>2 DEF HandleShape
    <3>2. h[c].run # "on" /\ h[c].turn # 1
      BY <1>1, <1>2, <2>1 DEF TurnOk
    <3> DEFINE y == Settled(x, h[c].run)
    <3>3. /\ y \in HandleShape
          /\ y.st = "over" /\ y.run # "on" /\ ~y.armed /\ y.rec = "over"
          /\ y.turn = h[c].turn /\ ~y.adm /\ y.handed = h[c].handed /\ y.ring = resumed
          /\ y.seen = h[c].seen
      BY <1>4, <3>1, <3>2, SettledHandle
    <3> HIDE DEF y
    <3>4. h' = [h EXCEPT ![c] = y]
      BY <2>1 DEF y
    <3>5. QED
      BY <2>1, <3>2, <3>3, <3>4
  <2>2. CASE /\ h[c].st = "pending" /\ h[c].run = "none"
             /\ h' = [h EXCEPT ![c] = [x EXCEPT !.st = "running", !.run = "on", !.armed = TRUE]]
             /\ UNCHANGED watch
    <3> DEFINE y == [x EXCEPT !.st = "running", !.run = "on", !.armed = TRUE]
    <3>1. /\ y \in HandleShape
          /\ y.st = "running" /\ y.run = "on" /\ y.rec = x.rec
          /\ y.turn = x.turn /\ y.adm = x.adm /\ y.handed = x.handed /\ y.ring = x.ring
          /\ y.seen = x.seen
      BY <1>4 DEF HandleShape
    <3> HIDE DEF y
    <3>2. h' = [h EXCEPT ![c] = y]
      BY <2>2 DEF y
    <3>3. QED
      BY <1>4, <2>2, <3>1, <3>2
  <2>3. CASE /\ h[c].turn = 1
             /\ h' = [h EXCEPT ![c] = [Settled(x, "none") EXCEPT !.session = FALSE]]
             /\ watch' = watch \cup {c}
    <3> DEFINE z == Settled(x, "none")
               y == [z EXCEPT !.session = FALSE]
    <3>1. /\ z \in HandleShape
          /\ z.st = "over" /\ z.run # "on" /\ ~z.armed /\ z.rec = "over"
          /\ z.turn = h[c].turn /\ ~z.adm /\ z.handed = h[c].handed /\ z.ring = resumed
          /\ z.seen = h[c].seen
      BY <1>4, SettledHandle
    <3> HIDE DEF z
    <3>2. /\ y \in HandleShape
          /\ y.st = z.st /\ y.run = z.run /\ y.armed = z.armed /\ y.rec = z.rec
          /\ y.turn = z.turn /\ y.adm = z.adm /\ y.handed = z.handed /\ y.ring = z.ring
          /\ y.seen = z.seen
      BY <3>1 DEF HandleShape
    <3> HIDE DEF y
    <3>3. h' = [h EXCEPT ![c] = y]
      BY <2>3 DEF y, z
    <3>4. QED
      BY <2>3, <3>1, <3>2, <3>3
  <2>4. QED
    BY <1>5, <2>1, <2>2, <2>3
<1>7. /\ h' \in [Child -> HandleShape]
      /\ h'[c] = y
      /\ \A d \in Child \ {c} : h'[d] = h[d]
  BY <1>6, OneHandle DEF TellInv
<1>8. Shapes'
  BY <1>1, <1>6, <1>7 DEF TellInv, Shapes
<1>9. TurnOk(c)' /\ PoolOk(c)' /\ PhaseOk(c)' /\ ToldOk(c)' /\ h'[c].handed <= 1
  <2>1. h[c].turn > 1 => y.ring
    <3>1. h[c].turn > 1 => resumed
      BY <1>1, <1>2 DEF TurnOk
    <3>2. resumed => y.ring
      BY <1>6, Zenon
    <3>3. QED
      BY <3>1, <3>2
  <2>2. h[c].turn > 0
    BY <1>1, <1>2 DEF TurnOk
  <2>3. h[c].turn = 1 => c \in pool /\ c \notin watch /\ h[c].rec # "over"
    BY <1>1, <1>2 DEF TurnOk, PoolOk, Quiet
  <2>4. h[c].turn > 1 => c \notin pool /\ c \notin watch
    BY <1>1, <1>2 DEF PoolOk, Quiet
  <2> HIDE DEF resumed
  <2>5. TurnOk(c)'
    BY <1>2, <1>6, <1>7, <2>1, <2>2 DEF TurnOk
  <2>6. PoolOk(c)'
    BY <1>1, <1>2, <1>6, <1>7, <2>2, <2>3, <2>4 DEF PoolOk
  <2>7. PhaseOk(c)'
    BY <1>1, <1>2, <1>6, <1>7, <2>2 DEF PhaseOk, Free, Foreground, resumed
  <2>8. ToldOk(c)'
    BY <1>2, <1>6, <1>7, <2>1, <2>2 DEF ToldOk, Unseen, Due, Rings
  <2>9. QED
    BY <1>2, <1>6, <1>7, <2>5, <2>6, <2>7, <2>8
<1>10. ASSUME NEW d \in Child \ {c}
      PROVE  TurnOk(d)' /\ PoolOk(d)' /\ PhaseOk(d)' /\ ToldOk(d)' /\ h'[d].handed <= 1
  <2>1. h'[d] = h[d] /\ (d \in watch' <=> d \in watch)
    BY <1>6, <1>7
  <2>2. TurnOk(d) /\ PoolOk(d) /\ PhaseOk(d) /\ ToldOk(d) /\ h[d].handed <= 1
    BY <1>1 DEF TellInv
  <2>3. [call |-> "resume", child |-> d] # [call |-> "resume", child |-> c]
        /\ Foreground # [call |-> "resume", child |-> c]
    <3>1. [call |-> "resume", child |-> d].child # [call |-> "resume", child |-> c].child
      OBVIOUS
    <3>2. QED
      BY <3>1 DEF Foreground
  <2>4. TurnOk(d)'
    BY <1>1, <2>1, <2>2, <2>3 DEF TurnOk
  <2>5. PoolOk(d)'
    BY <1>1, <2>1, <2>2 DEF PoolOk
  <2>6. PhaseOk(d)'
    BY <1>1, <2>1, <2>2, <2>3 DEF PhaseOk
  <2>7. ToldOk(d)'
    <3>1. pool \subseteq watch => pool \subseteq watch'
      BY <1>6
    <3>2. QED
      BY <1>1, <2>1, <2>2, <3>1 DEF ToldOk, Unseen, Due, Rings
  <2>8. QED
    BY <2>1, <2>2, <2>4, <2>5, <2>6, <2>7
<1>11. QED
  BY <1>8, <1>9, <1>10 DEF TellInv

(* The end of a run that goes on, or of a turn that queues, by whatever    *)
(* sets it off.                                                            *)
LEMMA SettlesTurn ==
  ASSUME TellInv, live, NEW c \in Child, NEW run \in {"none", "interrupted", "aborted"},
         h[c].st # "over", h[c].turn > 0, h[c].turn = 1 => ~h[c].adm,
         EndTurn(c, run), parent' = parent \/ parent = Free,
         UNCHANGED <<mode, live, pool, chain, fin>>
  PROVE  TellInv'
<1> DEFINE y == Settled(h[c], run)
<1>1. h[c] \in HandleShape
  BY DEF TellInv, Shapes
<1>2. /\ y \in HandleShape
      /\ y.st = "over" /\ y.run # "on" /\ ~y.armed /\ y.rec = IF h[c].adm THEN h[c].rec ELSE "over"
      /\ y.turn = h[c].turn /\ y.adm = h[c].adm /\ y.session = h[c].session
      /\ y.ring = h[c].ring /\ y.handed = h[c].handed /\ y.seen = h[c].seen
  BY <1>1, SettledHandle
<1>3. h' = [h EXCEPT ![c] = y] /\ watch' = IF h[c].turn = 1 THEN watch \cup {c} ELSE watch
  BY DEF EndTurn
<1> HIDE DEF y
<1>4. QED
  BY <1>2, <1>3, EndsTurn

LEMMA RunIsOn ==
  ASSUME TellInv, live, NEW c \in Child, h[c].run = "on" \/ h[c].armed
  PROVE  h[c].st = "running" /\ h[c].turn > 0 /\ ~h[c].adm
<1>1. TurnOk(c) /\ h[c].turn \in Nat
  BY DEF TellInv, Shapes, HandleShape
<1>2. QED
  BY <1>1 DEF TurnOk

LEMMA CompletesTold ==
  ASSUME TellInv, NEW c \in Child, Completes(c)
  PROVE  TellInv'
<1>1. live /\ h[c].run = "on" /\ UNCHANGED <<mode, live, parent, pool, chain, fin>>
      /\ watch' = IF h[c].turn = 1 THEN watch \cup {c} ELSE watch
  BY DEF Completes, Quiet
<1>2. PICK ok \in BOOLEAN : h' = [h EXCEPT ![c] = [Settled(@, "none") EXCEPT !.ok = ok]]
  BY DEF Completes
<1> DEFINE z == Settled(h[c], "none")
           y == [z EXCEPT !.ok = ok]
<1>3. h[c] \in HandleShape
  BY DEF TellInv, Shapes
<1>4. /\ z \in HandleShape
      /\ z.st = "over" /\ z.run = "none" /\ ~z.armed
      /\ z.rec = IF h[c].adm THEN h[c].rec ELSE "over"
      /\ z.turn = h[c].turn /\ z.adm = h[c].adm /\ z.session = h[c].session
      /\ z.ring = h[c].ring /\ z.handed = h[c].handed /\ z.seen = h[c].seen
  BY <1>3, SettledHandle
<1> HIDE DEF z
<1>5. /\ y \in HandleShape
      /\ y.st = z.st /\ y.run = z.run /\ y.armed = z.armed /\ y.rec = z.rec /\ y.turn = z.turn
      /\ y.adm = z.adm /\ y.session = z.session /\ y.ring = z.ring /\ y.handed = z.handed
      /\ y.seen = z.seen
  BY <1>4 DEF HandleShape
<1>6. h' = [h EXCEPT ![c] = y]
  BY <1>2 DEF y, z
<1> HIDE DEF y
<1>7. h[c].st = "running" /\ h[c].turn > 0 /\ ~h[c].adm
  BY <1>1, RunIsOn
<1>8. QED
  BY <1>1, <1>4, <1>5, <1>6, <1>7, EndsTurn

LEMMA TimesOutTold ==
  ASSUME TellInv, NEW c \in Child, TimesOut(c) \/ Stalls(c)
  PROVE  TellInv'
<1>1. /\ live /\ (h[c].run = "on" \/ h[c].armed) /\ EndTurn(c, "aborted")
      /\ UNCHANGED <<mode, live, parent, pool, chain, fin>>
  BY DEF TimesOut, Stalls, Quiet
<1>2. QED
  BY <1>1, RunIsOn, SettlesTurn

LEMMA InterruptsTold ==
  ASSUME TellInv, NEW c \in Child, ParentInterrupts(c) \/ UserInterrupts(c)
  PROVE  TellInv'
<1>1. /\ live /\ h[c].session /\ h[c].st # "over" /\ (parent' = parent \/ parent = Free)
      /\ EndTurn(c, IF h[c].run = "on" THEN "interrupted" ELSE h[c].run)
      /\ UNCHANGED <<mode, live, pool, chain, fin>>
  BY DEF ParentInterrupts, UserInterrupts, Interrupted, Quiet
<1> DEFINE run == IF h[c].run = "on" THEN "interrupted" ELSE h[c].run
<1>2. TurnOk(c) /\ h[c].turn \in Nat /\ run \in {"none", "interrupted", "aborted"}
  BY <1>1 DEF TellInv, Shapes, HandleShape
<1>3. EndTurn(c, run)
  BY <1>1
<1> HIDE DEF run
<1>4. h[c].turn > 0 /\ (h[c].turn = 1 => ~h[c].adm)
  BY <1>1, <1>2 DEF TurnOk
<1>5. QED
  BY <1>1, <1>2, <1>3, <1>4, SettlesTurn

LEMMA ToolsTold ==
  ASSUME TellInv, NEW c \in Child,
         \/ ToolStarts(c) \/ ToolReturns(c) \/ Ask(c) \/ Reply(c) \/ DecisionTimesOut(c)
         \/ RunDrains(c)
  PROVE  TellInv'
<1> DEFINE x == h[c]
<1>1. x \in HandleShape
  BY DEF TellInv, Shapes
<1>2. /\ ToolStart(x) \in HandleShape /\ Same(ToolStart(x), x) /\ ToolStart(x).run = x.run
      /\ ~ToolStart(x).armed
      /\ ToolEnd(x) \in HandleShape /\ Same(ToolEnd(x), x) /\ ToolEnd(x).run = x.run
      /\ ToolEnd(x).armed => x.st = "running"
      /\ Answered(x) \in HandleShape /\ Same(Answered(x), x) /\ Answered(x).run = x.run
      /\ Answered(x).armed => x.st = "running"
  BY <1>1, ToolHandles, AnsweredHandle
<1>3. x.armed => x.st = "running"
  <2>1. CASE live
    BY <2>1 DEF TellInv, TurnOk
  <2>2. live
    BY DEF ToolStarts, ToolReturns, Ask, Reply, DecisionTimesOut, RunDrains,
       Quiet
  <2>3. QED
    BY <2>1, <2>2
<1>4. x.asks + 1 \in Nat
  BY <1>1 DEF HandleShape
<1> HIDE DEF x
<1>5. PICK y \in HandleShape :
        /\ h' = [h EXCEPT ![c] = y]
        /\ Same(y, x) /\ (y.armed => x.st = "running")
        /\ y.run = x.run \/ (y.run = "none" /\ x.run # "on")
  <2>1. CASE ToolStarts(c)
    <3> DEFINE z == ToolStart(x)
               y == [z EXCEPT !.other = TRUE]
    <3>1. h' = [h EXCEPT ![c] = y]
      BY <2>1 DEF ToolStarts, x
    <3> HIDE DEF z
    <3>2. y \in HandleShape /\ Same(y, z) /\ y.armed = z.armed /\ y.run = z.run
      BY <1>2 DEF HandleShape, Same, z
    <3> HIDE DEF y
    <3>3. QED
      BY <1>2, <3>1, <3>2 DEF Same, z
  <2>2. CASE ToolReturns(c)
    <3> DEFINE z == ToolEnd(x)
               y == [z EXCEPT !.other = FALSE]
    <3>1. h' = [h EXCEPT ![c] = y]
      BY <2>2 DEF ToolReturns, x
    <3> HIDE DEF z
    <3>2. y \in HandleShape /\ Same(y, z) /\ y.armed = z.armed /\ y.run = z.run
      BY <1>2 DEF HandleShape, Same, z
    <3> HIDE DEF y
    <3>3. QED
      BY <1>2, <3>1, <3>2 DEF Same, z
  <2>3. CASE Ask(c)
    <3> DEFINE z == ToolStart(x)
               y == [z EXCEPT !.waiter = TRUE, !.paused = TRUE, !.asks = @ + 1]
    <3>1. h' = [h EXCEPT ![c] = y]
      BY <2>3 DEF Ask, x
    <3>2. z.asks + 1 \in Nat
      BY <1>2 DEF HandleShape
    <3> HIDE DEF z
    <3>3. y \in HandleShape /\ Same(y, z) /\ y.armed = z.armed /\ y.run = z.run
      BY <1>2, <3>2 DEF HandleShape, Same, z
    <3> HIDE DEF y
    <3>4. QED
      BY <1>2, <3>1, <3>3 DEF Same, z
  <2>4. CASE Reply(c) \/ DecisionTimesOut(c)
    <3>1. h' = [h EXCEPT ![c] = Answered(x)]
      BY <2>4 DEF Reply, DecisionTimesOut, x
    <3>2. QED
      BY <1>2, <3>1
  <2>5. CASE RunDrains(c)
    <3> DEFINE y == [x EXCEPT !.run = "none", !.other = FALSE, !.depth = 0]
    <3>1. h' = [h EXCEPT ![c] = y] /\ x.run # "on"
      BY <2>5 DEF RunDrains, x
    <3>2. y \in HandleShape /\ Same(y, x) /\ y.armed = x.armed /\ y.run = "none"
      BY <1>1 DEF HandleShape, Same
    <3> HIDE DEF y
    <3>3. QED
      BY <1>3, <3>1, <3>2
  <2>6. QED
    BY <2>1, <2>2, <2>3, <2>4, <2>5
<1>6. /\ live /\ UNCHANGED <<mode, live, watch, pool, chain, fin>>
      /\ parent' = parent \/ parent = [call |-> "interrupt", child |-> c]
  BY DEF ToolStarts, ToolReturns, Ask, Reply, DecisionTimesOut, RunDrains, Quiet
<1>7. QED
  BY <1>5, <1>6, InsideTurn DEF x

(* A new turn: its result has not been told, and there is none yet.        *)
LEMMA ResumeTold ==
  ASSUME TellInv, NEW c \in Child, Resume(c)
  PROVE  TellInv'
<1> DEFINE x == h[c]
           y == [x EXCEPT !.st = "pending", !.turn = @ + 1, !.adm = TRUE, !.depth = 0,
                          !.paused = FALSE, !.handed = 0, !.seen = FALSE]
<1>1. /\ Quiet /\ live /\ parent = Free /\ parent' = [call |-> "resume", child |-> c]
      /\ x.session /\ x.rec = "over" /\ x.st = "over" /\ ~x.adm /\ x.run # "aborted"
      /\ UNCHANGED <<mode, live, watch, pool, chain, fin>>
      /\ h' = [h EXCEPT ![c] = y]
  BY DEF Resume, Quiet
<1>2. /\ x \in HandleShape /\ x.turn + 1 \in Nat
  BY DEF TellInv, Shapes, HandleShape
<1>3. TurnOk(c) /\ PoolOk(c) /\ PhaseOk(c)
  BY <1>1 DEF TellInv
<1> HIDE DEF x
<1>4. /\ y \in HandleShape
      /\ y.st = "pending" /\ y.turn = x.turn + 1 /\ y.adm /\ y.handed = 0 /\ y.run = x.run
      /\ y.armed = x.armed /\ y.rec = x.rec
  BY <1>2 DEF HandleShape
<1> HIDE DEF y
<1>5. /\ h' \in [Child -> HandleShape]
      /\ h'[c] = y
      /\ \A d \in Child \ {c} : h'[d] = h[d]
  BY <1>1, <1>4, OneHandle DEF TellInv
<1>6. Shapes'
  BY <1>1, <1>5 DEF TellInv, Shapes
<1>7. x.turn > 0 /\ x.turn \in Nat
  BY <1>1, <1>2, <1>3 DEF TurnOk, x, HandleShape
<1>8. c \notin pool /\ c \notin watch
  BY <1>1, <1>3 DEF PoolOk, Quiet, x
<1>9. \A d : Free # [call |-> "resume", child |-> d] /\ Free # Foreground
  BY DEF Free, Foreground
<1>10. TurnOk(c)' /\ PoolOk(c)' /\ PhaseOk(c)' /\ ToldOk(c)' /\ h'[c].handed <= 1
  <2>1. TurnOk(c)'
    BY <1>1, <1>3, <1>4, <1>5, <1>7 DEF TurnOk, x
  <2>2. PoolOk(c)'
    BY <1>1, <1>3, <1>4, <1>5, <1>7, <1>8 DEF PoolOk, x
  <2>3. PhaseOk(c)'
    BY <1>1, <1>3, <1>7, <1>9 DEF PhaseOk, x
  <2>4. ToldOk(c)'
    BY <1>4, <1>5 DEF ToldOk, Unseen
  <2>5. QED
    BY <1>4, <1>5, <2>1, <2>2, <2>3, <2>4
<1>11. ASSUME NEW d \in Child \ {c}
       PROVE  TurnOk(d)' /\ PoolOk(d)' /\ PhaseOk(d)' /\ ToldOk(d)' /\ h'[d].handed <= 1
  <2>1. h'[d] = h[d]
    BY <1>5
  <2>2. TurnOk(d) /\ PoolOk(d) /\ PhaseOk(d) /\ ToldOk(d) /\ h[d].handed <= 1
    BY <1>1 DEF TellInv
  <2>3. TurnOk(d)' /\ PhaseOk(d)'
    BY <1>1, <1>9, <2>1, <2>2 DEF TurnOk, PhaseOk
  <2>4. PoolOk(d)' /\ ToldOk(d)'
    BY <1>1, <2>1, <2>2 DEF PoolOk, ToldOk, Unseen, Due, Rings
  <2>5. QED
    BY <2>1, <2>2, <2>3, <2>4
<1>12. QED
  BY <1>6, <1>10, <1>11 DEF TellInv

(* The listener of a resumed turn tells its result, one way or the other.  *)
LEMMA ResumedEndsTold ==
  ASSUME TellInv, NEW c \in Child, ResumedEnds(c)
  PROVE  TellInv'
<1>1. live /\ UNCHANGED <<mode, live, parent, watch, pool, chain, fin>>
      /\ h[c].st = "over"
  BY DEF ResumedEnds, Rings
<1>2. PICK g \in {HandOver({c}), AllTold} :
        /\ h' = [g EXCEPT ![c].ring = FALSE]
        /\ (g = HandOver({c}) /\ h[c].handed = 0) \/ g = AllTold
  BY DEF ResumedEnds, HandsOver
<1>3. /\ g \in [Child -> HandleShape]
      /\ \A d \in Child :
           /\ g[d].rec = h[d].rec /\ g[d].st = h[d].st /\ g[d].turn = h[d].turn
           /\ g[d].adm = h[d].adm /\ g[d].session = h[d].session /\ g[d].run = h[d].run
           /\ g[d].armed = h[d].armed /\ g[d].ring = h[d].ring
           /\ d = c => g[d].seen
           /\ h[d].seen => g[d].seen
           /\ g[d].handed = h[d].handed \/ (d = c /\ h[d].handed = 0 /\ g[d].handed = 1)
  <2>1. CASE g = HandOver({c}) /\ h[c].handed = 0
    <3>1. ASSUME NEW d \in Child
          PROVE  /\ d # c => g[d] = h[d]
                 /\ d = c => g[d].handed = h[d].handed + 1 /\ g[d].seen
                 /\ g[d].rec = h[d].rec /\ g[d].st = h[d].st /\ g[d].turn = h[d].turn
                 /\ g[d].adm = h[d].adm /\ g[d].session = h[d].session /\ g[d].run = h[d].run
                 /\ g[d].armed = h[d].armed /\ g[d].ring = h[d].ring
      BY <2>1, ToldHandles DEF TellInv
    <3>2. g \in [Child -> HandleShape]
      BY <2>1, ToldHandles DEF TellInv
    <3>3. g[c].handed = 1
      BY <2>1, <3>1
    <3>4. \A d \in Child : g[d].handed = h[d].handed \/ (d = c /\ g[d].handed = 1)
      BY <3>1, <3>3
    <3>5. \A d \in Child : (h[d].seen => g[d].seen) /\ (d = c => g[d].seen)
      BY <3>1
    <3>6. QED
      BY <2>1, <3>1, <3>2, <3>4, <3>5
  <2>2. CASE g = AllTold
    BY <1>1, <2>2, ToldHandles DEF TellInv
  <2>3. QED
    BY <1>2, <2>1, <2>2
<1>4. /\ h' \in [Child -> HandleShape]
      /\ \A d \in Child :
           /\ d # c => h'[d] = g[d]
           /\ h'[d].rec = g[d].rec /\ h'[d].st = g[d].st /\ h'[d].turn = g[d].turn
           /\ h'[d].adm = g[d].adm /\ h'[d].session = g[d].session /\ h'[d].run = g[d].run
           /\ h'[d].armed = g[d].armed /\ h'[d].seen = g[d].seen /\ h'[d].handed = g[d].handed
  <2> DEFINE y == [g[c] EXCEPT !.ring = FALSE]
  <2>1. /\ y \in HandleShape
        /\ y.rec = g[c].rec /\ y.st = g[c].st /\ y.turn = g[c].turn /\ y.adm = g[c].adm
        /\ y.session = g[c].session /\ y.run = g[c].run /\ y.armed = g[c].armed
        /\ y.seen = g[c].seen /\ y.handed = g[c].handed
    <3>1. g[c] \in HandleShape
      BY <1>3
    <3>2. QED
      BY <3>1 DEF HandleShape
  <2>2. h' = [g EXCEPT ![c] = y]
    BY <1>2
  <2> HIDE DEF y
  <2>3. h' \in [Child -> HandleShape] /\ h'[c] = y /\ \A d \in Child \ {c} : h'[d] = g[d]
    BY <1>3, <2>1, <2>2
  <2>4. QED
    BY <2>1, <2>3
<1>5. Shapes'
  BY <1>1, <1>4 DEF TellInv, Shapes
<1>6. ASSUME NEW d \in Child
      PROVE  TurnOk(d)' /\ PoolOk(d)' /\ PhaseOk(d)' /\ ToldOk(d)' /\ h'[d].handed <= 1
  <2>1. /\ h'[d].rec = h[d].rec /\ h'[d].st = h[d].st /\ h'[d].turn = h[d].turn
        /\ h'[d].adm = h[d].adm /\ h'[d].session = h[d].session /\ h'[d].run = h[d].run
        /\ h'[d].armed = h[d].armed
        /\ d # c => h'[d].ring = h[d].ring
        /\ d = c => h'[d].seen
        /\ h[d].seen => h'[d].seen
        /\ h'[d].handed = h[d].handed \/ (d = c /\ h[d].handed = 0 /\ h'[d].handed = 1)
    BY <1>3, <1>4
  <2>2. TurnOk(d) /\ PoolOk(d) /\ PhaseOk(d) /\ ToldOk(d) /\ h[d].handed <= 1
    BY <1>1 DEF TellInv
  <2>3. TurnOk(d)' /\ PhaseOk(d)'
    BY <1>1, <2>1, <2>2 DEF TurnOk, PhaseOk
  <2>4. PoolOk(d)'
    BY <1>1, <2>1, <2>2 DEF PoolOk
  <2>5. ToldOk(d)'
    BY <1>1, <2>1, <2>2 DEF ToldOk, Unseen, Due, Rings
  <2>6. QED
    BY <2>1, <2>2, <2>3, <2>4, <2>5
<1>7. QED
  BY <1>5, <1>6 DEF TellInv

(* Nothing is told after the session was shut down.                        *)
LEMMA ShutdownTold ==
  ASSUME TellInv, Shutdown
  PROVE  TellInv'
<1>1. live' = FALSE /\ UNCHANGED <<watch, pool, chain, fin>>
  BY DEF Shutdown
<1>2. ASSUME NEW c \in Child
      PROVE  h'[c] \in HandleShape /\ h'[c].handed = h[c].handed
  <2> DEFINE x == Settled(h[c], "none")
             z == Answered(x)
  <2>1. h[c] \in HandleShape
    BY DEF TellInv, Shapes
  <2>2. x \in HandleShape /\ x.handed = h[c].handed
    BY <2>1, SettledHandle
  <2> HIDE DEF x
  <2>3. z \in HandleShape /\ z.handed = x.handed
    BY <2>2, AnsweredHandle DEF Same
  <2>4. h'[c] = [z EXCEPT !.session = FALSE, !.armed = FALSE]
    BY DEF Shutdown, z, x
  <2> HIDE DEF z
  <2>5. QED
    BY <2>2, <2>3, <2>4 DEF HandleShape
<1>3. h' = [c \in Child |-> h'[c]]
  BY DEF Shutdown
<1>4. Shapes'
  BY <1>1, <1>2, <1>3 DEF TellInv, Shapes
<1>5. QED
  BY <1>1, <1>2, <1>4 DEF TellInv

-----------------------------------------------------------------------------
(* Theorems *)

LEMMA TellInvariant == Spec => []TellInv
<1>1. TellInv /\ [Next]_vars => TellInv'
  <2> SUFFICES ASSUME TellInv, [Next]_vars
               PROVE  TellInv'
    OBVIOUS
  <2>1. CASE StartRun
    BY <2>1, StartRunTold
  <2>2. CASE StartStep
    BY <2>2, StartStepTold
  <2>3. CASE Tracked
    BY <2>3, TrackedTold
  <2>4. CASE BudgetOver
    BY <2>4, BudgetOverTold
  <2>5. CASE Shutdown
    BY <2>5, ShutdownTold
  <2>6. ASSUME NEW c \in Child, Watch(c)
        PROVE  TellInv'
    BY <2>6, WatchTold
  <2>7. ASSUME NEW c \in Child, Admit(c)
        PROVE  TellInv'
    BY <2>7, AdmitTold
  <2>8. ASSUME NEW c \in Child, Completes(c)
        PROVE  TellInv'
    BY <2>8, CompletesTold
  <2>9. ASSUME NEW c \in Child, TimesOut(c) \/ Stalls(c)
        PROVE  TellInv'
    BY <2>9, TimesOutTold
  <2>10. ASSUME NEW c \in Child,
                \/ ToolStarts(c) \/ ToolReturns(c) \/ Ask(c) \/ Reply(c) \/ DecisionTimesOut(c)
                \/ RunDrains(c)
         PROVE  TellInv'
    BY <2>10, ToolsTold
  <2>11. ASSUME NEW c \in Child, ParentInterrupts(c) \/ UserInterrupts(c)
         PROVE  TellInv'
    BY <2>11, InterruptsTold
  <2>12. ASSUME NEW c \in Child, Resume(c)
         PROVE  TellInv'
    BY <2>12, ResumeTold
  <2>13. ASSUME NEW c \in Child, ResumedEnds(c)
         PROVE  TellInv'
    BY <2>13, ResumedEndsTold
  <2>14. CASE UNCHANGED vars
    BY <2>14 DEF vars, TellInv, Shapes, TurnOk, PoolOk, PhaseOk, ToldOk,
       Unseen, Due, Rings
  <2>15. QED
    BY <2>1, <2>2, <2>3, <2>4, <2>5, <2>6, <2>7, <2>8, <2>9, <2>10, <2>11,
       <2>12, <2>13,
       <2>14 DEF Next
<1>2. QED
  BY <1>1, InitTold, PTL DEF Spec

(* Whatever the order in which turns end, time out, are interrupted or     *)
(* resumed, and whenever the run goes to the background: once no reaction  *)
(* is left to run, the parent has been told of every turn that ended       *)
(* (notifyChildHandover, notifyRunCompleted or the text of the call), and  *)
(* none was handed over twice.                                             *)
THEOREM TurnsAlwaysTold == Spec => []TurnsTold
<1>1. TellInv => TurnsTold
  <2> SUFFICES ASSUME TellInv, NEW c \in Child
               PROVE  /\ Quiet /\ mode \in {"background", "delivered"} /\ h[c].st = "over"
                         /\ ~h[c].adm => h[c].seen
                      /\ h[c].handed <= 1
    BY DEF TurnsTold
  <2>1. SUFFICES ASSUME Quiet, Unseen(c)
                 PROVE  FALSE
    BY DEF TellInv, Unseen
  <2>2. Due(c)
    BY <2>1 DEF TellInv, ToldOk, Quiet
  <2>3. QED
    BY <2>1, <2>2 DEF Due, Quiet, PoolDue
<1>2. QED
  BY <1>1, TellInvariant, PTL

(* validateChainSteps: what a step's prompt refers to has a text when the  *)
(* run comes to the step, as runChain keeps {previous} and every label.    *)
LEMMA RefsInvariant == Spec => []RefsOk
<1>1. Init => RefsOk
  BY EmptySeq DEF Init, RefsOk
<1>2. RefsOk /\ [Next]_vars => RefsOk'
  <2> SUFFICES ASSUME RefsOk, [Next]_vars
               PROVE  RefsOk'
    OBVIOUS
  <2>1. CASE StartRun
    <3>1. CASE UNCHANGED chain
      BY <2>1, <3>1 DEF StartRun, RefsOk
    <3>2. CASE chain' \in Chains
      <4>1. chain' \in [1..Cardinality(Child) -> Step] /\ ValidChain(chain')
        BY <3>2 DEF Chains
      <4>2. chain' \in Seq(Step)
        BY <4>1, CommsAssumption, FS_CardinalityType
      <4>3. ASSUME NEW i \in 1..Len(chain')
            PROVE  chain'[i].refs \subseteq
                     outputs' \cup {chain'[j].label : j \in 1..i - 1}
                       \cup {"previous" : j \in 1..i - 1}
        <5>1. i \in DOMAIN chain'
          BY <4>2
        <5>2. chain'[i].refs \subseteq
                {chain'[j].label : j \in 1..i - 1} \cup {"previous" : j \in 1..i - 1}
          BY <4>1, <5>1 DEF ValidChain
        <5>3. QED
          BY <5>2
      <4>4. QED
        BY <4>2, <4>3 DEF RefsOk
    <3>3. QED
      BY <2>1, <3>1, <3>2 DEF StartRun
  <2>2. ASSUME NEW c \in Child, Watch(c)
        PROVE  RefsOk'
    <3>1. CASE chain = <<>>
      BY <2>2, <3>1 DEF Watch, RefsOk
    <3>2. CASE chain # <<>> /\ ~h[c].ok
      <4>1. chain' = <<>>
        BY <2>2, <3>2 DEF Watch, ChainGoesOn
      <4>2. QED
        BY <4>1, EmptySeq DEF RefsOk
    <3>3. CASE chain # <<>> /\ h[c].ok
      <4>1. /\ chain' = Tail(chain)
            /\ outputs' = IF Len(chain) = 1 THEN {}
                          ELSE outputs \cup {"previous", Head(chain).label}
        BY <2>2, <3>3 DEF Watch, ChainGoesOn
      <4>2. /\ chain \in Seq(Step) /\ chain' \in Seq(Step) /\ Len(chain) \in Nat \ {0}
            /\ Len(chain') = Len(chain) - 1 /\ Head(chain) = chain[1]
            /\ \A i \in 1..Len(chain') : chain'[i] = chain[i + 1]
        BY <3>3, <4>1, HeadTailProperties, EmptySeq DEF RefsOk
      <4>3. ASSUME NEW i \in 1..Len(chain')
            PROVE  chain'[i].refs \subseteq
                     outputs' \cup {chain'[j].label : j \in 1..i - 1}
                       \cup {"previous" : j \in 1..i - 1}
        <5>1. i + 1 \in 1..Len(chain) /\ chain'[i] = chain[i + 1] /\ (i + 1) - 1 = i
          BY <4>2
        <5>2. outputs' = outputs \cup {"previous", chain[1].label}
          BY <4>1, <4>2, <5>1
        <5>3. chain[i + 1].refs \subseteq
                outputs \cup {chain[j].label : j \in 1..i} \cup {"previous" : j \in 1..i}
          BY <5>1 DEF RefsOk
        <5>4. ASSUME NEW j \in 1..i
              PROVE  chain[j].label \in outputs' \cup {chain'[k].label : k \in 1..i - 1}
          <6>1. CASE j = 1
            BY <5>2, <6>1
          <6>2. CASE j # 1
            <7>1. j - 1 \in 1..i - 1 /\ j - 1 \in 1..Len(chain') /\ (j - 1) + 1 = j
              BY <4>2, <6>2
            <7>2. chain'[j - 1] = chain[j]
              BY <4>2, <7>1
            <7>3. QED
              BY <7>1, <7>2
          <6>3. QED
            BY <6>1, <6>2
        <5>5. QED
          BY <5>1, <5>2, <5>3, <5>4
      <4>4. QED
        BY <4>2, <4>3 DEF RefsOk
    <3>4. QED
      BY <3>1, <3>2, <3>3
  <2>3. CASE /\ ~StartRun /\ \A c \in Child : ~Watch(c)
    <3>1. UNCHANGED <<chain, outputs>>
      BY <2>3 DEF Next, vars, StartStep, Tracked, BudgetOver, Shutdown, Admit,
         Completes,
         TimesOut, Stalls, RunDrains, ToolStarts, ToolReturns, Ask, Reply, DecisionTimesOut,
         ParentInterrupts, UserInterrupts, Resume, ResumedEnds
    <3>2. QED
      BY <3>1 DEF RefsOk
  <2>4. QED
    BY <2>1, <2>2, <2>3
<1>3. QED
  BY <1>1, <1>2, PTL DEF Spec

(* interpolateChainPrompt never meets a reference without a text: of every *)
(* chain that validateChainSteps lets pass, each step is submitted when    *)
(* all that its prompt refers to is there.                                 *)
THEOREM PromptsAlwaysFilled == Spec => PromptsFilled
<1>1. RefsOk /\ StepDue => Head(chain).refs \subseteq outputs
  <2> SUFFICES ASSUME RefsOk, StepDue
               PROVE  Head(chain).refs \subseteq outputs
    OBVIOUS
  <2>1. chain \in Seq(Step) /\ chain # <<>>
    BY DEF RefsOk, StepDue
  <2>2. 1 \in 1..Len(chain) /\ Head(chain) = chain[1] /\ 1..(1 - 1) = {}
    BY <2>1, EmptySeq
  <2>3. chain[1].refs \subseteq
          outputs \cup {chain[j].label : j \in {}} \cup {"previous" : j \in {}}
    BY <2>2 DEF RefsOk
  <2>4. QED
    BY <2>2, <2>3
<1>2. QED
  BY <1>1, RefsInvariant, PTL DEF PromptsFilled
=============================================================================
