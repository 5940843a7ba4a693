------------------------------- MODULE WorkProofs -------------------------------
(***************************************************************************)
(* Theorems about the work that goes on in the background, as the model    *)
(* hears of it and as the extension lists it.                              *)
(*                                                                         *)
(* Monitors, for any bounds and any faults: the model is told a monitor's  *)
(* lines in the order they were printed and none twice (LinesInOrder), its *)
(* end once and nothing that wakes it afterwards (EndIsLast), and with the *)
(* exit of a monitor that ends by itself every line the manager gave:      *)
(* shown, in the count of a notice that shows a later one, or counted as   *)
(* dropped (ExitTellsAll).  The invariant is one of the extension's own    *)
(* state, Good(s), and little else: a line moves from the batch over the   *)
(* coalesced events to the model, and the cursor is past all of them       *)
(* (Ordered); every line taken is in one of these places, in a count or    *)
(* dropped (Tells); and before the end nothing is held for the model,      *)
(* after it nothing is left that could wake it (Open, Over).  Of the wire  *)
(* it needs only that the stop of a monitor that ends itself is in one     *)
(* place (OneStop): the end is then told where that stop is handled and    *)
(* nowhere else.                                                           *)
(*                                                                         *)
(* WorkList, as W in the second half, for any tasks and children and any   *)
(* number of faults: a row still live although its task has ended is       *)
(* looked after, until a give-up or a failed list leaves a monitor's alone *)
(* (RowsLookedAfter).  A command's row is live only while its wake is owed *)
(* (RowsAwaited), so the watchdog minds it.  For a monitor's it is a fact  *)
(* about steps (Safe, NoneForgotten) that is not inductive by itself: the  *)
(* registration, which makes a row live, comes after the answer it waits   *)
(* for.  So as long as it is still to come the exit is still on its way or *)
(* is stashed (OpenHears, and LateHears for a command's mark), and what    *)
(* leads to one is read before the exit (ToldBefore).  What task_list      *)
(* shows leaves out nothing that went on from its call to its answer       *)
(* (ListComplete) and shows nothing as running that was over when its sync *)
(* was answered (ListHonest).  For these ListInv adds that nothing is      *)
(* heard of before it is so (PastOk), that the call of a command is at one *)
(* place (CallsOk), that a task without a live row is over or never had    *)
(* one, and a subagent has the row its registry says (RowsKnown), and that *)
(* the sync and the list are each at one place, what they say was so, and  *)
(* the exits of what was over precede the answer (ListsOk).                *)
(***************************************************************************)
EXTENDS Monitors, FiniteSetTheorems, WellFoundedInduction, TLAPS

-----------------------------------------------------------------------------
(* Shapes. *)

Out   == {o \in [is : {"output"}, from : Nat, to : Nat] : o.from < o.to}
Hows  == {"unborn", "running", "killing", "ok"} \cup Ended
AskT  == ({"start", "watch", "stop", "task_stop", "look"} \X {0}) \cup ({"watch", "list"} \X Nat)
Reply == [is : {"answer"}, to : AskT, how : Hows]
Msg   == Out \cup [is : {"exited"}, how : Hows] \cup Reply \cup [is : {"hello"}]
Line  == Seq(Nat)
ItemT ==
  {i \in [kind : Ends \cup {Event}, lines : Line, more : Line, drops : Line, wakes : BOOLEAN] :
     Newest(i)}
PendT == {p \in [lines : Line, more : Line, drops : Line, quiet : BOOLEAN] : Newest(p)}

State ==
  [entry : {"starting", "live", "gone"}, early : Seq(Out), earlyExit : Hows \cup {"none"},
   cursor : Nat, recovering : BOOLEAN, queued : Seq(Out),
   buffer : Line, drops : Line, evented : BOOLEAN,
   stopped : BOOLEAN, stopping : {"none", "timeout", "limit"}, asked : BOOLEAN, taken : Line,
   agent : {"idle", "starting", "busy"}, runPending : BOOLEAN, held : Seq(ItemT),
   pend : PendT, told : Seq(ItemT)]

-----------------------------------------------------------------------------
(* The invariant of the extension's state. *)

InOrder(q) ==
  \A j \in DOMAIN q : /\ Ascending(q[j].lines)
                      /\ \A i \in DOMAIN q : i < j => Below(q[i].lines, q[j].lines)
AllBelow(q, p) == \A i \in DOMAIN q : Below(q[i].lines, p)
UpTo(p, n) == \A l \in ToSet(p) : l <= n

(* Lines pass from the batch through the coalesced events to the model in  *)
(* the order of their numbers, and the cursor is past them all.            *)
Ordered(x) ==
  /\ InOrder(x.told) /\ Ascending(x.pend.lines) /\ Ascending(x.buffer)
  /\ AllBelow(x.told, x.pend.lines) /\ AllBelow(x.told, x.buffer)
  /\ Below(x.pend.lines, x.buffer)
  /\ UpTo(x.buffer, x.cursor) /\ UpTo(x.pend.lines, x.cursor)
  /\ x.entry # "gone" => \A i \in DOMAIN x.told : UpTo(x.told[i].lines, x.cursor)

(* Before the end nothing is held, and what was told are events.           *)
Open(x) == x.held = << >> /\ \A i \in DOMAIN x.told : x.told[i].kind = Event

Enders(q) == {i \in DOMAIN q : q[i].kind # Event}

(* After it nothing is left that could wake the model. *)
Shut(x) ==
  /\ x.pend = NoEvents
  /\ \A i, j \in Enders(x.told) \cup Enders(x.held) : i = j
  /\ Enders(x.told) = {} \/ Enders(x.held) = {}
  /\ Enders(x.told) # {} \/ Enders(x.held) # {}
  /\ \A i \in Enders(x.told) : \A j \in DOMAIN x.told : i < j => ~x.told[j].wakes
  /\ \A i \in DOMAIN x.held : ~x.held[i].wakes
  /\ InOrder(x.held) /\ \A i \in DOMAIN x.held : AllBelow(x.told, x.held[i].lines)
Over(x) == x.entry = "gone" /\ Shut(x)

SaidIn(q)  == LinesOf(q) \cup MoreOf(q) \cup DropsOf(q)
Adds(i)  == ToSet(i.lines) \cup ToSet(i.more) \cup ToSet(i.drops)
Heard(x) == SaidIn(x.told) \cup SaidIn(x.held)
Kept(x)  == Heard(x) \cup Adds(x.pend)

NoExit(q) == \A i \in DOMAIN q : q[i].kind # "exited"

(* Every line taken is told, counted, held, coalesced, in the batch or     *)
(* dropped.                                                                *)
Tells(x) ==
  \/ x.stopped /\ NoExit(x.told) /\ NoExit(x.held)
  \/ ToSet(x.taken) = Kept(x) \cup IF Open(x) THEN ToSet(x.buffer) \cup ToSet(x.drops) ELSE {}

Sane(x) ==
  /\ x \in State
  /\ x.entry = "gone" => x.stopped /\ x.buffer = << >>
  /\ x.stopping # "none" => x.stopped
  /\ x.pend.lines = << >> => x.pend = NoEvents
  /\ Open(x) \/ Over(x)
  /\ Ordered(x)

(* Lines the model is not to be woken for are coalesced only while it      *)
(* works, or after it has asked for the stop itself.                       *)
QuietOk(x) == x.pend.quiet /\ x.agent # "busy" => x.asked

Good(x) == Sane(x) /\ QuietOk(x) /\ Tells(x)

(* The stop of a monitor that ends itself: asked for, answered or to be    *)
(* handled, in one place, and until then its end is not told.              *)
StopAt(q) == {i \in DOMAIN q : q[i].is = "answer" /\ q[i].to[1] = "stop"}
StopPending == <<"stop", 0>> \in asks \/ StopAt(wire) # {} \/ StopAt(jobs) # {}
OneStop ==
  /\ \A i, j \in StopAt(wire) : i = j
  /\ \A i, j \in StopAt(jobs) : i = j
  /\ <<"stop", 0>> \in asks => StopAt(wire) = {}
  /\ <<"stop", 0>> \in asks \/ StopAt(wire) # {} => StopAt(jobs) = {}
  /\ StopPending => Open(s) /\ s.stopping # "none"

Typed ==
  /\ {fanned, printed, carried, faults} \subseteq Nat
  /\ over \in Hows
  /\ wire \in Seq(Msg) /\ jobs \in Seq(Msg) /\ asks \subseteq AskT
  /\ link \in {"down", "unavailable"} => wire = << >>

(* The inductive invariant; while task_stop is awaited the turn goes on.   *)
MonitorInv == Typed /\ Good(s) /\ OneStop /\ (InTaskStop => s.agent = "busy")
-----------------------------------------------------------------------------
(* Induction, from the well-foundedness of finite sets. *)

LEMMA LeastNat == ASSUME NEW T, T \subseteq Nat, T # {} PROVE \E x \in T : \A y \in T : x <= y
<1> DEFINE W == {0..n : n \in T}
<1>1. W \subseteq FiniteSubsetsOf(Nat) /\ W # {}
  <2>1. ASSUME NEW n \in T PROVE 0..n \in FiniteSubsetsOf(Nat)
    BY FS_Interval, 0..n \subseteq Nat DEF FiniteSubsetsOf
  <2> QED  BY <2>1
<1>2. IsWellFoundedOn(StrictSubsetOrdering(Nat), FiniteSubsetsOf(Nat))
  BY FS_StrictSubsetOrderingWellFounded
<1> HIDE DEF W
<1>3. PICK X \in W : \A Y \in W : ~(<<Y, X>> \in StrictSubsetOrdering(Nat))
  BY <1>1, <1>2, WFMin
<1>4. PICK x \in T : X = 0..x
  BY DEF W
<1>5. ASSUME NEW y \in T PROVE x <= y
  <2> SUFFICES ASSUME y < x PROVE FALSE
    OBVIOUS
  <2>1. 0..y \in W
    BY DEF W
  <2>2. 0..y \subseteq 0..x /\ x \in 0..x /\ x \notin 0..y
    OBVIOUS
  <2>3. 0..y \in SUBSET Nat /\ 0..x \in SUBSET Nat
    OBVIOUS
  <2> QED  BY <2>1, <2>2, <2>3, <1>3, <1>4 DEF StrictSubsetOrdering
<1> QED  BY <1>5

LEMMA ZeroUp ==
  ASSUME NEW T, 0 \in T, \A n \in Nat : n \in T => n + 1 \in T
  PROVE  Nat \subseteq T
<1> SUFFICES ASSUME Nat \ T # {} PROVE FALSE
  OBVIOUS
<1>1. PICK x \in Nat \ T : \A y \in Nat \ T : x <= y
  BY LeastNat
<1>2. x # 0 /\ x - 1 \in Nat /\ x - 1 \in T
  BY <1>1
<1> QED  BY <1>1, <1>2

-----------------------------------------------------------------------------
(* Sequences of lines and of items. *)

LEMMA LinesCat ==
  ASSUME NEW p \in Line, NEW q \in Line
  PROVE  /\ p \o q \in Line /\ ToSet(p \o q) = ToSet(p) \cup ToSet(q)
         /\ q # << >> => p \o q # << >>
<1> DEFINE r == p \o q
<1>1. /\ r \in Line /\ Len(r) = Len(p) + Len(q)
      /\ \A i \in 1..Len(p) : r[i] = p[i]
      /\ \A i \in 1..Len(q) : r[Len(p) + i] = q[i]
  BY DEF Line
<1>2. DOMAIN p = 1..Len(p) /\ DOMAIN q = 1..Len(q) /\ DOMAIN r = 1..Len(r)
  BY <1>1 DEF Line
<1>3. Len(p) \in Nat /\ Len(q) \in Nat
  BY DEF Line
<1> HIDE DEF r
<1>4. ToSet(r) \subseteq ToSet(p) \cup ToSet(q)
  <2>1. ASSUME NEW i \in DOMAIN r PROVE r[i] \in ToSet(p) \cup ToSet(q)
    <3>1. CASE i <= Len(p)
      BY <3>1, <1>1, <1>2, <1>3 DEF ToSet
    <3>2. CASE i > Len(p)
      <4>1. i - Len(p) \in 1..Len(q) /\ i = Len(p) + (i - Len(p))
        BY <3>2, <1>1, <1>2, <1>3
      <4>2. r[i] = q[i - Len(p)]
        BY <4>1, <1>1
      <4> QED  BY <4>1, <4>2, <1>2 DEF ToSet
    <3> QED  BY <3>1, <3>2, <1>1, <1>2, <1>3
  <2> QED  BY <2>1 DEF ToSet
<1>5. ToSet(p) \subseteq ToSet(r)
  BY <1>1, <1>2, <1>3 DEF ToSet
<1>6. ToSet(q) \subseteq ToSet(r)
  <2>1. ASSUME NEW i \in DOMAIN q PROVE q[i] \in ToSet(r)
    <3>1. Len(p) + i \in DOMAIN r /\ r[Len(p) + i] = q[i]
      BY <1>1, <1>2, <1>3
    <3> QED  BY <3>1 DEF ToSet
  <2> QED  BY <2>1 DEF ToSet
<1>7. q # << >> => r # << >>
  BY <1>1, <1>3 DEF Line
<1> QED  BY <1>1, <1>4, <1>5, <1>6, <1>7 DEF r

LEMMA AscendingCat ==
  ASSUME NEW p \in Line, NEW q \in Line, Ascending(p), Ascending(q), Below(p, q)
  PROVE  Ascending(p \o q)
<1> DEFINE r == p \o q
<1>1. /\ r \in Line /\ Len(r) = Len(p) + Len(q)
      /\ \A i \in 1..Len(p) : r[i] = p[i]
      /\ \A i \in 1..Len(q) : r[Len(p) + i] = q[i]
  BY DEF Line
<1>2. DOMAIN p = 1..Len(p) /\ DOMAIN q = 1..Len(q) /\ DOMAIN r = 1..Len(r)
  BY <1>1 DEF Line
<1>3. Len(p) \in Nat /\ Len(q) \in Nat
  BY DEF Line
<1>4. \A i \in 1..Len(r) : i > Len(p) => i - Len(p) \in 1..Len(q) /\ r[i] = q[i - Len(p)]
  <2> TAKE i \in 1..Len(r)
  <2> HAVE i > Len(p)
  <2>1. i - Len(p) \in 1..Len(q) /\ i = Len(p) + (i - Len(p))
    BY <1>1, <1>3
  <2> QED  BY <2>1, <1>1
<1> HIDE DEF r
<1>5. ASSUME NEW i \in DOMAIN r, NEW j \in DOMAIN r, i < j PROVE r[i] < r[j]
  <2>1. CASE j <= Len(p)
    <3>1. i \in 1..Len(p) /\ j \in 1..Len(p)
      BY <2>1, <1>5, <1>2, <1>3, <1>1
    <3> QED  BY <3>1, <1>1, <1>2, <1>5 DEF Ascending
  <2>2. CASE i <= Len(p) /\ j > Len(p)
    <3>1. r[i] \in ToSet(p) /\ r[j] \in ToSet(q)
      BY <2>2, <1>1, <1>2, <1>3, <1>4 DEF ToSet
    <3> QED  BY <3>1 DEF Below
  <2>3. CASE i > Len(p)
    <3>1. /\ i - Len(p) \in 1..Len(q) /\ r[i] = q[i - Len(p)]
          /\ j - Len(p) \in 1..Len(q) /\ r[j] = q[j - Len(p)] /\ i - Len(p) < j - Len(p)
      BY <2>3, <1>5, <1>1, <1>2, <1>3, <1>4
    <3> QED  BY <3>1, <1>2 DEF Ascending
  <2> QED  BY <2>1, <2>2, <2>3, <1>1, <1>2, <1>3
<1> QED  BY <1>5 DEF Ascending, r

LEMMA BelowThrough ==
  ASSUME NEW o \in Line, NEW p \in Line, NEW q \in Line, p # << >>, Below(o, p), Below(p, q)
  PROVE  Below(o, q)
<1>1. /\ \A r \in Line : \A l \in ToSet(r) : l \in Nat
      /\ 1 \in DOMAIN p
  BY DEF Line, ToSet
<1>2. p[1] \in ToSet(p)
  BY <1>1 DEF ToSet
<1>3. \A l \in ToSet(o), k \in ToSet(q) : l < p[1] /\ p[1] < k
  BY <1>2 DEF Below
<1> QED  BY <1>1, <1>2, <1>3 DEF Below

LEMMA Empty ==
  /\ << >> \in Line /\ ToSet(<< >>) = {} /\ Ascending(<< >>)
  /\ \A p : Below(<< >>, p) /\ Below(p, << >>)
  /\ \A q : AllBelow(q, << >>)
  /\ InOrder(<< >>) /\ \A n : UpTo(<< >>, n)
  /\ SaidIn(<< >>) = {} /\ Adds(NoEvents) = {} /\ Enders(<< >>) = {}
<1>1. << >> \in Line /\ DOMAIN << >> = {}
  BY DEF Line
<1>2. ToSet(<< >>) = {}
  BY <1>1 DEF ToSet
<1> QED
  BY <1>1, <1>2 DEF Ascending, Below, AllBelow, InOrder, UpTo, SaidIn, LinesOf, MoreOf, DropsOf,
                    Enders, Adds, NoEvents

LEMMA ItemAdded ==
  ASSUME NEW q \in Seq(ItemT), NEW i \in ItemT
  PROVE  LET r == Append(q, i) IN
         /\ r \in Seq(ItemT) /\ Len(r) = Len(q) + 1 /\ r[Len(q) + 1] = i
         /\ DOMAIN r = 1..(Len(q) + 1) /\ DOMAIN q = 1..Len(q) /\ Len(q) \in Nat
         /\ \A k \in DOMAIN q : r[k] = q[k] /\ k \in DOMAIN r /\ k < Len(q) + 1
         /\ \A k \in DOMAIN r : k \in DOMAIN q \/ k = Len(q) + 1
  OBVIOUS

LEMMA ItemSets ==
  ASSUME NEW q \in Seq(ItemT), NEW i \in ItemT
  PROVE  SaidIn(Append(q, i)) = SaidIn(q) \cup Adds(i)
<1> DEFINE r == Append(q, i)
<1>1. /\ r[Len(q) + 1] = i /\ Len(q) + 1 \in DOMAIN r
      /\ \A k \in DOMAIN q : r[k] = q[k] /\ k \in DOMAIN r
      /\ \A k \in DOMAIN r : k \in DOMAIN q \/ k = Len(q) + 1
  BY ItemAdded
<1> HIDE DEF r
<1>2. LinesOf(r) = LinesOf(q) \cup ToSet(i.lines)
  BY <1>1 DEF LinesOf
<1>3. DropsOf(r) = DropsOf(q) \cup ToSet(i.drops)
  BY <1>1 DEF DropsOf
<1>4. MoreOf(r) = MoreOf(q) \cup ToSet(i.more)
  BY <1>1 DEF MoreOf
<1> QED  BY <1>2, <1>3, <1>4 DEF r, SaidIn, Adds

(* The notices of the NotifyCenter are items. *)
LEMMA EndItem ==
  ASSUME NEW kind \in Ends, NEW drops \in Line
  PROVE  LET i == Item(kind, << >>, << >>, drops, FALSE) IN
         /\ i \in ItemT /\ i.kind = kind /\ i.kind # Event /\ i.lines = << >> /\ ~i.wakes
         /\ Adds(i) = ToSet(drops)
<1>1. << >> \in Line /\ ToSet(<< >>) = {} /\ Event \notin Ends
  BY Empty DEF Event, Ends
<1> QED  BY <1>1 DEF Item, ItemT, Newest, Adds

LEMMA EventItem ==
  ASSUME NEW lines \in Line, NEW drops \in Line
  PROVE  LET i == Item(Event, lines, << >>, drops, FALSE) IN
         /\ i \in ItemT /\ i.kind = Event /\ i.lines = lines
         /\ Adds(i) = ToSet(lines) \cup ToSet(drops)
<1>1. << >> \in Line /\ ToSet(<< >>) = {}
  BY Empty
<1> QED  BY <1>1 DEF Item, ItemT, Newest, Adds

LEMMA PendItem ==
  ASSUME NEW p \in PendT
  PROVE  LET i == Item(Event, p.lines, p.more, p.drops, FALSE) IN
         i \in ItemT /\ i.kind = Event /\ i.lines = p.lines /\ Adds(i) = Adds(p) /\ ~i.wakes
  BY DEF Item, ItemT, PendT, Newest, Adds

LEMMA WokenItem ==
  ASSUME NEW i \in ItemT
  PROVE  LET k == [i EXCEPT !.wakes = TRUE] IN
         k \in ItemT /\ k.kind = i.kind /\ k.lines = i.lines /\ Adds(k) = Adds(i)
  BY DEF ItemT, Newest, Adds

LEMMA ItemOrder ==
  ASSUME NEW q \in Seq(ItemT), NEW i \in ItemT, InOrder(q), Ascending(i.lines),
         AllBelow(q, i.lines)
  PROVE  InOrder(Append(q, i))
<1> DEFINE r == Append(q, i)
<1>1. /\ r[Len(q) + 1] = i /\ Len(q) + 1 \in DOMAIN r
      /\ \A k \in DOMAIN q : r[k] = q[k] /\ k \in DOMAIN r /\ k < Len(q) + 1
      /\ \A k \in DOMAIN r : k \in DOMAIN q \/ k = Len(q) + 1
      /\ \A k \in DOMAIN r : k \in Nat
  BY ItemAdded
<1> HIDE DEF r
<1>2. ASSUME NEW j \in DOMAIN r PROVE Ascending(r[j].lines)
  BY <1>1 DEF InOrder
<1>3. ASSUME NEW k \in DOMAIN r, NEW j \in DOMAIN r, k < j PROVE Below(r[k].lines, r[j].lines)
  <2>1. CASE j \in DOMAIN q
    <3>1. k \in DOMAIN q
      BY <2>1, <1>1, <1>3, ItemAdded
    <3> QED  BY <2>1, <3>1, <1>1, <1>3 DEF InOrder
  <2>2. CASE j = Len(q) + 1
    <3>1. k \in DOMAIN q
      BY <2>2, <1>1, <1>3, ItemAdded
    <3> QED  BY <2>2, <3>1, <1>1 DEF AllBelow
  <2> QED  BY <2>1, <2>2, <1>1
<1> QED  BY <1>2, <1>3 DEF InOrder, r

LEMMA ItemBelow ==
  ASSUME NEW q \in Seq(ItemT), NEW i \in ItemT, NEW p, AllBelow(q, p), Below(i.lines, p)
  PROVE  AllBelow(Append(q, i), p)
<1> DEFINE r == Append(q, i)
<1>1. /\ r[Len(q) + 1] = i
      /\ \A k \in DOMAIN q : r[k] = q[k]
      /\ \A k \in DOMAIN r : k \in DOMAIN q \/ k = Len(q) + 1
  BY ItemAdded
<1> HIDE DEF r
<1> QED  BY <1>1 DEF AllBelow, r

-----------------------------------------------------------------------------
(* NotifyCenter. *)

(* What it leaves alone: the registry's part of the state. *)
Registry(x) == <<x.entry, x.early, x.earlyExit, x.cursor, x.recovering, x.queued, x.buffer,
                 x.drops, x.evented, x.stopped, x.stopping, x.asked, x.taken>>

LEMMA EmptyPend == NoEvents \in PendT /\ NoEvents.lines = << >> /\ ~NoEvents.quiet
  BY Empty DEF NoEvents, PendT, Newest

(* A message with events is added to what the model was told. *)
LEMMA ToldMore ==
  ASSUME NEW x, NEW y \in State, Sane(x), Open(x), x.pend = NoEvents,
         NEW i \in ItemT, i.kind = Event, Ascending(i.lines), AllBelow(x.told, i.lines),
         Below(i.lines, x.buffer), UpTo(i.lines, x.cursor),
         Registry(y) = Registry(x), y.told = Append(x.told, i), y.held = x.held,
         y.pend = x.pend
  PROVE  /\ Sane(y) /\ Open(y)
         /\ Kept(y) = Kept(x) \cup Adds(i)
<1>1. x \in State /\ x.told \in Seq(ItemT)
  BY DEF Sane, State
<1>2. /\ y.told[Len(x.told) + 1] = i
      /\ \A k \in DOMAIN x.told : y.told[k] = x.told[k]
      /\ \A k \in DOMAIN y.told : k \in DOMAIN x.told \/ k = Len(x.told) + 1
  BY <1>1, ItemAdded
<1>3. Open(y)
  BY <1>2 DEF Open
<1>4. y.pend.lines = << >> /\ x.pend.lines = << >>
  BY DEF NoEvents
<1>5. InOrder(y.told) /\ AllBelow(y.told, y.pend.lines) /\ AllBelow(y.told, y.buffer)
  <2>1. InOrder(x.told) /\ AllBelow(x.told, x.buffer)
    BY DEF Sane, Ordered
  <2>2. InOrder(y.told)
    BY <1>1, <2>1, ItemOrder
  <2>3. AllBelow(y.told, x.buffer)
    BY <1>1, <2>1, ItemBelow
  <2>4. y.buffer = x.buffer
    BY DEF Registry
  <2> QED  BY <2>2, <2>3, <2>4, <1>4, Empty
<1>6. y.entry # "gone" => \A k \in DOMAIN y.told : UpTo(y.told[k].lines, y.cursor)
  BY <1>2 DEF Sane, Ordered, Registry
<1>7. Ordered(y)
  <2>1. y.pend = x.pend /\ y.buffer = x.buffer /\ y.cursor = x.cursor /\ y.entry = x.entry
    BY DEF Registry
  <2> QED  BY <2>1, <1>5, <1>6 DEF Ordered, Sane
<1>8. Sane(y)
  BY <1>3, <1>7 DEF Sane, Registry
<1>9. Kept(y) = Kept(x) \cup Adds(i)
  BY <1>1, ItemSets DEF Kept, Heard
<1> QED  BY <1>3, <1>8, <1>9

(* deliver, and a passive notice when the model is idle, of an event. *)
LEMMA DeliverEvent ==
  ASSUME NEW x, Sane(x), Open(x), x.pend = NoEvents,
         NEW i \in ItemT, i.kind = Event, Ascending(i.lines), AllBelow(x.told, i.lines),
         Below(i.lines, x.buffer), UpTo(i.lines, x.cursor)
  PROVE  LET y == Deliver(x, i) IN
         /\ Sane(y) /\ Open(y) /\ y.pend = NoEvents /\ Registry(y) = Registry(x)
         /\ y.agent = "busy" <=> x.agent = "busy"
         /\ Kept(y) = Kept(x) \cup Adds(i)
<1> DEFINE y == Deliver(x, i)
           k == [i EXCEPT !.wakes = TRUE]
<1>1. x \in State
  BY DEF Sane
<1>2. /\ k \in ItemT /\ k.kind = i.kind /\ k.lines = i.lines /\ Adds(k) = Adds(i)
  BY WokenItem
<1> HIDE DEF k
<1>3. /\ y \in State /\ Registry(y) = Registry(x) /\ y.told = Append(x.told, k)
      /\ y.held = x.held /\ y.pend = x.pend /\ (y.agent = "busy" <=> x.agent = "busy")
  <2>1. y = [x EXCEPT !.told = Append(@, k), !.runPending = TRUE,
                      !.agent = IF @ = "idle" THEN "starting" ELSE @]
    BY DEF Deliver, k
  <2>2. Append(x.told, k) \in Seq(ItemT)
    BY <1>1, <1>2 DEF State
  <2> HIDE DEF y
  <2> QED  BY <2>1, <2>2, <1>1 DEF State, Registry
<1> HIDE DEF y
<1> QED  BY <1>2, <1>3, ToldMore DEF y

LEMMA PassiveTold ==
  ASSUME NEW x, Sane(x), Open(x), x.pend = NoEvents, ~x.runPending, x.agent # "busy",
         NEW i \in ItemT, i.kind = Event, Ascending(i.lines), AllBelow(x.told, i.lines),
         Below(i.lines, x.buffer), UpTo(i.lines, x.cursor)
  PROVE  LET y == Passive(x, i) IN
         /\ Sane(y) /\ Open(y) /\ y.pend = NoEvents /\ Registry(y) = Registry(x)
         /\ y.agent = x.agent /\ y.runPending = x.runPending
         /\ Kept(y) = Kept(x) \cup Adds(i)
<1> DEFINE y == Passive(x, i)
<1>1. x \in State
  BY DEF Sane
<1>2. /\ y \in State /\ Registry(y) = Registry(x) /\ y.told = Append(x.told, i)
      /\ y.held = x.held /\ y.pend = x.pend /\ y.agent = x.agent
      /\ y.runPending = x.runPending
  <2>1. y = [x EXCEPT !.told = Append(@, i)]
    BY <1>1 DEF Passive, Idle, State
  <2>2. Append(x.told, i) \in Seq(ItemT)
    BY <1>1 DEF State
  <2> HIDE DEF y
  <2> QED  BY <2>1, <2>2, <1>1 DEF State, Registry
<1> HIDE DEF y
<1> QED  BY <1>2, ToldMore DEF y

(* The coalesced events leave the NotifyCenter's list. *)
LEMMA Uncoalesced ==
  ASSUME NEW x, Sane(x), Open(x)
  PROVE  LET y == [x EXCEPT !.pend = NoEvents]
             i == Item(Event, x.pend.lines, x.pend.more, x.pend.drops, FALSE) IN
         /\ Sane(y) /\ Open(y) /\ y.pend = NoEvents /\ Registry(y) = Registry(x)
         /\ y.agent = x.agent /\ y.runPending = x.runPending
         /\ i \in ItemT /\ i.kind = Event /\ Ascending(i.lines) /\ AllBelow(y.told, i.lines)
         /\ Below(i.lines, y.buffer) /\ UpTo(i.lines, y.cursor)
         /\ i.lines = x.pend.lines /\ ~i.wakes
         /\ Kept(x) = Kept(y) \cup Adds(i)
<1> DEFINE y == [x EXCEPT !.pend = NoEvents]
           i == Item(Event, x.pend.lines, x.pend.more, x.pend.drops, FALSE)
<1>1. x \in State /\ NoEvents \in PendT /\ x.pend \in PendT
  BY EmptyPend DEF Sane, State
<1>2. /\ y \in State /\ Registry(y) = Registry(x) /\ y.told = x.told /\ y.held = x.held
      /\ y.pend = NoEvents /\ y.agent = x.agent /\ y.runPending = x.runPending
      /\ y.buffer = x.buffer /\ y.cursor = x.cursor
  BY <1>1 DEF State, Registry
<1>3. i \in ItemT /\ i.kind = Event /\ i.lines = x.pend.lines /\ Adds(i) = Adds(x.pend) /\ ~i.wakes
  BY <1>1, PendItem
<1> HIDE DEF y, i
<1>4. Open(y)
  BY <1>2 DEF Open
<1>5. NoEvents.lines = << >> /\ Adds(NoEvents) = {}
  BY Empty DEF NoEvents
<1>6. Ordered(y)
  BY <1>2, <1>5, Empty DEF Ordered, Sane, Registry
<1>7. Sane(y)
  BY <1>2, <1>4, <1>6 DEF Sane, Registry
<1>8. Kept(x) = Kept(y) \cup Adds(i)
  BY <1>2, <1>3, <1>5, Empty DEF Kept, Heard
<1>9. Ascending(i.lines) /\ AllBelow(y.told, i.lines)
      /\ Below(i.lines, y.buffer) /\ UpTo(i.lines, y.cursor)
  BY <1>2, <1>3 DEF Sane, Ordered
<1> QED  BY <1>2, <1>3, <1>4, <1>7, <1>8, <1>9 DEF y, i

(* flushMonitor, when it need not be quiet. *)
LEMMA FlushLoud ==
  ASSUME NEW x, Sane(x), Open(x), ~x.pend.quiet
  PROVE  LET y == FlushMonitor(x, FALSE) IN
         /\ Sane(y) /\ Open(y) /\ y.pend = NoEvents /\ Registry(y) = Registry(x)
         /\ y.agent = "busy" <=> x.agent = "busy"
         /\ Kept(y) = Kept(x)
<1>1. CASE x.pend.lines = << >>
  BY <1>1 DEF FlushMonitor, Sane
<1>2. CASE x.pend.lines # << >>
  <2> DEFINE z == [x EXCEPT !.pend = NoEvents]
             i == Item(Event, x.pend.lines, x.pend.more, x.pend.drops, FALSE)
             y == Deliver(z, i)
  <2>1. FlushMonitor(x, FALSE) = y
    BY <1>2 DEF FlushMonitor
  <2>2. /\ Sane(z) /\ Open(z) /\ z.pend = NoEvents /\ Registry(z) = Registry(x)
        /\ z.agent = x.agent
        /\ i \in ItemT /\ i.kind = Event /\ Ascending(i.lines) /\ AllBelow(z.told, i.lines)
        /\ Below(i.lines, z.buffer) /\ UpTo(i.lines, z.cursor)
        /\ Kept(x) = Kept(z) \cup Adds(i)
    BY Uncoalesced
  <2> HIDE DEF z, i
  <2>3. /\ Sane(y) /\ Open(y) /\ y.pend = NoEvents /\ Registry(y) = Registry(z)
        /\ y.agent = "busy" <=> z.agent = "busy"
        /\ Kept(y) = Kept(z) \cup Adds(i)
    BY <2>2, DeliverEvent
  <2> HIDE DEF y
  <2> QED  BY <2>1, <2>2, <2>3
<1> QED  BY <1>1, <1>2

-----------------------------------------------------------------------------
(* The registry. *)

(* A batch that is taken from the batcher. *)
LEMMA Emptied ==
  ASSUME NEW x, Sane(x), NEW y \in State, y.buffer = << >>,
         y.told = x.told, y.held = x.held, y.pend = x.pend,
         y.cursor = x.cursor, x.entry = "gone" => y.entry = "gone",
         y.entry = "gone" \/ y.stopping # "none" => y.stopped
  PROVE  Sane(y) /\ Kept(y) = Kept(x) /\ (Open(x) <=> Open(y))
<1>1. Open(x) <=> Open(y)
  BY DEF Open
<1>2. Over(x) => Over(y)
  BY DEF Over, Shut, Sane
<1>3. Ordered(y)
  BY Empty DEF Sane, Ordered
<1>4. Kept(y) = Kept(x)
  BY DEF Kept, Heard
<1> QED  BY <1>1, <1>2, <1>3, <1>4 DEF Sane

LEMMA OpenTells ==
  ASSUME NEW x, Open(x)
  PROVE  NoExit(x.told) /\ NoExit(x.held)
  BY DEF Open, NoExit, Event

(* notifyMonitorEvent, of a batch. *)
LEMMA MonitorEventKeeps ==
  ASSUME NEW x, Sane(x), QuietOk(x), Open(x), x.buffer = << >>,
         NEW p \in Line, NEW d \in Line, p # << >>, Ascending(p), AllBelow(x.told, p),
         Below(x.pend.lines, p), UpTo(p, x.cursor)
  PROVE  LET y == MonitorEvent(x, p, d, x.asked) IN
         /\ Sane(y) /\ QuietOk(y) /\ Open(y) /\ Registry(y) = Registry(x)
         /\ y.agent = "busy" <=> x.agent = "busy"
         /\ Kept(y) = Kept(x) \cup ToSet(p) \cup ToSet(d)
<1> DEFINE w == [x EXCEPT !.pend = [lines |-> p, more |-> @.more \o @.lines,
                                    drops |-> @.drops \o d, quiet |-> @.quiet \/ x.asked]]
           i == Item(Event, p, << >>, d, FALSE)
           y == MonitorEvent(x, p, d, x.asked)
<1>1. /\ x \in State /\ x.pend \in PendT /\ x.asked \in BOOLEAN /\ x.cursor \in Nat
      /\ x.pend.lines \in Line /\ x.pend.more \in Line /\ x.pend.drops \in Line
      /\ x.pend.quiet \in BOOLEAN /\ Newest(x.pend)
  BY DEF Sane, State, PendT
<1>2. CASE Idle(x) /\ x.pend.lines = << >> /\ ~x.asked
  <2>1. y = Deliver(x, i)
    BY <1>2 DEF MonitorEvent
  <2>2. i \in ItemT /\ i.kind = Event /\ i.lines = p /\ Adds(i) = ToSet(p) \cup ToSet(d)
    BY EventItem
  <2>3. x.pend = NoEvents
    BY <1>2 DEF Sane
  <2>4. Below(i.lines, x.buffer)
    BY Empty
  <2> HIDE DEF i, y
  <2>5. /\ Sane(y) /\ Open(y) /\ y.pend = NoEvents /\ Registry(y) = Registry(x)
        /\ y.agent = "busy" <=> x.agent = "busy"
        /\ Kept(y) = Kept(x) \cup ToSet(p) \cup ToSet(d)
    BY <2>1, <2>2, <2>3, <2>4, DeliverEvent
  <2>6. QuietOk(y)
    BY <2>5 DEF QuietOk, NoEvents
  <2> QED  BY <2>5, <2>6 DEF y
<1>3. /\ Sane(w) /\ QuietOk(w) /\ Open(w) /\ Registry(w) = Registry(x)
      /\ w.agent = x.agent /\ w.asked = x.asked
      /\ Kept(w) = Kept(x) \cup ToSet(p) \cup ToSet(d)
      /\ w.pend.quiet <=> x.pend.quiet \/ x.asked
  <2> DEFINE pm == x.pend.more \o x.pend.lines
             pd == x.pend.drops \o d
             q == x.pend.quiet \/ x.asked
             n == [lines |-> p, more |-> pm, drops |-> pd, quiet |-> q]
  <2>1. /\ pm \in Line /\ ToSet(pm) = ToSet(x.pend.more) \cup ToSet(x.pend.lines)
        /\ pd \in Line /\ ToSet(pd) = ToSet(x.pend.drops) \cup ToSet(d)
    BY <1>1, LinesCat
  <2>2. Below(x.pend.more, p)
    <3>1. CASE x.pend.more = << >>
      BY <3>1, Empty
    <3>2. CASE x.pend.more # << >>
      <4>1. Below(x.pend.more, x.pend.lines) /\ x.pend.lines # << >>
        BY <3>2, <1>1 DEF Newest
      <4> QED  BY <4>1, <1>1, BelowThrough
    <3> QED  BY <3>1, <3>2
  <2>20. q \in BOOLEAN /\ (q <=> x.pend.quiet \/ x.asked)
    BY <1>1
  <2>21. w = [x EXCEPT !.pend = n]
    OBVIOUS
  <2> HIDE DEF pm, pd, q, w
  <2>22. /\ n \in PendT /\ n.lines = p /\ n.quiet = q
         /\ Adds(n) = Adds(x.pend) \cup ToSet(p) \cup ToSet(d)
    <3>1. n.lines = p /\ n.more = pm /\ n.drops = pd /\ n.quiet = q
      OBVIOUS
    <3>2. Below(pm, p)
      BY <2>1, <2>2 DEF Below
    <3>3. n \in PendT
      BY <2>1, <2>20, <3>2 DEF PendT, Newest
    <3> QED  BY <2>1, <3>1, <3>3 DEF Adds
  <2> HIDE DEF n
  <2>3. /\ w \in State /\ Registry(w) = Registry(x) /\ w.told = x.told /\ w.held = x.held
        /\ w.agent = x.agent /\ w.pend = n
        /\ w.buffer = << >> /\ w.cursor = x.cursor /\ w.asked = x.asked
    BY <2>22, <2>21, <1>1 DEF State, Registry
  <2>4. Open(w)
    BY <2>3 DEF Open
  <2>8. Ordered(w)
    BY <2>3, <2>22, Empty DEF Sane, Ordered, Registry
  <2>9. Sane(w)
    BY <2>22, <2>3, <2>4, <2>8 DEF Sane, Registry
  <2>10. Kept(w) = Kept(x) \cup ToSet(p) \cup ToSet(d)
    BY <2>3, <2>22 DEF Kept, Heard
  <2>11. QuietOk(w)
    BY <1>1, <2>3, <2>22, <2>20 DEF QuietOk
  <2> QED  BY <2>20, <2>22, <2>3, <2>4, <2>9, <2>10, <2>11
<1>4. CASE Idle(x) /\ x.pend.lines # << >> /\ ~x.asked
  <2>1. y = FlushMonitor(w, FALSE)
    BY <1>4 DEF MonitorEvent
  <2>2. ~w.pend.quiet
    BY <1>3, <1>4 DEF QuietOk, Idle
  <2> HIDE DEF w, y
  <2>3. /\ Sane(y) /\ Open(y) /\ y.pend = NoEvents /\ Registry(y) = Registry(w)
        /\ y.agent = "busy" <=> w.agent = "busy"
        /\ Kept(y) = Kept(w)
    BY <2>1, <2>2, <1>3, FlushLoud
  <2>4. QuietOk(y)
    BY <2>3 DEF QuietOk, NoEvents
  <2> QED  BY <2>3, <2>4, <1>3 DEF y
<1>5. CASE ~(Idle(x) /\ ~x.asked)
  <2>1. y = w
    BY <1>5 DEF MonitorEvent
  <2> QED  BY <2>1, <1>3
<1> QED  BY <1>2, <1>4, <1>5

(* What an operator of the registry does to the rest of the state. *)
Leads(x, y) ==
  /\ Good(y) /\ y.asked = x.asked /\ (y.agent = "busy" <=> x.agent = "busy")
  /\ x.stopping # "none" => y.stopping = x.stopping /\ (Open(x) => Open(y))
  /\ y.stopping # x.stopping => Open(y)

LEMMA LeadsItself == ASSUME NEW x, Good(x) PROVE Leads(x, x)
  BY DEF Leads

LEMMA LeadsOn == ASSUME NEW x, NEW y, NEW z, Leads(x, y), Leads(y, z) PROVE Leads(x, z)
  BY DEF Leads

(* onBatch *)
LEMMA OnBatchKeeps ==
  ASSUME NEW x, Good(x), NEW ok \in BOOLEAN, NEW full \in BOOLEAN
  PROVE  LET y == OnBatch(x, ok, full) IN
         /\ Leads(x, y) /\ y.buffer = << >> /\ y.entry = x.entry /\ y.cursor = x.cursor
         /\ Open(x) => Open(y)
         /\ x.stopped => y.stopped /\ y.stopping = x.stopping
         /\ ~y.stopped => y.stopping = "none"
         /\ ~full => y.stopping = x.stopping /\ y.stopped = x.stopped
<1> DEFINE y == OnBatch(x, ok, full)
           z == [x EXCEPT !.buffer = << >>]
<1>1. /\ x \in State /\ Sane(x) /\ QuietOk(x) /\ Tells(x)
      /\ x.buffer \in Line /\ x.drops \in Line /\ x.cursor \in Nat
      /\ x.stopped \in BOOLEAN /\ x.stopping \in {"none", "timeout", "limit"}
  BY DEF Good, Sane, State
<1>2. x.buffer = << >> => Leads(x, x)
  BY LeadsItself
<1>3. CASE x.buffer = << >> \/ x.stopped
  <2>1. y = z
    BY <1>3 DEF OnBatch
  <2>2. /\ z \in State /\ z.buffer = << >> /\ z.told = x.told /\ z.held = x.held
        /\ z.pend = x.pend /\ z.cursor = x.cursor /\ z.entry = x.entry
        /\ z.stopped = x.stopped /\ z.stopping = x.stopping /\ z.asked = x.asked
        /\ z.agent = x.agent /\ z.taken = x.taken /\ z.drops = x.drops
    BY <1>1, Empty DEF State
  <2> HIDE DEF z, y
  <2>3. Sane(z) /\ Kept(z) = Kept(x) /\ (Open(x) <=> Open(z))
    <3>1. z.entry = "gone" \/ z.stopping # "none" => z.stopped
      BY <1>1, <2>2 DEF Sane
    <3> QED  BY <1>1, <2>2, <3>1, Emptied
  <2>4. Tells(z)
    <3>1. CASE x.buffer = << >>
      BY <3>1, <1>1, <2>2, <2>3 DEF Tells
    <3>2. CASE x.stopped /\ Open(x)
      BY <3>2, <2>2, OpenTells DEF Tells
    <3>3. CASE x.buffer # << >> /\ ~Open(x)
      BY <3>3, <1>1 DEF Sane, Over
    <3> QED  BY <3>1, <3>2, <3>3, <1>3
  <2>5. QuietOk(z)
    BY <1>1, <2>2 DEF QuietOk
  <2> QED  BY <2>1, <2>2, <2>3, <2>4, <2>5, <1>1 DEF Leads, Good, Sane, y
<1>4. CASE x.buffer # << >> /\ ~x.stopped
  <2>1. /\ x.entry # "gone" /\ Open(x) /\ x.stopping = "none"
        /\ ToSet(x.taken) = Kept(x) \cup ToSet(x.buffer) \cup ToSet(x.drops)
    BY <1>1, <1>4 DEF Sane, Over, Tells
  <2>2. CASE ok
    <3> DEFINE w == [z EXCEPT !.drops = << >>, !.evented = TRUE]
    <3>1. y = MonitorEvent(w, x.buffer, x.drops, x.asked)
      BY <1>4, <2>2 DEF OnBatch
    <3>2. /\ w \in State /\ w.buffer = << >> /\ w.told = x.told /\ w.held = x.held
          /\ w.pend = x.pend /\ w.cursor = x.cursor /\ w.entry = x.entry
          /\ w.stopped = x.stopped /\ w.stopping = x.stopping /\ w.asked = x.asked
          /\ w.agent = x.agent /\ w.taken = x.taken /\ w.drops = << >>
      BY <1>1, Empty DEF State
    <3> HIDE DEF w, y, z
    <3>3. Sane(w) /\ Kept(w) = Kept(x) /\ Open(w)
      <4>1. w.entry = "gone" \/ w.stopping # "none" => w.stopped
        BY <2>1, <3>2
      <4> QED  BY <1>1, <2>1, <3>2, <4>1, Emptied
    <3>4. QuietOk(w)
      BY <1>1, <3>2 DEF QuietOk
    <3>5. /\ Ascending(x.buffer) /\ AllBelow(w.told, x.buffer)
          /\ Below(w.pend.lines, x.buffer) /\ UpTo(x.buffer, w.cursor)
      BY <1>1, <3>2 DEF Sane, Ordered
    <3>6. /\ Sane(y) /\ QuietOk(y) /\ Open(y) /\ Registry(y) = Registry(w)
          /\ y.agent = "busy" <=> w.agent = "busy"
          /\ Kept(y) = Kept(w) \cup ToSet(x.buffer) \cup ToSet(x.drops)
      BY <1>1, <1>4, <3>1, <3>2, <3>3, <3>4, <3>5, MonitorEventKeeps
    <3>7. /\ y.entry = x.entry /\ y.cursor = x.cursor /\ y.buffer = << >> /\ y.drops = << >>
          /\ y.stopped = x.stopped /\ y.stopping = x.stopping /\ y.asked = x.asked
          /\ y.taken = x.taken
      BY <3>2, <3>6 DEF Registry
    <3>8. Tells(y)
      BY <2>1, <3>3, <3>6, <3>7, Empty DEF Tells
    <3> QED  BY <2>1, <3>2, <3>6, <3>7, <3>8, <1>4 DEF Leads, Good, y
  <2>3. CASE ~ok
    <3> DEFINE d == x.drops \o x.buffer
               lim == full /\ ~x.asked
    <3>1. d \in Line /\ ToSet(d) = ToSet(x.drops) \cup ToSet(x.buffer)
      BY <1>1, LinesCat
    <3>2. y = IF lim THEN [z EXCEPT !.drops = d, !.stopped = TRUE, !.stopping = "limit"]
              ELSE [z EXCEPT !.drops = d]
      BY <1>1, <1>4, <2>3 DEF OnBatch, State
    <3> HIDE DEF d, y
    <3>3. /\ y \in State /\ y.buffer = << >> /\ y.told = x.told /\ y.held = x.held
          /\ y.pend = x.pend /\ y.cursor = x.cursor /\ y.entry = x.entry
          /\ y.asked = x.asked /\ y.agent = x.agent /\ y.taken = x.taken /\ y.drops = d
          /\ lim => y.stopped /\ y.stopping = "limit"
          /\ ~lim => y.stopped = x.stopped /\ y.stopping = x.stopping
      BY <1>1, <3>1, <3>2, Empty DEF State
    <3> HIDE DEF lim
    <3>4. Sane(y) /\ Kept(y) = Kept(x) /\ Open(y)
      <4>1. y.entry = "gone" \/ y.stopping # "none" => y.stopped
        BY <2>1, <3>3
      <4> QED  BY <1>1, <2>1, <3>3, <4>1, Emptied
    <3>5. QuietOk(y)
      BY <1>1, <3>3 DEF QuietOk
    <3>6. Tells(y)
      BY <2>1, <3>1, <3>3, <3>4, Empty DEF Tells
    <3>7. ~full => ~lim
      BY DEF lim
    <3>8. y.stopping = "none" \/ y.stopped
      BY <3>4 DEF Sane
    <3> QED  BY <1>4, <2>1, <3>3, <3>4, <3>5, <3>6, <3>7, <3>8 DEF Leads, Good, y
  <2> QED  BY <2>2, <2>3
<1> QED  BY <1>3, <1>4

LEMMA SpanLines ==
  ASSUME NEW a \in Nat, NEW b \in Nat, a < b
  PROVE  /\ Span(a, b) \in Line /\ Ascending(Span(a, b))
         /\ \A l \in ToSet(Span(a, b)) : l \in Nat /\ a < l /\ l <= b
<1> DEFINE q == Span(a, b)
<1>1. q = [i \in 1..(b - a) |-> a + i] /\ b - a \in Nat
  BY DEF Span
<1>2. q \in Line /\ DOMAIN q = 1..(b - a)
  BY <1>1 DEF Line
<1>3. \A i \in DOMAIN q : q[i] \in Nat /\ a < q[i] /\ q[i] <= b
  BY <1>1, <1>2
<1>4. Ascending(q)
  BY <1>1, <1>2 DEF Ascending
<1> HIDE DEF q
<1> QED  BY <1>2, <1>3, <1>4 DEF ToSet, q

LEMMA Numbers ==
  ASSUME NEW x \in State
  PROVE  /\ x.cursor \in Nat
         /\ \A l \in ToSet(x.buffer) : l \in Nat
         /\ \A l \in ToSet(x.pend.lines) : l \in Nat
         /\ \A i \in DOMAIN x.told : \A l \in ToSet(x.told[i].lines) : l \in Nat
<1>1. \A p \in Line : \A l \in ToSet(p) : l \in Nat
  BY DEF Line, ToSet
<1>2. x.cursor \in Nat /\ x.buffer \in Line /\ x.pend.lines \in Line
  BY DEF State, PendT
<1>3. ASSUME NEW i \in DOMAIN x.told PROVE x.told[i].lines \in Line
  <2>1. x.told \in Seq(ItemT)
    BY DEF State
  <2>2. x.told[i] \in ItemT
    BY <2>1
  <2> QED  BY <2>2 DEF ItemT
<1> QED  BY <1>1, <1>2, <1>3

(* What acceptOutput may change: the cursor, the batch and what was taken. *)
Accepts(x, y) ==
  /\ Leads(x, y) /\ y.entry = x.entry /\ y.stopped = x.stopped /\ y.stopping = x.stopping

LEMMA AcceptKeeps ==
  ASSUME NEW x, Good(x), NEW o \in Out
  PROVE  Accepts(x, Accept(x, o))
<1> DEFINE start == IF o.from < x.cursor THEN x.cursor ELSE o.from
           new == Span(start, o.to)
           y == Accept(x, o)
<1>1. /\ x \in State /\ Sane(x) /\ QuietOk(x) /\ Tells(x) /\ x.cursor \in Nat
      /\ x.buffer \in Line /\ x.taken \in Line
  BY DEF Good, Sane, State
<1>2. o.from \in Nat /\ o.to \in Nat /\ o.from < o.to
  BY DEF Out
<1>3. CASE o.to <= x.cursor
  <2>1. y = x
    BY <1>3 DEF Accept
  <2> QED  BY <2>1, LeadsItself DEF Accepts
<1>4. CASE o.to > x.cursor /\ x.entry = "gone"
  <2>1. y = [x EXCEPT !.cursor = o.to]
    BY <1>1, <1>2, <1>4 DEF Accept
  <2> HIDE DEF y
  <2>2. /\ y \in State /\ y.cursor = o.to /\ y.told = x.told /\ y.held = x.held
        /\ y.pend = x.pend /\ y.buffer = x.buffer /\ y.entry = x.entry
        /\ y.stopped = x.stopped /\ y.stopping = x.stopping /\ y.asked = x.asked
        /\ y.agent = x.agent /\ y.taken = x.taken /\ y.drops = x.drops
    BY <1>1, <1>2, <2>1 DEF State
  <2>3. UpTo(y.buffer, y.cursor) /\ UpTo(y.pend.lines, y.cursor)
    <3>1. \A p : UpTo(p, x.cursor) /\ (\A l \in ToSet(p) : l \in Nat) => UpTo(p, o.to)
      BY <1>1, <1>2, <1>4 DEF UpTo
    <3>2. UpTo(x.buffer, x.cursor) /\ UpTo(x.pend.lines, x.cursor)
      BY <1>1 DEF Sane, Ordered
    <3> QED  BY <1>1, <2>2, <3>1, <3>2, Numbers
  <2>4. Ordered(y)
    BY <1>1, <1>4, <2>2, <2>3 DEF Sane, Ordered
  <2>5. (Open(x) <=> Open(y)) /\ (Over(x) => Over(y)) /\ Kept(y) = Kept(x)
    BY <2>2 DEF Open, Over, Shut, Kept, Heard
  <2>6. Sane(y) /\ QuietOk(y) /\ Tells(y)
    <3>1. Sane(y)
      BY <1>1, <2>2, <2>4, <2>5 DEF Sane
    <3>2. QuietOk(y)
      BY <1>1, <2>2 DEF QuietOk
    <3>3. Tells(y)
      BY <1>1, <2>2, <2>5 DEF Tells
    <3> QED  BY <3>1, <3>2, <3>3
  <2> QED  BY <2>2, <2>5, <2>6 DEF Accepts, Leads, Good, y
<1>5. CASE o.to > x.cursor /\ x.entry # "gone"
  <2>1. /\ new \in Line /\ Ascending(new)
        /\ \A l \in ToSet(new) : l \in Nat /\ x.cursor < l /\ l <= o.to
    <3>1. start \in Nat /\ start < o.to /\ x.cursor <= start
      BY <1>1, <1>2, <1>5
    <3> HIDE DEF start
    <3>2. /\ new \in Line /\ Ascending(new)
          /\ \A l \in ToSet(new) : l \in Nat /\ start < l /\ l <= o.to
      BY <1>2, <3>1, SpanLines
    <3> QED  BY <1>1, <3>1, <3>2
  <2>2. y = [x EXCEPT !.cursor = o.to, !.buffer = @ \o new, !.taken = @ \o new]
    BY <1>1, <1>2, <1>5 DEF Accept
  <2> HIDE DEF new, y
  <2>3. /\ x.buffer \o new \in Line /\ ToSet(x.buffer \o new) = ToSet(x.buffer) \cup ToSet(new)
        /\ x.taken \o new \in Line /\ ToSet(x.taken \o new) = ToSet(x.taken) \cup ToSet(new)
    BY <1>1, <2>1, LinesCat
  <2>4. /\ y \in State /\ y.cursor = o.to /\ y.told = x.told /\ y.held = x.held
        /\ y.pend = x.pend /\ y.buffer = x.buffer \o new /\ y.entry = x.entry
        /\ y.stopped = x.stopped /\ y.stopping = x.stopping /\ y.asked = x.asked
        /\ y.agent = x.agent /\ y.taken = x.taken \o new /\ y.drops = x.drops
    BY <1>1, <1>2, <2>2, <2>3 DEF State
  <2>5. \A p : UpTo(p, x.cursor) /\ (\A l \in ToSet(p) : l \in Nat) =>
                 UpTo(p, o.to) /\ Below(p, new)
    BY <1>1, <1>2, <1>5, <2>1 DEF UpTo, Below
  <2>6. /\ UpTo(x.buffer, x.cursor) /\ UpTo(x.pend.lines, x.cursor)
        /\ \A i \in DOMAIN x.told : UpTo(x.told[i].lines, x.cursor)
        /\ Ascending(x.buffer) /\ Below(x.pend.lines, x.buffer) /\ AllBelow(x.told, x.buffer)
    BY <1>1, <1>5 DEF Sane, Ordered
  <2>7. UpTo(y.pend.lines, y.cursor) /\ Below(y.pend.lines, y.buffer)
    <3>1. UpTo(x.pend.lines, o.to) /\ Below(x.pend.lines, new)
      BY <1>1, <2>5, <2>6, Numbers
    <3> QED  BY <3>1, <2>3, <2>4, <2>6 DEF Below
  <2>8. UpTo(y.buffer, y.cursor) /\ Ascending(y.buffer)
    <3>1. UpTo(x.buffer, o.to) /\ Below(x.buffer, new)
      BY <1>1, <2>5, <2>6, Numbers
    <3>2. UpTo(new, o.to)
      BY <2>1 DEF UpTo
    <3>3. Ascending(x.buffer \o new)
      BY <3>1, <1>1, <2>1, <2>6, AscendingCat
    <3> QED  BY <3>1, <3>2, <3>3, <2>3, <2>4 DEF UpTo
  <2>9. \A i \in DOMAIN y.told : UpTo(y.told[i].lines, y.cursor) /\ Below(y.told[i].lines, y.buffer)
    <3>1. ASSUME NEW i \in DOMAIN x.told
          PROVE  UpTo(x.told[i].lines, o.to) /\ Below(x.told[i].lines, new)
      BY <1>1, <2>5, <2>6, Numbers
    <3>2. \A i \in DOMAIN x.told : Below(x.told[i].lines, x.buffer)
      BY <2>6 DEF AllBelow
    <3> QED  BY <3>1, <3>2, <2>3, <2>4 DEF Below
  <2>10. Ordered(y)
    BY <1>1, <2>4, <2>7, <2>8, <2>9 DEF Sane, Ordered, AllBelow
  <2>11. Open(x) /\ Open(y) /\ Kept(y) = Kept(x)
    <3>1. Open(x)
      BY <1>1, <1>5 DEF Sane, Over
    <3> QED  BY <2>4, <3>1 DEF Open, Kept, Heard
  <2>12. Sane(y)
    BY <1>1, <1>5, <2>4, <2>10, <2>11 DEF Sane
  <2>13. QuietOk(y)
    BY <1>1, <2>4 DEF QuietOk
  <2>14. Tells(y)
    BY <1>1, <2>3, <2>4, <2>11 DEF Tells
  <2> QED  BY <2>4, <2>11, <2>12, <2>13, <2>14 DEF Accepts, Leads, Good, y
<1> QED  BY <1>1, <1>2, <1>3, <1>4, <1>5

(* The recursion of AcceptAll exists. *)
Unfolds(f, x, os) ==
  f = [n \in 0..Len(os) |-> IF n = 0 THEN x ELSE Accept(f[n - 1], os[n])]

LEMMA AfterExists == ASSUME NEW x, NEW os, Len(os) \in Nat PROVE \E f : Unfolds(f, x, os)
<1> DEFINE G(f, k) == f = [n \in 0..k |-> IF n = 0 THEN x ELSE Accept(f[n - 1], os[n])]
           T == {k \in Nat : \E f : G(f, k)}
<1>1. 0 \in T
  <2> DEFINE f == [n \in 0..0 |-> x]
  <2>1. f = [n \in 0..0 |-> IF n = 0 THEN x ELSE Accept(f[n - 1], os[n])]
    <3>1. \A n \in 0..0 : n = 0
      OBVIOUS
    <3> QED  BY <3>1
  <2> QED  BY <2>1
<1>2. ASSUME NEW k \in Nat, k \in T PROVE k + 1 \in T
  <2>1. PICK f : f = [n \in 0..k |-> IF n = 0 THEN x ELSE Accept(f[n - 1], os[n])]
    BY <1>2
  <2> DEFINE g == [n \in 0..(k + 1) |-> IF n = k + 1 THEN Accept(f[k], os[k + 1]) ELSE f[n]]
             h == [n \in 0..(k + 1) |-> IF n = 0 THEN x ELSE Accept(g[n - 1], os[n])]
  <2>2. ASSUME NEW n \in 0..(k + 1) PROVE g[n] = h[n]
    <3>1. CASE n = 0
      <4>1. 0 \in 0..k /\ 0 \in 0..(k + 1) /\ 0 # k + 1
        OBVIOUS
      <4>2. f[0] = x
        BY <2>1, <4>1
      <4> QED  BY <3>1, <4>1, <4>2
    <3>2. CASE n # 0 /\ n # k + 1
      <4>1. n \in 0..k /\ n - 1 \in 0..k /\ n - 1 \in 0..(k + 1) /\ n - 1 # k + 1
        BY <3>2
      <4>2. f[n] = Accept(f[n - 1], os[n])
        BY <2>1, <3>2, <4>1
      <4>3. g[n - 1] = f[n - 1] /\ g[n] = f[n]
        BY <3>2, <4>1
      <4>4. h[n] = Accept(g[n - 1], os[n])
        BY <3>2
      <4> HIDE DEF g, h
      <4> QED  BY <4>2, <4>3, <4>4
    <3>3. CASE n = k + 1
      <4>1. k \in 0..(k + 1) /\ k # k + 1 /\ n - 1 = k /\ n # 0
        BY <3>3
      <4>2. g[k] = f[k] /\ g[n] = Accept(f[k], os[k + 1])
        BY <3>3, <4>1
      <4>3. h[n] = Accept(g[n - 1], os[n])
        BY <4>1
      <4> HIDE DEF g, h
      <4> QED  BY <3>3, <4>1, <4>2, <4>3
    <3> QED  BY <3>1, <3>2, <3>3
  <2>3. g = h
    <3>1. DOMAIN g = 0..(k + 1) /\ DOMAIN h = 0..(k + 1)
      OBVIOUS
    <3>2. g = [n \in DOMAIN g |-> g[n]] /\ h = [n \in DOMAIN h |-> h[n]]
      OBVIOUS
    <3> HIDE DEF g, h
    <3> QED  BY <3>1, <3>2, <2>2
  <2>4. G(g, k + 1)
    BY <2>3
  <2> HIDE DEF G
  <2> QED  BY <2>4
<1>3. Nat \subseteq T
  <2> HIDE DEF T
  <2> QED  BY <1>1, <1>2, ZeroUp
<1>4. PICK f : G(f, Len(os))
  BY <1>3
<1>5. Unfolds(f, x, os)
  BY <1>4 DEF Unfolds
<1> QED  BY <1>5

LEMMA AcceptAllKeeps ==
  ASSUME NEW x, Good(x), NEW os \in Seq(Out)
  PROVE  Accepts(x, AcceptAll(x, os))
<1> DEFINE F(f) == f = [n \in 0..Len(os) |-> IF n = 0 THEN x ELSE Accept(f[n - 1], os[n])]
<1>1. Len(os) \in Nat
  OBVIOUS
<1>2. \E f : F(f)
  <2>1. PICK f : Unfolds(f, x, os)
    BY <1>1, AfterExists
  <2>2. F(f)
    BY <2>1 DEF Unfolds
  <2> HIDE DEF F
  <2> QED  BY <2>2
<1>3. PICK f : f = CHOOSE g : F(g)
  OBVIOUS
<1>4. F(f)
  BY <1>2, <1>3
<1>5. AcceptAll(x, os) = f[Len(os)]
  BY <1>3 DEF AcceptAll
<1>6. f[0] = x /\ \A n \in 1..Len(os) : f[n] = Accept(f[n - 1], os[n])
  BY <1>1, <1>4
<1> DEFINE T == {n \in Nat : n <= Len(os) => Accepts(x, f[n])}
<1>7. 0 \in T
  BY <1>6, LeadsItself DEF Accepts
<1>8. ASSUME NEW n \in Nat, n \in T PROVE n + 1 \in T
  <2> SUFFICES ASSUME n + 1 <= Len(os) PROVE Accepts(x, f[n + 1])
    OBVIOUS
  <2>1. n <= Len(os) /\ n + 1 \in 1..Len(os) /\ (n + 1) - 1 = n
    BY <1>1
  <2>2. Accepts(x, f[n])
    BY <1>8, <2>1
  <2>3. f[n + 1] = Accept(f[n], os[n + 1]) /\ os[n + 1] \in Out
    BY <1>6, <2>1
  <2>4. Good(f[n])
    BY <2>2 DEF Accepts, Leads
  <2>5. Accepts(f[n], f[n + 1])
    BY <2>3, <2>4, AcceptKeeps
  <2>6. Leads(x, f[n + 1])
    BY <2>2, <2>5, LeadsOn DEF Accepts
  <2> QED  BY <2>2, <2>5, <2>6 DEF Accepts
<1>9. Nat \subseteq T
  <2> HIDE DEF T
  <2> QED  BY <1>7, <1>8, ZeroUp
<1> QED  BY <1>1, <1>5, <1>9

(* Sorting by cursor yields a sequence of the outputs that were queued. *)
LEMMA ByCursorType == ASSUME NEW q \in Seq(Out) PROVE ByCursor(q) \in Seq(Out)
<1> DEFINE n == Len(q)
           D == 1..n
           B(k) == {j \in D : q[j].to < q[k].to \/ (q[j].to = q[k].to /\ j < k)}
           R == [k \in D |-> Cardinality(B(k)) + 1]
<1>1. n \in Nat /\ DOMAIN q = D /\ \A k \in D : q[k] \in Out /\ q[k].to \in Nat
  BY DEF Out
<1>2. IsFiniteSet(D) /\ Cardinality(D) = n
  <2>1. \A m \in Nat : IsFiniteSet(1..m) /\ Cardinality(1..m) = m
    <3> TAKE m \in Nat
    <3>1. 1 \in Int /\ m \in Int /\ (1 > m => m = 0) /\ m - 1 + 1 = m
      OBVIOUS
    <3>2. IsFiniteSet(1..m) /\ Cardinality(1..m) = IF 1 > m THEN 0 ELSE m - 1 + 1
      BY <3>1, FS_Interval
    <3> QED  BY <3>1, <3>2
  <2> HIDE DEF n
  <2> QED  BY <2>1, <1>1
<1>3. ASSUME NEW k \in D
      PROVE  /\ IsFiniteSet(B(k)) /\ Cardinality(B(k)) \in Nat /\ Cardinality(B(k)) + 1 \in D
  <2>1. B(k) \subseteq D \ {k}
    BY <1>1
  <2>2. IsFiniteSet(D \ {k}) /\ Cardinality(D \ {k}) = n - 1
    BY <1>2, FS_RemoveElement
  <2> HIDE DEF B
  <2>3. IsFiniteSet(B(k)) /\ Cardinality(B(k)) <= n - 1
    BY <2>1, <2>2, FS_Subset
  <2>4. Cardinality(B(k)) \in Nat
    BY <2>3, FS_CardinalityType
  <2> QED  BY <1>1, <2>3, <2>4
<1>4. ASSUME NEW j \in D, NEW k \in D, j \in B(k) PROVE Cardinality(B(j)) < Cardinality(B(k))
  <2>1. B(j) \subseteq B(k) /\ j \notin B(j)
    BY <1>1, <1>4
  <2>2. IsFiniteSet(B(k)) /\ IsFiniteSet(B(j))
        /\ Cardinality(B(k)) \in Nat /\ Cardinality(B(j)) \in Nat
    BY <1>3
  <2> HIDE DEF B
  <2>3. Cardinality(B(j)) <= Cardinality(B(k))
        /\ (Cardinality(B(k)) = Cardinality(B(j)) => B(k) = B(j))
    BY <2>1, <2>2, FS_Subset
  <2> QED  BY <2>1, <2>2, <2>3, <1>4
<1>5. ASSUME NEW j \in D, NEW k \in D, j # k PROVE R[j] # R[k]
  <2>1. j \in B(k) \/ k \in B(j)
    BY <1>1, <1>5
  <2>2. Cardinality(B(j)) \in Nat /\ Cardinality(B(k)) \in Nat
    BY <1>3
  <2> HIDE DEF B
  <2> QED  BY <2>1, <2>2, <1>4
<1>6. ASSUME NEW i \in D PROVE \E k \in D : R[k] = i
  <2> SUFFICES ASSUME \A k \in D : R[k] # i PROVE FALSE
    OBVIOUS
  <2>1. R \in [D -> D \ {i}]
    BY <1>3
  <2> HIDE DEF R, B, n
  <2>2. IsFiniteSet(D \ {i}) /\ Cardinality(D \ {i}) = Cardinality(D) - 1
    BY <1>2, FS_RemoveElement
  <2>20. Cardinality(D \ {i}) < Cardinality(D)
    BY <1>1, <1>2, <2>2
  <2>3. \E j, k \in D : j # k /\ R[j] = R[k]
    BY <1>2, <2>1, <2>2, <2>20, FS_PigeonHole
  <2> QED  BY <2>3, <1>5
<1>7. ASSUME NEW i \in D
      PROVE  (CHOOSE k \in DOMAIN q : Cardinality(B(k)) = i - 1) \in D
  <2>1. PICK k \in D : R[k] = i
    BY <1>6
  <2>10. R[k] = Cardinality(B(k)) + 1 /\ Cardinality(B(k)) \in Nat
    BY <1>3
  <2> HIDE DEF B, R
  <2>2. Cardinality(B(k)) = i - 1
    BY <2>1, <2>10
  <2> QED  BY <2>2, <1>1
<1>8. ByCursor(q) = [i \in D |-> q[CHOOSE k \in DOMAIN q : Cardinality(B(k)) = i - 1]]
  BY <1>1 DEF ByCursor
<1> HIDE DEF B, R
<1>9. ASSUME NEW i \in D PROVE ByCursor(q)[i] \in Out
  <2>1. PICK k : k = CHOOSE m \in DOMAIN q : Cardinality(B(m)) = i - 1
    OBVIOUS
  <2>2. k \in D
    BY <2>1, <1>7
  <2>3. ByCursor(q)[i] = q[k]
    BY <2>1, <1>8
  <2> QED  BY <2>2, <2>3, <1>1
<1>10. ByCursor(q) \in [D -> Out]
  <2>1. \A g : g = [i \in D |-> q[CHOOSE k \in DOMAIN q : Cardinality(B(k)) = i - 1]]
                => g = [i \in D |-> g[i]]
    OBVIOUS
  <2>2. ByCursor(q) = [i \in D |-> ByCursor(q)[i]]
    BY <2>1, <1>8
  <2> HIDE DEF D
  <2> QED  BY <2>2, <1>9
<1>11. \A g \in [1..n -> Out] : g \in Seq(Out)
  BY <1>1
<1> QED  BY <1>10, <1>11

-----------------------------------------------------------------------------
(* The end of the monitor. *)

(* Between its last events and its end. *)
Between(x) ==
  /\ x \in State /\ Ordered(x) /\ x.pend = NoEvents
  /\ \A k \in DOMAIN x.told : x.told[k].kind = Event
  /\ \A k \in DOMAIN x.held : x.held[k].kind = Event /\ ~x.held[k].wakes
  /\ InOrder(x.held) /\ \A k \in DOMAIN x.held : AllBelow(x.told, x.held[k].lines)

LEMMA OpenBetween ==
  ASSUME NEW x, Sane(x), Open(x), x.pend = NoEvents
  PROVE  Between(x) /\ Heard(x) = Kept(x)
<1>1. DOMAIN << >> = {}
  OBVIOUS
<1>2. Between(x)
  BY <1>1, Empty DEF Between, Sane, Open
<1>4. Heard(x) = Kept(x)
  BY Empty DEF Kept
<1> QED  BY <1>2, <1>4

(* flushMonitor: what is coalesced is told, or held when it is to be quiet. *)
LEMMA FlushAll ==
  ASSUME NEW x, Sane(x), Open(x), NEW quiet \in BOOLEAN
  PROVE  LET y == FlushMonitor(x, quiet) IN
         /\ Between(y) /\ Registry(y) = Registry(x) /\ Heard(y) = Kept(x)
         /\ y.agent = "busy" <=> x.agent = "busy"
<1>1. x.pend.quiet \in BOOLEAN /\ x \in State
  BY DEF Sane, State, PendT
<1>2. CASE ~quiet /\ ~x.pend.quiet
  <2> DEFINE y == FlushMonitor(x, FALSE)
  <2>1. FlushMonitor(x, quiet) = y
    BY <1>2
  <2>2. /\ Sane(y) /\ Open(y) /\ y.pend = NoEvents /\ Registry(y) = Registry(x)
        /\ y.agent = "busy" <=> x.agent = "busy"
        /\ Kept(y) = Kept(x)
    BY <1>2, FlushLoud
  <2> HIDE DEF y
  <2>3. Between(y) /\ Heard(y) = Kept(y)
    BY <2>2, OpenBetween
  <2> QED  BY <2>1, <2>2, <2>3
<1>3. CASE x.pend.lines = << >>
  <2>1. FlushMonitor(x, quiet) = x /\ x.pend = NoEvents
    BY <1>3 DEF FlushMonitor, Sane
  <2> QED  BY <2>1, OpenBetween
<1>4. CASE x.pend.lines # << >> /\ (quiet \/ x.pend.quiet)
  <2> DEFINE z == [x EXCEPT !.pend = NoEvents]
             i == Item(Event, x.pend.lines, x.pend.more, x.pend.drops, FALSE)
             y == Passive(z, i)
  <2>1. FlushMonitor(x, quiet) = y
    BY <1>4 DEF FlushMonitor
  <2>2. /\ Sane(z) /\ Open(z) /\ z.pend = NoEvents /\ Registry(z) = Registry(x)
        /\ z.agent = x.agent
        /\ i \in ItemT /\ i.kind = Event /\ Ascending(i.lines) /\ AllBelow(z.told, i.lines)
        /\ Below(i.lines, z.buffer) /\ UpTo(i.lines, z.cursor)
        /\ Kept(x) = Kept(z) \cup Adds(i)
    BY Uncoalesced
  <2>3. ~i.wakes
    BY Uncoalesced
  <2> HIDE DEF z, i
  <2>4. CASE ~z.runPending /\ z.agent # "busy"
    <3>1. /\ Sane(y) /\ Open(y) /\ y.pend = NoEvents /\ Registry(y) = Registry(z)
          /\ y.agent = z.agent
          /\ Kept(y) = Kept(z) \cup Adds(i)
      BY <2>2, <2>4, PassiveTold
    <3> HIDE DEF y
    <3>2. Between(y) /\ Heard(y) = Kept(y)
      BY <3>1, OpenBetween
    <3> QED  BY <2>1, <2>2, <3>1, <3>2
  <2>5. CASE ~(~z.runPending /\ z.agent # "busy")
    <3>1. z \in State /\ z.held = << >>
      BY <2>2 DEF Sane, Open
    <3>2. y = [z EXCEPT !.held = Append(@, i)]
      BY <2>5, <3>1 DEF Passive, Idle, State
    <3>3. z.held \in Seq(ItemT) /\ Append(z.held, i) \in Seq(ItemT)
      BY <2>2, <3>1 DEF State
    <3> HIDE DEF y
    <3>4. /\ y \in State /\ Registry(y) = Registry(z) /\ y.told = z.told
          /\ y.held = Append(z.held, i) /\ y.pend = NoEvents /\ y.agent = z.agent
          /\ y.buffer = z.buffer /\ y.cursor = z.cursor
      BY <2>2, <3>1, <3>2, <3>3 DEF State, Registry
    <3>5. \A k \in DOMAIN y.held : y.held[k] = i
      BY <3>1, <3>3, <3>4, ItemAdded
    <3>6. InOrder(y.held)
      <4>1. AllBelow(z.held, i.lines) /\ InOrder(z.held)
        BY <3>1, Empty DEF AllBelow
      <4> QED  BY <4>1, <3>3, <3>4, <2>2, ItemOrder
    <3>7. Between(y)
      <4>1. Ordered(y)
        BY <2>2, <3>4 DEF Sane, Ordered, Registry
      <4> QED  BY <2>2, <2>3, <3>4, <3>5, <3>6, <4>1 DEF Between, Open
    <3>8. Heard(y) = Kept(x)
      <4>1. SaidIn(y.held) = SaidIn(z.held) \cup Adds(i)
        BY <2>2, <3>3, <3>4, ItemSets
      <4>2. Adds(z.pend) = {}
        BY <2>2, Empty
      <4> QED  BY <4>1, <4>2, <2>2, <3>4, Empty DEF Heard, Kept
    <3> QED  BY <2>1, <2>2, <3>4, <3>7, <3>8
  <2> QED  BY <2>4, <2>5
<1> QED  BY <1>1, <1>2, <1>3, <1>4

(* The notice of the end, told at once or held. *)
Ending(x, y, i) ==
  /\ y \in State /\ Shut(y) /\ Ordered(y) /\ ~Open(y)
  /\ Heard(y) = Heard(x) \cup Adds(i)
  /\ i.kind # "exited" => NoExit(y.told) /\ NoExit(y.held)

LEMMA EndTold ==
  ASSUME NEW x, Between(x), NEW i \in ItemT, i.kind # Event, i.lines = << >>,
         NEW y \in State, Registry(y) = Registry(x), y.pend = x.pend, y.held = x.held,
         y.told = Append(x.told, i)
  PROVE  Ending(x, y, i)
<1>1. x \in State /\ x.told \in Seq(ItemT)
  BY DEF Between, State
<1>2. /\ y.told[Len(x.told) + 1] = i /\ Len(x.told) + 1 \in DOMAIN y.told
      /\ \A k \in DOMAIN x.told : y.told[k] = x.told[k] /\ k < Len(x.told) + 1
      /\ \A k \in DOMAIN y.told : k \in DOMAIN x.told \/ k = Len(x.told) + 1
      /\ \A k \in DOMAIN y.told : k \in Nat
  BY <1>1, ItemAdded
<1>3. Enders(y.told) = {Len(x.told) + 1} /\ Enders(y.held) = {}
  BY <1>2 DEF Enders, Between
<1>4. ~Open(y)
  BY <1>2 DEF Open
<1>5. y.cursor = x.cursor /\ y.buffer = x.buffer
  BY DEF Registry
<1>50. y.entry = x.entry
  BY DEF Registry
<1>6. InOrder(y.told) /\ AllBelow(y.told, y.pend.lines) /\ AllBelow(y.told, y.buffer)
  <2>1. InOrder(x.told) /\ AllBelow(x.told, x.buffer) /\ AllBelow(x.told, x.pend.lines)
    BY DEF Between, Ordered
  <2>2. Ascending(i.lines) /\ AllBelow(x.told, i.lines) /\ \A p : Below(i.lines, p)
    BY Empty
  <2>3. InOrder(y.told)
    BY <1>1, <2>1, <2>2, ItemOrder
  <2>4. AllBelow(y.told, x.buffer) /\ AllBelow(y.told, x.pend.lines)
    BY <1>1, <2>1, <2>2, ItemBelow
  <2> QED  BY <2>3, <2>4, <1>5
<1>7. y.entry # "gone" => \A k \in DOMAIN y.told : UpTo(y.told[k].lines, y.cursor)
  BY <1>2, <1>5, <1>50, Empty DEF Between, Ordered
<1>8. Ordered(y)
  BY <1>5, <1>6, <1>7 DEF Between, Ordered
<1>9. \A k \in DOMAIN y.held : AllBelow(y.told, y.held[k].lines)
  BY <1>2, Empty DEF Between, AllBelow
<1>10. Shut(y)
  <2>1. \A k \in DOMAIN y.told : ~(Len(x.told) + 1 < k)
    BY <1>1, <1>2
  <2> QED  BY <1>3, <1>9, <2>1 DEF Shut, Between
<1>11. Heard(y) = Heard(x) \cup Adds(i)
  BY <1>1, ItemSets, Empty DEF Heard
<1>12. i.kind # "exited" => NoExit(y.told) /\ NoExit(y.held)
  BY <1>2 DEF NoExit, Between, Event
<1> QED  BY <1>4, <1>8, <1>10, <1>11, <1>12 DEF Ending

LEMMA EndHeld ==
  ASSUME NEW x, Between(x), NEW i \in ItemT, i.kind # Event, i.lines = << >>, ~i.wakes,
         NEW y \in State, Registry(y) = Registry(x), y.pend = x.pend, y.told = x.told,
         y.held = Append(x.held, i)
  PROVE  Ending(x, y, i)
<1>1. x \in State /\ x.held \in Seq(ItemT)
  BY DEF Between, State
<1>2. /\ y.held[Len(x.held) + 1] = i /\ Len(x.held) + 1 \in DOMAIN y.held
      /\ \A k \in DOMAIN x.held : y.held[k] = x.held[k]
      /\ \A k \in DOMAIN y.held : k \in DOMAIN x.held \/ k = Len(x.held) + 1
  BY <1>1, ItemAdded
<1>3. Enders(y.held) = {Len(x.held) + 1} /\ Enders(y.told) = {}
  BY <1>2 DEF Enders, Between
<1>4. ~Open(y)
  <2>1. DOMAIN << >> = {}
    OBVIOUS
  <2> QED  BY <1>2, <2>1 DEF Open
<1>5. Ordered(y)
  BY DEF Between, Ordered, Registry
<1>6. InOrder(y.held)
  <2>1. AllBelow(x.held, i.lines) /\ Ascending(i.lines) /\ InOrder(x.held)
    BY Empty DEF Between
  <2> QED  BY <1>1, <2>1, ItemOrder
<1>7. \A k \in DOMAIN y.held : AllBelow(y.told, y.held[k].lines) /\ ~y.held[k].wakes
  BY <1>2, Empty DEF Between
<1>8. Shut(y)
  BY <1>3, <1>6, <1>7 DEF Shut, Between
<1>9. Heard(y) = Heard(x) \cup Adds(i)
  BY <1>1, ItemSets, Empty DEF Heard
<1>10. i.kind # "exited" => NoExit(y.told) /\ NoExit(y.held)
  BY <1>2 DEF NoExit, Between, Event
<1> QED  BY <1>4, <1>5, <1>8, <1>9, <1>10 DEF Ending

(* notify, of the end *)
LEMMA NotifyEnd ==
  ASSUME NEW x, Sane(x), Open(x), NEW i \in ItemT, i.kind # Event, i.lines = << >>, ~i.wakes,
         NEW passive \in BOOLEAN, NEW quiet \in BOOLEAN
  PROVE  LET y == Notify(x, i, passive, quiet) IN
         /\ y \in State /\ Shut(y) /\ Ordered(y) /\ ~Open(y) /\ Registry(y) = Registry(x)
         /\ y.agent = "busy" <=> x.agent = "busy"
         /\ Heard(y) = Kept(x) \cup Adds(i)
         /\ i.kind # "exited" => NoExit(y.told) /\ NoExit(y.held)
<1> DEFINE z == FlushMonitor(x, quiet)
           y == Notify(x, i, passive, quiet)
           k == [i EXCEPT !.wakes = TRUE]
<1>1. /\ Between(z) /\ Registry(z) = Registry(x) /\ Heard(z) = Kept(x)
      /\ z.agent = "busy" <=> x.agent = "busy"
  BY FlushAll
<1>2. y = IF passive THEN Passive(z, i) ELSE Deliver(z, i)
  BY DEF Notify
<1>3. k \in ItemT /\ k.kind = i.kind /\ k.lines = i.lines /\ Adds(k) = Adds(i)
  BY WokenItem
<1> HIDE DEF z, y
<1>4. z \in State
  BY <1>1 DEF Between
<1>5. CASE ~passive
  <2>1. y = [z EXCEPT !.told = Append(@, k), !.runPending = TRUE,
                      !.agent = IF @ = "idle" THEN "starting" ELSE @]
    BY <1>2, <1>5 DEF Deliver
  <2> HIDE DEF k
  <2>2. Append(z.told, k) \in Seq(ItemT)
    BY <1>3, <1>4 DEF State
  <2>3. /\ y \in State /\ Registry(y) = Registry(z) /\ y.told = Append(z.told, k)
        /\ y.held = z.held /\ y.pend = z.pend /\ (y.agent = "busy" <=> z.agent = "busy")
    BY <2>1, <2>2, <1>4 DEF State, Registry
  <2>4. Ending(z, y, k)
    BY <2>3, <1>1, <1>3, EndTold
  <2> QED  BY <2>3, <2>4, <1>1, <1>3 DEF Ending, y
<1>6. CASE passive /\ (z.runPending \/ ~Idle(z))
  <2>1. y = [z EXCEPT !.held = Append(@, i)]
    BY <1>2, <1>6 DEF Passive
  <2>2. Append(z.held, i) \in Seq(ItemT)
    BY <1>4 DEF State
  <2>3. /\ y \in State /\ Registry(y) = Registry(z) /\ y.held = Append(z.held, i)
        /\ y.told = z.told /\ y.pend = z.pend /\ (y.agent = "busy" <=> z.agent = "busy")
    BY <2>1, <2>2, <1>4 DEF State, Registry
  <2>4. Ending(z, y, i)
    BY <2>3, <1>1, EndHeld
  <2> QED  BY <2>3, <2>4, <1>1 DEF Ending, y
<1>7. CASE passive /\ ~(z.runPending \/ ~Idle(z))
  <2>1. y = [z EXCEPT !.told = Append(@, i)]
    BY <1>2, <1>7 DEF Passive
  <2>2. Append(z.told, i) \in Seq(ItemT)
    BY <1>4 DEF State
  <2>3. /\ y \in State /\ Registry(y) = Registry(z) /\ y.told = Append(z.told, i)
        /\ y.held = z.held /\ y.pend = z.pend /\ (y.agent = "busy" <=> z.agent = "busy")
    BY <2>1, <2>2, <1>4 DEF State, Registry
  <2>4. Ending(z, y, i)
    BY <2>3, <1>1, EndTold
  <2> QED  BY <2>3, <2>4, <1>1 DEF Ending, y
<1> QED  BY <1>5, <1>6, <1>7

(* What the invariant of the extension reads, but for the agent's turn and *)
(* the entry.                                                              *)
Core(x) == <<x.told, x.held, x.pend, x.buffer, x.cursor, x.drops, x.stopped, x.stopping,
             x.taken>>

LEMMA Same ==
  ASSUME NEW x, Good(x), NEW y \in State, Core(y) = Core(x), QuietOk(y),
         y.entry = "gone" <=> x.entry = "gone"
  PROVE  Good(y) /\ (Open(x) <=> Open(y))
<1>1. Open(x) <=> Open(y)
  BY DEF Open, Core
<1>2. /\ Over(x) <=> Over(y)
      /\ Kept(x) = Kept(y)
      /\ Ordered(x) <=> Ordered(y)
  BY DEF Core, Over, Shut, Kept, Heard, Ordered
<1>3. Sane(y)
  BY <1>1, <1>2 DEF Core, Good, Sane
<1>4. Tells(y)
  BY <1>1, <1>2 DEF Core, Good, Tells
<1> QED  BY <1>1, <1>3, <1>4 DEF Good

(* cleanup *)
LEMMA CleanupKeeps ==
  ASSUME NEW x, Good(x), NEW y, y = Cleanup(x),
         (x.stopped /\ x.buffer = << >>) \/ Open(x)
  PROVE  /\ Good(y) /\ y.entry = "gone" /\ y.asked = x.asked /\ y.agent = x.agent
         /\ y.stopping = x.stopping /\ (Open(x) <=> Open(y))
<1>1. x \in State /\ Sane(x) /\ Tells(x) /\ QuietOk(x)
  BY DEF Good, Sane
<1>2. /\ y \in State /\ y.entry = "gone" /\ y.stopped /\ y.buffer = << >> /\ y.told = x.told
      /\ y.held = x.held /\ y.pend = x.pend /\ y.cursor = x.cursor /\ y.drops = x.drops
      /\ y.stopping = x.stopping /\ y.asked = x.asked /\ y.agent = x.agent /\ y.taken = x.taken
  <2>1. y = [x EXCEPT !.entry = "gone", !.stopped = TRUE, !.buffer = << >>]
    BY DEF Cleanup
  <2> QED  BY <2>1, <1>1, Empty DEF State
<1>3. Sane(y) /\ Kept(y) = Kept(x) /\ (Open(x) <=> Open(y))
  BY <1>1, <1>2, Emptied
<1>4. QuietOk(y)
  BY <1>1, <1>2 DEF QuietOk
<1>5. Tells(y)
  <2>1. CASE Open(x)
    BY <2>1, <1>2, OpenTells DEF Tells
  <2>2. CASE ~Open(x) /\ x.stopped
    BY <2>2, <1>1, <1>2, <1>3 DEF Tells
  <2> QED  BY <2>1, <2>2
<1> QED  BY <1>2, <1>3, <1>4, <1>5 DEF Good

(* The end of timeout() and autoStop(). *)
LEMMA StopNoticeEnds ==
  ASSUME NEW x, Good(x), Open(x), x.stopping # "none"
  PROVE  LET y == StopNotice(x) IN
         /\ Good(y) /\ y.entry = "gone" /\ y.asked = x.asked
         /\ y.agent = "busy" <=> x.agent = "busy"
<1> DEFINE i == Item(x.stopping, << >>, << >>, x.drops, FALSE)
           n == Notify(x, i, FALSE, FALSE)
           y == Cleanup(n)
<1>1. /\ x \in State /\ Sane(x) /\ x.stopping \in {"timeout", "limit"} /\ x.drops \in Line
  BY DEF Good, Sane, State
<1>2. /\ i \in ItemT /\ i.kind # Event /\ i.kind # "exited" /\ i.lines = << >> /\ ~i.wakes
  <2>1. x.stopping \in Ends /\ x.stopping # "exited"
    BY <1>1 DEF Ends
  <2> HIDE DEF i
  <2>2. /\ i \in ItemT /\ i.kind = x.stopping /\ i.kind # Event /\ i.lines = << >> /\ ~i.wakes
    BY <1>1, <2>1, EndItem DEF i
  <2> QED  BY <2>1, <2>2
<1> HIDE DEF i
<1>3. /\ n \in State /\ Shut(n) /\ Ordered(n) /\ Registry(n) = Registry(x)
      /\ n.agent = "busy" <=> x.agent = "busy"
      /\ NoExit(n.told) /\ NoExit(n.held)
  BY <1>1, <1>2, NotifyEnd
<1>4. StopNotice(x) = y
  BY DEF StopNotice, i
<1> HIDE DEF n
<1>5. y = [n EXCEPT !.entry = "gone", !.stopped = TRUE, !.buffer = << >>]
  BY DEF Cleanup
<1> HIDE DEF y
<1>6. /\ y \in State /\ y.entry = "gone" /\ y.stopped /\ y.buffer = << >> /\ y.told = n.told
      /\ y.held = n.held /\ y.pend = n.pend /\ y.cursor = n.cursor
      /\ y.stopping = n.stopping /\ y.asked = n.asked /\ y.agent = n.agent
  BY <1>3, <1>5, Empty DEF State
<1>7. Over(y) /\ QuietOk(y)
  BY <1>3, <1>6 DEF Over, Shut, QuietOk, NoEvents
<1>8. Ordered(y)
  BY <1>3, <1>6, Empty DEF Ordered
<1>9. Sane(y)
  BY <1>6, <1>7, <1>8 DEF Sane, Over, Shut
<1>10. Tells(y)
  BY <1>3, <1>6 DEF Tells
<1>11. y.asked = x.asked
  BY <1>3, <1>6 DEF Registry
<1> QED  BY <1>3, <1>4, <1>6, <1>7, <1>9, <1>10, <1>11 DEF Good

(* handleExit *)
LEMMA HandleExitKeeps ==
  ASSUME NEW x, Good(x), NEW how \in Hows, NEW soon \in BOOLEAN, NEW ok \in BOOLEAN,
         NEW full \in BOOLEAN
  PROVE  Leads(x, HandleExit(x, how, soon, ok, full))
<1> DEFINE b == OnBatch(x, ok, full)
           y == HandleExit(x, how, soon, ok, full)
<1>1. /\ x \in State /\ Sane(x)
  BY DEF Good, Sane
<1>2. /\ Leads(x, b) /\ b.buffer = << >> /\ b.entry = x.entry
      /\ Open(x) => Open(b)
      /\ x.stopped => b.stopped /\ b.stopping = x.stopping
      /\ ~b.stopped => b.stopping = "none"
  BY OnBatchKeeps
<1> HIDE DEF b
<1>3. Good(b) /\ b \in State /\ Sane(b) /\ Tells(b) /\ b.asked \in BOOLEAN /\ b.evented \in BOOLEAN
  BY <1>2 DEF Leads, Good, Sane, State
<1>4. CASE x.entry = "starting"
  <2>1. y = [x EXCEPT !.earlyExit = how]
    BY <1>4 DEF HandleExit
  <2> HIDE DEF y
  <2>2. /\ y \in State /\ Core(y) = Core(x) /\ y.entry = x.entry /\ y.asked = x.asked
        /\ y.agent = x.agent /\ y.pend = x.pend /\ y.stopping = x.stopping
    BY <1>1, <2>1 DEF State, Core
  <2>3. QuietOk(y)
    BY <2>2 DEF QuietOk, Good
  <2>4. Good(y) /\ (Open(x) <=> Open(y))
    BY <2>2, <2>3, Same
  <2> QED  BY <2>2, <2>4 DEF Leads, y
<1>5. CASE x.entry = "gone"
  <2>1. y = x
    BY <1>5 DEF HandleExit
  <2> QED  BY <2>1, LeadsItself
<1>6. CASE x.entry \notin {"starting", "gone"} /\ b.stopped
  <2>1. y = Cleanup(b)
    BY <1>6 DEF HandleExit, b
  <2> HIDE DEF y
  <2>2. /\ Good(y) /\ y.asked = b.asked /\ y.agent = b.agent
        /\ y.stopping = b.stopping /\ (Open(b) <=> Open(y))
    BY <2>1, <1>2, <1>3, <1>6, CleanupKeeps
  <2>3. Leads(b, y)
    BY <2>2 DEF Leads
  <2> QED  BY <2>3, <1>2, LeadsOn DEF y
<1>7. CASE x.entry \notin {"starting", "gone"} /\ ~b.stopped
  <2> DEFINE c == Cleanup(b)
             i == Item("exited", << >>, << >>, b.drops, FALSE)
             passive == (how = "clean" /\ b.evented /\ soon) \/ b.asked
  <2>1. y = Notify(c, i, passive, b.asked)
    BY <1>7 DEF HandleExit, b
  <2>2. passive \in BOOLEAN
    BY <1>3
  <2>3. /\ i \in ItemT /\ i.kind # Event /\ i.lines = << >> /\ ~i.wakes
        /\ Adds(i) = ToSet(b.drops)
    <3>1. b.drops \in Line /\ "exited" \in Ends
      BY <1>3 DEF State, Ends
    <3> QED  BY <3>1, EndItem
  <2>4. c = [b EXCEPT !.entry = "gone", !.stopped = TRUE, !.buffer = << >>]
    BY DEF Cleanup
  <2> HIDE DEF c, i, passive, y
  <2>5. /\ c \in State /\ c.entry = "gone" /\ c.stopped /\ c.buffer = << >> /\ c.told = b.told
        /\ c.held = b.held /\ c.pend = b.pend /\ c.cursor = b.cursor /\ c.taken = b.taken
        /\ c.stopping = b.stopping /\ c.asked = b.asked /\ c.agent = b.agent
    BY <1>3, <2>4, Empty DEF State
  <2>6. Open(b) /\ b.stopping = "none" /\ x.stopping = "none"
    <3>1. ~x.stopped /\ b.stopping = "none"
      BY <1>2, <1>7
    <3>2. Open(b)
      BY <1>2, <1>3, <1>7 DEF Sane, Over
    <3> QED  BY <3>1, <3>2, <1>1 DEF Sane
  <2>7. Sane(c) /\ Kept(c) = Kept(b) /\ Open(c)
    BY <1>3, <2>5, <2>6, Emptied
  <2>8. /\ y \in State /\ Shut(y) /\ Ordered(y) /\ ~Open(y) /\ Registry(y) = Registry(c)
        /\ y.agent = "busy" <=> c.agent = "busy"
        /\ Heard(y) = Kept(c) \cup Adds(i)
    BY <1>3, <2>1, <2>2, <2>3, <2>7, NotifyEnd
  <2>9. /\ y.entry = "gone" /\ y.stopped /\ y.buffer = << >> /\ y.taken = b.taken
        /\ y.stopping = b.stopping /\ y.asked = b.asked
    BY <2>5, <2>8 DEF Registry
  <2>10. Over(y) /\ QuietOk(y) /\ y.pend = NoEvents
    BY <2>8, <2>9 DEF Over, Shut, QuietOk, NoEvents
  <2>11. Sane(y)
    BY <2>8, <2>9, <2>10 DEF Sane
  <2>12. Tells(y)
    <3>1. ToSet(b.taken) = Kept(b) \cup ToSet(b.drops)
      BY <1>2, <1>3, <1>7, <2>6, Empty DEF Tells
    <3>2. Kept(y) = Heard(y)
      BY <2>10, Empty DEF Kept
    <3> QED  BY <3>1, <3>2, <2>3, <2>7, <2>8, <2>9 DEF Tells
  <2> QED  BY <1>2, <2>5, <2>6, <2>8, <2>9, <2>10, <2>11, <2>12 DEF Leads, Good, y
<1> QED  BY <1>4, <1>5, <1>6, <1>7

LEMMA ReconcileKeeps ==
  ASSUME NEW x, Good(x), NEW how \in Hows, NEW soon \in BOOLEAN, NEW ok \in BOOLEAN,
         NEW full \in BOOLEAN
  PROVE  Leads(x, Reconcile(x, how, soon, ok, full))
<1>1. Leads(x, x)
  BY LeadsItself
<1>2. Leads(x, HandleExit(x, how, soon, ok, full))
  BY HandleExitKeeps
<1> QED  BY <1>1, <1>2 DEF Reconcile

(* rewatchAll, once the watch is answered or refused *)
LEMMA RewatchedKeeps ==
  ASSUME NEW x, Good(x)
  PROVE  Accepts(x, Rewatched(x))
<1> DEFINE z == [x EXCEPT !.recovering = FALSE, !.queued = << >>]
<1>1. x \in State /\ x.queued \in Seq(Out)
  BY DEF Good, Sane, State
<1>2. /\ z \in State /\ Core(z) = Core(x) /\ z.entry = x.entry /\ z.asked = x.asked
      /\ z.agent = x.agent /\ z.pend = x.pend
  <2>1. << >> \in Seq(Out)
    OBVIOUS
  <2> QED  BY <1>1, <2>1 DEF State, Core
<1>20. Rewatched(x) = AcceptAll(z, ByCursor(x.queued))
  BY DEF Rewatched
<1> HIDE DEF z
<1>3. QuietOk(z)
  BY <1>2 DEF QuietOk, Good
<1>4. Good(z) /\ (Open(x) <=> Open(z))
  BY <1>2, <1>3, Same
<1>5. Accepts(x, z)
  BY <1>2, <1>4 DEF Accepts, Leads, Core
<1>6. ByCursor(x.queued) \in Seq(Out)
  BY <1>1, ByCursorType
<1>7. Accepts(z, Rewatched(x))
  BY <1>4, <1>6, <1>20, AcceptAllKeeps
<1>8. Leads(x, Rewatched(x))
  BY <1>5, <1>7, LeadsOn DEF Accepts
<1> QED  BY <1>5, <1>7, <1>8 DEF Accepts

LEMMA HandleOutputKeeps ==
  ASSUME NEW x, Good(x), NEW o \in Out
  PROVE  Accepts(x, HandleOutput(x, o))
<1> DEFINE y == HandleOutput(x, o)
<1>1. /\ x \in State /\ x.queued \in Seq(Out) /\ x.early \in Seq(Out)
      /\ Append(x.queued, o) \in Seq(Out) /\ Append(x.early, o) \in Seq(Out)
  BY DEF Good, Sane, State
<1>2. x.recovering \in BOOLEAN /\ x.entry \in {"starting", "live", "gone"}
  BY <1>1 DEF State
<1>3. CASE x.entry = "live" /\ ~x.recovering
  <2>1. y = Accept(x, o)
    BY <1>3 DEF HandleOutput
  <2> QED  BY <2>1, AcceptKeeps
<1>4. CASE ~(x.entry = "live" /\ ~x.recovering)
  <2>1. \/ y = [x EXCEPT !.early = Append(@, o)]
        \/ y = [x EXCEPT !.queued = Append(@, o)]
        \/ y = x
    BY <1>2, <1>4 DEF HandleOutput
  <2> HIDE DEF y
  <2>2. /\ y \in State /\ Core(y) = Core(x) /\ y.entry = x.entry /\ y.asked = x.asked
        /\ y.agent = x.agent /\ y.pend = x.pend
    <3>1. CASE y = [x EXCEPT !.early = Append(@, o)]
      BY <1>1, <3>1 DEF State, Core
    <3>2. CASE y = [x EXCEPT !.queued = Append(@, o)]
      BY <1>1, <3>2 DEF State, Core
    <3> QED  BY <1>1, <2>1, <3>1, <3>2
  <2>3. QuietOk(y)
    BY <2>2 DEF QuietOk, Good
  <2>4. Good(y) /\ (Open(x) <=> Open(y))
    BY <2>2, <2>3, Same
  <2> QED  BY <2>2, <2>4 DEF Accepts, Leads, Core, y
<1> QED  BY <1>3, <1>4

-----------------------------------------------------------------------------
(* The end of a turn. *)

LEMMA SaneSame ==
  ASSUME NEW x, Sane(x), NEW y \in State, Core(y) = Core(x),
         y.entry = "gone" <=> x.entry = "gone"
  PROVE  Sane(y) /\ Kept(y) = Kept(x) /\ (Open(x) <=> Open(y))
<1>1. Open(x) <=> Open(y)
  BY DEF Open, Core
<1>2. /\ Over(x) <=> Over(y)
      /\ Kept(x) = Kept(y)
      /\ Ordered(x) <=> Ordered(y)
  BY DEF Core, Over, Shut, Kept, Heard, Ordered
<1> QED  BY <1>1, <1>2 DEF Core, Sane

LEMMA ItemsCat ==
  ASSUME NEW p \in Seq(ItemT), NEW q \in Seq(ItemT)
  PROVE  LET r == p \o q IN
         /\ r \in Seq(ItemT) /\ Len(p) \in Nat
         /\ DOMAIN p \subseteq Nat /\ DOMAIN q \subseteq Nat /\ DOMAIN r \subseteq Nat
         /\ \A k \in DOMAIN p : k \in DOMAIN r /\ r[k] = p[k] /\ k <= Len(p)
         /\ \A k \in DOMAIN q : Len(p) + k \in DOMAIN r /\ r[Len(p) + k] = q[k] /\ k > 0
         /\ \A k \in DOMAIN r : \/ k \in DOMAIN p
                                \/ /\ k - Len(p) \in DOMAIN q /\ k > Len(p)
                                   /\ r[k] = q[k - Len(p)]
<1> DEFINE r == p \o q
<1>1. /\ r \in Seq(ItemT) /\ Len(r) = Len(p) + Len(q)
      /\ \A i \in 1..Len(p) : r[i] = p[i]
      /\ \A i \in 1..Len(q) : r[Len(p) + i] = q[i]
  OBVIOUS
<1>2. DOMAIN p = 1..Len(p) /\ DOMAIN q = 1..Len(q) /\ DOMAIN r = 1..Len(r)
  BY <1>1
<1>3. Len(p) \in Nat /\ Len(q) \in Nat
  OBVIOUS
<1> HIDE DEF r
<1>4. ASSUME NEW k \in DOMAIN r, k > Len(p)
      PROVE  k - Len(p) \in DOMAIN q /\ r[k] = q[k - Len(p)]
  <2>1. k - Len(p) \in 1..Len(q) /\ k = Len(p) + (k - Len(p))
    BY <1>1, <1>2, <1>3, <1>4
  <2>2. r[Len(p) + (k - Len(p))] = q[k - Len(p)]
    BY <2>1, <1>1
  <2> QED  BY <2>1, <2>2, <1>2
<1>5. \A k \in DOMAIN r : ~(k > Len(p)) => k \in DOMAIN p
  BY <1>1, <1>2, <1>3
<1>6. \A k \in DOMAIN p : k \in DOMAIN r /\ r[k] = p[k] /\ k <= Len(p)
  BY <1>1, <1>2, <1>3
<1>7. \A k \in DOMAIN q : Len(p) + k \in DOMAIN r /\ r[Len(p) + k] = q[k] /\ k > 0
  BY <1>1, <1>2, <1>3
<1>8. DOMAIN p \subseteq Nat /\ DOMAIN q \subseteq Nat /\ DOMAIN r \subseteq Nat
  BY <1>1, <1>2, <1>3
<1>9. \A k \in DOMAIN r : k \in DOMAIN p \/ (k - Len(p) \in DOMAIN q /\ k > Len(p)
                                              /\ r[k] = q[k - Len(p)])
  BY <1>4, <1>5
<1> QED  BY <1>1, <1>3, <1>6, <1>7, <1>8, <1>9 DEF r

(* What was held is told after the end, and wakes nobody. *)
LEMMA HeldTold ==
  ASSUME NEW x, Sane(x), ~Open(x), NEW y \in State, Registry(y) = Registry(x),
         y.pend = x.pend, y.told = x.told \o x.held, y.held = << >>
  PROVE  /\ Sane(y) /\ ~Open(y) /\ Kept(y) = Kept(x)
         /\ NoExit(x.told) /\ NoExit(x.held) => NoExit(y.told) /\ NoExit(y.held)
<1> DEFINE p == x.told
           q == x.held
           r == y.told
           n == Len(p)
<1>1. x \in State /\ p \in Seq(ItemT) /\ q \in Seq(ItemT)
  BY DEF Sane, State
<1>2. /\ n \in Nat
      /\ DOMAIN p \subseteq Nat /\ DOMAIN q \subseteq Nat /\ DOMAIN r \subseteq Nat
      /\ \A k \in DOMAIN p : k \in DOMAIN r /\ r[k] = p[k] /\ k <= n
      /\ \A k \in DOMAIN q : n + k \in DOMAIN r /\ r[n + k] = q[k] /\ k > 0
      /\ \A k \in DOMAIN r : \/ k \in DOMAIN p
                             \/ k - n \in DOMAIN q /\ k > n /\ r[k] = q[k - n]
  <2> HIDE DEF p, q
  <2>1. r = p \o q
    BY DEF p, q
  <2> QED  BY <1>1, <2>1, ItemsCat
<1>3. /\ y.entry = x.entry /\ y.stopped = x.stopped /\ y.buffer = x.buffer
      /\ y.stopping = x.stopping /\ y.cursor = x.cursor
  BY DEF Registry
<1>4. Over(x) /\ Shut(x) /\ x.entry = "gone" /\ x.pend = NoEvents /\ x.buffer = << >>
  BY DEF Sane, Over, Shut
<1>5. DOMAIN y.held = {} /\ Enders(y.held) = {}
  BY Empty
<1>6. /\ \A i, j \in Enders(p) \cup Enders(q) : i = j
      /\ Enders(p) = {} \/ Enders(q) = {}
      /\ Enders(p) # {} \/ Enders(q) # {}
      /\ \A i \in Enders(p) : \A j \in DOMAIN p : i < j => ~p[j].wakes
      /\ \A i \in DOMAIN q : ~q[i].wakes
      /\ InOrder(q) /\ \A i \in DOMAIN q : AllBelow(p, q[i].lines)
  BY <1>4 DEF Shut
<1>7. InOrder(p)
  BY DEF Sane, Ordered
<1> HIDE DEF p, q, r, n
<1>8. /\ \A k \in Enders(r) : (k \in Enders(p)) \/ (k - n \in Enders(q) /\ k > n)
      /\ Enders(r) # {}
  <2>1. \A k \in Enders(r) : (k \in Enders(p)) \/ (k - n \in Enders(q) /\ k > n)
    BY <1>2 DEF Enders
  <2>2. \A k \in Enders(p) : k \in Enders(r)
    BY <1>2 DEF Enders
  <2>3. \A k \in Enders(q) : n + k \in Enders(r)
    BY <1>2 DEF Enders
  <2> QED  BY <2>1, <2>2, <2>3, <1>6
<1>9. \A i, j \in Enders(r) : i = j
  <2> TAKE i, j \in Enders(r)
  <2>1. i \in Nat /\ j \in Nat
    BY <1>2 DEF Enders
  <2>2. CASE Enders(q) = {}
    BY <2>2, <1>6, <1>8
  <2>3. CASE Enders(p) = {}
    <3>1. i - n \in Enders(q) /\ j - n \in Enders(q)
      BY <2>3, <1>8
    <3>2. i - n = j - n
      BY <3>1, <1>6
    <3> QED  BY <3>2, <2>1, <1>2
  <2> QED  BY <2>2, <2>3, <1>6
<1>10. \A i \in Enders(r) : \A j \in DOMAIN r : i < j => ~r[j].wakes
  <2> TAKE i \in Enders(r)
  <2> TAKE j \in DOMAIN r
  <2> HAVE i < j
  <2>1. i \in Nat /\ j \in Nat /\ i \in DOMAIN r
    BY <1>2 DEF Enders
  <2>2. CASE j > n
    <3>1. j \notin DOMAIN p
      BY <2>1, <2>2, <1>2
    <3> QED  BY <3>1, <1>2, <1>6
  <2>3. CASE ~(j > n)
    <3>1. j \in DOMAIN p
      BY <2>3, <1>2
    <3>2. i \in Enders(p)
      BY <2>1, <2>3, <1>2, <1>8
    <3> QED  BY <3>1, <3>2, <1>2, <1>6
  <2> QED  BY <2>2, <2>3
<1>11. InOrder(r)
  <2>1. ASSUME NEW j \in DOMAIN r PROVE Ascending(r[j].lines)
    BY <1>2, <1>6, <1>7 DEF InOrder
  <2>2. ASSUME NEW i \in DOMAIN r, NEW j \in DOMAIN r, i < j PROVE Below(r[i].lines, r[j].lines)
    <3>0. i \in Nat /\ j \in Nat
      BY <1>2
    <3>1. CASE j \in DOMAIN p
      <4>1. i \in DOMAIN p
        BY <3>0, <3>1, <2>2, <1>2
      <4> QED  BY <3>1, <4>1, <2>2, <1>2, <1>7 DEF InOrder
    <3>2. CASE j \notin DOMAIN p /\ i \in DOMAIN p
      <4>1. j - n \in DOMAIN q /\ r[j] = q[j - n] /\ r[i] = p[i]
        BY <3>2, <1>2
      <4> QED  BY <4>1, <3>2, <1>6 DEF AllBelow
    <3>3. CASE j \notin DOMAIN p /\ i \notin DOMAIN p
      <4>1. /\ j - n \in DOMAIN q /\ r[j] = q[j - n] /\ i - n \in DOMAIN q /\ r[i] = q[i - n]
            /\ i - n < j - n
        BY <3>0, <3>3, <2>2, <1>2
      <4> QED  BY <4>1, <1>6 DEF InOrder
    <3> QED  BY <3>1, <3>2, <3>3
  <2> QED  BY <2>1, <2>2 DEF InOrder
<1>14. Ordered(y)
  <2>1. y.pend.lines = << >> /\ y.buffer = << >>
    BY <1>3, <1>4 DEF NoEvents
  <2> QED  BY <2>1, <1>3, <1>4, <1>11, Empty DEF Ordered, r
<1>15. SaidIn(r) = SaidIn(p) \cup SaidIn(q)
  <2>1. SaidIn(r) \subseteq SaidIn(p) \cup SaidIn(q)
    BY <1>2 DEF SaidIn, LinesOf, MoreOf, DropsOf
  <2>2. SaidIn(p) \subseteq SaidIn(r)
    BY <1>2 DEF SaidIn, LinesOf, MoreOf, DropsOf
  <2>3. SaidIn(q) \subseteq SaidIn(r)
    BY <1>2 DEF SaidIn, LinesOf, MoreOf, DropsOf
  <2> QED  BY <2>1, <2>2, <2>3
<1>16. Kept(y) = Kept(x)
  BY <1>15, Empty DEF Kept, Heard, p, q, r
<1>17. Over(y)
  BY <1>3, <1>4, <1>5, <1>8, <1>9, <1>10, Empty DEF Over, Shut, r
<1>18. ~Open(y)
  BY <1>8 DEF Open, Enders, r
<1>19. Sane(y)
  BY <1>3, <1>4, <1>14, <1>17 DEF Sane
<1>20. NoExit(p) /\ NoExit(q) => NoExit(r) /\ NoExit(y.held)
  BY <1>2, <1>5 DEF NoExit
<1> QED  BY <1>16, <1>18, <1>19, <1>20 DEF p, q, r

(* settled *)
LEMMA SettledKeeps ==
  ASSUME NEW x, Good(x), NEW a, a = [x EXCEPT !.agent = "idle"]
  PROVE  LET y == Settled(a) IN
         Good(y) /\ y.stopping = x.stopping /\ (Open(x) => Open(y))
<1> DEFINE z == [a EXCEPT !.runPending = FALSE]
           f == FlushMonitor(z, FALSE)
           w == [f EXCEPT !.told = @ \o f.held, !.held = << >>]
           y == Settled(a)
<1>1. x \in State /\ Sane(x) /\ Tells(x)
  BY DEF Good, Sane
<1>2. /\ z \in State /\ Core(z) = Core(x) /\ z.entry = x.entry /\ z.agent = "idle"
      /\ ~z.runPending
  BY <1>1 DEF State, Core
<1>3. y = IF f.runPending THEN f ELSE w
  BY DEF Settled
<1> HIDE DEF z, y
<1>4. Sane(z) /\ Kept(z) = Kept(x) /\ (Open(x) <=> Open(z))
  BY <1>1, <1>2, SaneSame
<1>5. /\ z.taken = x.taken /\ z.buffer = x.buffer /\ z.drops = x.drops
      /\ z.stopped = x.stopped /\ z.stopping = x.stopping /\ z.told = x.told
      /\ z.held = x.held /\ z.pend = x.pend
  BY <1>2 DEF Core
<1>6. CASE Open(x)
  <2>1. /\ Sane(f) /\ Open(f) /\ f.pend = NoEvents /\ Registry(f) = Registry(z)
        /\ Kept(f) = Kept(z)
    <3>1. CASE ~z.pend.quiet
      <4> HIDE DEF f
      <4> QED  BY <3>1, <1>4, <1>6, FlushLoud DEF f
    <3>2. CASE z.pend.lines = << >>
      <4>1. f = z /\ z.pend = NoEvents
        BY <3>2, <1>4 DEF FlushMonitor, Sane
      <4> QED  BY <4>1, <1>4, <1>6
    <3>3. CASE z.pend.quiet /\ z.pend.lines # << >>
      <4> DEFINE v == [z EXCEPT !.pend = NoEvents]
                 i == Item(Event, z.pend.lines, z.pend.more, z.pend.drops, FALSE)
                 g == Passive(v, i)
      <4>1. f = g
        BY <3>3 DEF FlushMonitor
      <4>2. /\ Sane(v) /\ Open(v) /\ v.pend = NoEvents /\ Registry(v) = Registry(z)
            /\ v.agent = z.agent /\ v.runPending = z.runPending
            /\ i \in ItemT /\ i.kind = Event /\ Ascending(i.lines) /\ AllBelow(v.told, i.lines)
            /\ Below(i.lines, v.buffer) /\ UpTo(i.lines, v.cursor)
            /\ Kept(z) = Kept(v) \cup Adds(i)
        BY <1>4, <1>6, Uncoalesced
      <4> HIDE DEF v, i, f
      <4>3. ~v.runPending /\ v.agent # "busy"
        BY <4>2, <1>2
      <4>4. /\ Sane(g) /\ Open(g) /\ g.pend = NoEvents /\ Registry(g) = Registry(v)
            /\ Kept(g) = Kept(v) \cup Adds(i)
        BY <4>2, <4>3, PassiveTold
      <4> QED  BY <4>1, <4>2, <4>4
    <3> QED  BY <3>1, <3>2, <3>3
  <2> HIDE DEF f
  <2>2. /\ w \in State /\ Core(w) = Core(f) /\ w.entry = f.entry /\ w.pend = NoEvents
    <3>1. f \in State /\ f.held = << >> /\ f.told \in Seq(ItemT) /\ f.pend = NoEvents
      BY <2>1 DEF Sane, Open, State
    <3>2. f.told \o f.held = f.told
      BY <3>1
    <3>3. w = [f EXCEPT !.told = f.told, !.held = f.held]
      BY <3>1, <3>2
    <3> HIDE DEF w
    <3> QED  BY <3>1, <3>3 DEF State, Core
  <2>3. Sane(w) /\ Kept(w) = Kept(f) /\ (Open(f) <=> Open(w))
    BY <2>1, <2>2, SaneSame
  <2>4. Registry(w) = Registry(f)
    BY DEF Registry
  <2> HIDE DEF w
  <2>5. /\ Sane(y) /\ Open(y) /\ y.pend = NoEvents /\ Registry(y) = Registry(z)
        /\ Kept(y) = Kept(x)
    BY <1>3, <1>4, <2>1, <2>2, <2>3, <2>4
  <2>6. QuietOk(y)
    BY <2>5 DEF QuietOk, NoEvents
  <2>7. /\ y.taken = x.taken /\ y.buffer = x.buffer /\ y.drops = x.drops
        /\ y.stopped = x.stopped /\ y.stopping = x.stopping
    BY <1>5, <2>5 DEF Registry
  <2>8. Tells(y)
    BY <1>1, <1>6, <2>5, <2>7, OpenTells DEF Tells
  <2> QED  BY <2>5, <2>6, <2>7, <2>8 DEF Good, y
<1>7. CASE ~Open(x)
  <2>1. z.pend = NoEvents /\ z.buffer = << >>
    BY <1>4, <1>7 DEF Sane, Over, Shut
  <2>2. f = z
    BY <2>1 DEF FlushMonitor, NoEvents
  <2>3. y = [z EXCEPT !.told = @ \o z.held, !.held = << >>]
    BY <1>2, <1>3, <2>2
  <2> HIDE DEF f, w
  <2>4. z.told \o z.held \in Seq(ItemT) /\ << >> \in Seq(ItemT)
    <3>1. z.told \in Seq(ItemT) /\ z.held \in Seq(ItemT)
      BY <1>2 DEF State
    <3> QED  BY <3>1
  <2>5. /\ y \in State /\ Registry(y) = Registry(z) /\ y.pend = z.pend
        /\ y.told = z.told \o z.held /\ y.held = << >>
    BY <1>2, <2>3, <2>4 DEF State, Registry
  <2>6. /\ Sane(y) /\ ~Open(y) /\ Kept(y) = Kept(z)
        /\ NoExit(z.told) /\ NoExit(z.held) => NoExit(y.told) /\ NoExit(y.held)
    BY <1>4, <1>7, <2>5, HeldTold
  <2>7. /\ y.taken = x.taken /\ y.stopped = x.stopped /\ y.stopping = x.stopping
    BY <1>5, <2>5 DEF Registry
  <2>8. Tells(y)
    BY <1>1, <1>4, <1>5, <1>7, <2>6, <2>7 DEF Tells
  <2>9. QuietOk(y)
    BY <2>1, <2>5 DEF QuietOk, NoEvents
  <2> QED  BY <1>7, <2>6, <2>7, <2>8, <2>9 DEF Good, y
<1> QED  BY <1>6, <1>7

-----------------------------------------------------------------------------
(* Messages. *)

IsStop(m) == m.is = "answer" /\ m.to[1] = "stop"

LEMMA StopAsk == \A a \in AskT : a[1] = "stop" => a = <<"stop", 0>>
  BY DEF AskT

LEMMA NoMsgs == StopAt(<< >>) = {} /\ Answered(<< >>) = {} /\ << >> \in Seq(Msg)
<1>1. DOMAIN << >> = {}
  OBVIOUS
<1> QED  BY <1>1 DEF StopAt, Answered

LEMMA MsgTypes ==
  ASSUME NEW m \in Msg
  PROVE  /\ m.is \in {"output", "exited", "answer", "hello"}
         /\ m.is = "output" => m \in Out
         /\ m.is = "exited" => m.how \in Hows
         /\ m.is = "answer" => m.to \in AskT /\ m.how \in Hows
  BY DEF Msg, Out, Reply

LEMMA MsgAdded ==
  ASSUME NEW q \in Seq(Msg), NEW m \in Msg
  PROVE  /\ Append(q, m) \in Seq(Msg)
         /\ StopAt(Append(q, m)) = StopAt(q) \cup IF IsStop(m) THEN {Len(q) + 1} ELSE {}
         /\ Answered(Append(q, m)) = Answered(q) \cup IF m.is = "answer" THEN {m.to} ELSE {}
<1> DEFINE r == Append(q, m)
<1>1. /\ r \in Seq(Msg) /\ r[Len(q) + 1] = m /\ Len(q) + 1 \in DOMAIN r
      /\ \A k \in DOMAIN q : r[k] = q[k] /\ k \in DOMAIN r
      /\ \A k \in DOMAIN r : k \in DOMAIN q \/ k = Len(q) + 1
  OBVIOUS
<1> HIDE DEF r
<1>2. StopAt(r) = StopAt(q) \cup IF IsStop(m) THEN {Len(q) + 1} ELSE {}
  BY <1>1 DEF StopAt, IsStop
<1>3. Answered(r) = Answered(q) \cup IF m.is = "answer" THEN {m.to} ELSE {}
  <2>1. ASSUME NEW k \in DOMAIN r, r[k].is = "answer"
        PROVE  r[k].to \in Answered(q) \cup IF m.is = "answer" THEN {m.to} ELSE {}
    BY <2>1, <1>1 DEF Answered
  <2>2. ASSUME NEW k \in DOMAIN q, q[k].is = "answer" PROVE q[k].to \in Answered(r)
    BY <2>2, <1>1 DEF Answered
  <2>3. m.is = "answer" => m.to \in Answered(r)
    BY <1>1 DEF Answered
  <2> QED  BY <2>1, <2>2, <2>3 DEF Answered
<1> QED  BY <1>1, <1>2, <1>3 DEF r

(* No message of a stop that was not there before, and only one. *)
Fewer(p, q) == (\A i, j \in StopAt(p) : i = j) /\ (StopAt(p) # {} => StopAt(q) # {})

LEMMA MsgTaken ==
  ASSUME NEW q \in Seq(Msg), q # << >>, \A i, j \in StopAt(q) : i = j
  PROVE  /\ Tail(q) \in Seq(Msg) /\ Head(q) \in Msg /\ Fewer(Tail(q), q)
         /\ IsStop(Head(q)) => StopAt(q) # {} /\ StopAt(Tail(q)) = {}
         /\ Answered(Tail(q)) \subseteq Answered(q)
         /\ Head(q).is = "answer" => Head(q).to \in Answered(q)
<1> DEFINE r == Tail(q)
<1>1. /\ r \in Seq(Msg) /\ Head(q) = q[1] /\ 1 \in DOMAIN q /\ Head(q) \in Msg
      /\ \A k \in DOMAIN r : k \in Nat /\ k > 0 /\ k + 1 \in DOMAIN q /\ r[k] = q[k + 1]
  OBVIOUS
<1> HIDE DEF r
<1>2. \A k \in StopAt(r) : k \in Nat /\ k > 0 /\ k + 1 \in StopAt(q)
  BY <1>1 DEF StopAt
<1>3. IsStop(Head(q)) => 1 \in StopAt(q)
  BY <1>1 DEF StopAt, IsStop
<1>4. Fewer(r, q)
  <2>1. \A i, j \in StopAt(r) : i = j
    <3> TAKE i, j \in StopAt(r)
    <3>1. i + 1 = j + 1 /\ i \in Nat /\ j \in Nat
      BY <1>2
    <3> QED  BY <3>1
  <2> QED  BY <2>1, <1>2 DEF Fewer
<1>5. IsStop(Head(q)) => StopAt(r) = {}
  <2> SUFFICES ASSUME NEW k \in StopAt(r), IsStop(Head(q)) PROVE FALSE
    OBVIOUS
  <2>1. k + 1 = 1 /\ k \in Nat /\ k > 0
    BY <1>2, <1>3
  <2> QED  BY <2>1
<1>6. Answered(r) \subseteq Answered(q)
  BY <1>1 DEF Answered
<1>7. Head(q).is = "answer" => Head(q).to \in Answered(q)
  BY <1>1 DEF Answered
<1> QED  BY <1>1, <1>3, <1>4, <1>5, <1>6, <1>7 DEF r

LEMMA MsgCut ==
  ASSUME NEW q \in Seq(Msg), NEW k \in 0..Len(q), \A i, j \in StopAt(q) : i = j
  PROVE  LET p == SubSeq(q, 1, k)
             r == SubSeq(q, k + 1, Len(q)) IN
         /\ p \in Seq(Msg) /\ Fewer(p, q)
         /\ Answered(p) \subseteq Answered(q) /\ Answered(r) \subseteq Answered(q)
         /\ <<"stop", 0>> \in Answered(r) => StopAt(q) # {} /\ StopAt(p) = {}
<1> DEFINE p == SubSeq(q, 1, k)
           r == SubSeq(q, k + 1, Len(q))
           n == Len(q)
<1>1. n \in Nat /\ k \in Nat /\ k <= n /\ DOMAIN q = 1..n
  OBVIOUS
<1>2. p = [i \in 1..k |-> q[i]] /\ p \in Seq(Msg) /\ DOMAIN p = 1..k
  <2>1. 1 + k - 1 = k /\ (1 - 1) + 1 = 1 /\ k - 1 + 1 = k
    BY <1>1
  <2> QED  BY <1>1, <2>1
<1>3. \A i \in DOMAIN p : i \in Nat /\ i <= k /\ i \in DOMAIN q /\ p[i] = q[i]
  BY <1>1, <1>2
<1>4. \A i \in DOMAIN r : k + i \in DOMAIN q /\ i > 0 /\ i \in Nat /\ r[i] = q[k + i]
  <2>1. r = [i \in 1..(n - k) |-> q[k + i]]
    BY <1>1
  <2> QED  BY <1>1, <2>1
<1> HIDE DEF p, r
<1>5. \A i \in StopAt(p) : i \in StopAt(q) /\ i \in Nat /\ i <= k
  BY <1>3 DEF StopAt
<1>6. <<"stop", 0>> \in Answered(r) => \E i \in StopAt(q) : i \in Nat /\ i > k
  <2> SUFFICES ASSUME <<"stop", 0>> \in Answered(r)
               PROVE  \E i \in StopAt(q) : i \in Nat /\ i > k
    OBVIOUS
  <2>1. PICK i \in DOMAIN r : r[i].is = "answer" /\ r[i].to = <<"stop", 0>>
    BY DEF Answered
  <2>2. k + i \in StopAt(q) /\ k + i \in Nat /\ k + i > k
    BY <2>1, <1>1, <1>4 DEF StopAt
  <2> QED  BY <2>2
<1>7. <<"stop", 0>> \in Answered(r) => StopAt(q) # {} /\ StopAt(p) = {}
  BY <1>1, <1>5, <1>6
<1>8. Answered(p) \subseteq Answered(q) /\ Answered(r) \subseteq Answered(q)
  BY <1>3, <1>4 DEF Answered
<1>9. Fewer(p, q)
  BY <1>5 DEF Fewer
<1> QED  BY <1>2, <1>7, <1>8, <1>9 DEF p, r

LEMMA StopAnswered ==
  ASSUME NEW q \in Seq(Msg), <<"stop", 0>> \in Answered(q)
  PROVE  StopAt(q) # {}
  BY DEF Answered, StopAt

-----------------------------------------------------------------------------
(* The steps. *)

LEMMA Numbered == None \in Nat /\ MaxLines \in Nat
  BY MonitorsAssumption DEF None

LEMMA InitKeeps == Init => MonitorInv
<1> SUFFICES ASSUME Init PROVE MonitorInv
  OBVIOUS
<1>1. Typed
  BY Numbered, NoMsgs DEF Init, Typed, Hows, AskT
<1>2. s \in State
  <2>1. << >> \in Seq(Out) /\ << >> \in Seq(ItemT) /\ << >> \in Line
    BY DEF Line
  <2> QED  BY <2>1, EmptyPend DEF Init, State
<1>3. Open(s) /\ Ordered(s)
  <2>1. /\ s.told = << >> /\ s.held = << >> /\ s.pend.lines = << >> /\ s.buffer = << >>
    BY DEF Init, NoEvents
  <2>2. DOMAIN << >> = {}
    OBVIOUS
  <2> QED  BY <2>1, <2>2, Empty DEF Open, Ordered
<1>4. Sane(s) /\ QuietOk(s)
  BY <1>2, <1>3 DEF Sane, QuietOk, Init, NoEvents
<1>5. Tells(s)
  <2>1. /\ s.told = << >> /\ s.held = << >> /\ s.pend = NoEvents
        /\ s.buffer = << >> /\ s.drops = << >> /\ s.taken = << >>
    BY DEF Init
  <2> QED  BY <2>1, Empty DEF Tells, Kept, Heard
<1>6. OneStop
  BY NoMsgs DEF Init, OneStop, StopPending
<1>7. ~InTaskStop
  BY NoMsgs DEF Init, InTaskStop
<1> QED  BY <1>1, <1>4, <1>5, <1>6, <1>7 DEF MonitorInv, Good

Stop == <<"stop", 0>>

(* What the manager and the connection may do to the messages. *)
LEMMA Outside ==
  ASSUME MonitorInv, Typed', UNCHANGED <<s, jobs>>,
         \A i, j \in StopAt(wire)' : i = j,
         Stop \in asks' => StopAt(wire)' = {},
         Stop \in asks' \/ StopAt(wire)' # {} => Stop \in asks \/ StopAt(wire) # {},
         asks' \cup Answered(wire)' \subseteq asks \cup Answered(wire)
  PROVE  MonitorInv'
<1>1. StopAt(jobs)' = StopAt(jobs) /\ Answered(jobs)' = Answered(jobs)
  BY DEF StopAt, Answered
<1>2. Good(s)'
  BY DEF MonitorInv, Good, Sane, QuietOk, Tells
<1>3. Open(s)' <=> Open(s)
  BY DEF Open
<1>4. OneStop'
  BY <1>1, <1>3 DEF MonitorInv, OneStop, StopPending, Stop
<1>5. InTaskStop' => InTaskStop
  BY <1>1 DEF InTaskStop
<1> QED  BY <1>2, <1>4, <1>5 DEF MonitorInv

(* What the extension may do to them. *)
LEMMA Inside ==
  ASSUME MonitorInv, Typed', Good(s'), Fewer(wire', wire), Fewer(jobs', jobs),
         Stop \in asks' => Stop \in asks \/ ~StopPending,
         StopPending' => Open(s') /\ s'.stopping # "none",
         InTaskStop' => s'.agent = "busy"
  PROVE  MonitorInv'
<1>1. /\ \A i, j \in StopAt(wire') : i = j
      /\ \A i, j \in StopAt(jobs') : i = j
      /\ StopAt(wire') # {} => StopAt(wire) # {}
      /\ StopAt(jobs') # {} => StopAt(jobs) # {}
  BY DEF Fewer
<1>2. /\ Stop \in asks => StopAt(wire) = {}
      /\ Stop \in asks \/ StopAt(wire) # {} => StopAt(jobs) = {}
  BY DEF MonitorInv, OneStop, Stop
<1>3. ~StopPending => StopAt(wire) = {} /\ StopAt(jobs) = {} /\ Stop \notin asks
  BY DEF StopPending, Stop
<1>4. /\ Stop \in asks' => StopAt(wire') = {}
      /\ Stop \in asks' \/ StopAt(wire') # {} => StopAt(jobs') = {}
  BY <1>1, <1>2, <1>3
<1>5. OneStop'
  BY <1>1, <1>4 DEF OneStop, Stop
<1> QED  BY <1>5 DEF MonitorInv

LEMMA FewerSame == ASSUME MonitorInv PROVE Fewer(wire, wire) /\ Fewer(jobs, jobs)
  BY DEF MonitorInv, OneStop, Fewer

LEMMA JobDone ==
  ASSUME MonitorInv, NEW is, NEW what, Job(is, what)
  PROVE  /\ jobs' \in Seq(Msg) /\ Head(jobs) \in Msg /\ Fewer(jobs', jobs)
         /\ IsStop(Head(jobs)) => StopPending /\ StopAt(jobs') = {}
         /\ Answered(jobs') \subseteq Answered(jobs)
         /\ is = "answer" =>
              /\ Head(jobs).to \in AskT /\ Head(jobs).to[1] = what /\ Head(jobs).how \in Hows
              /\ Head(jobs).to \in Answered(jobs)
<1>1. /\ jobs \in Seq(Msg) /\ jobs # << >> /\ jobs' = Tail(jobs) /\ Head(jobs).is = is
      /\ \A i, j \in StopAt(jobs) : i = j
      /\ is = "answer" => Head(jobs).to[1] = what
  BY DEF MonitorInv, Typed, OneStop, Job
<1>2. /\ Tail(jobs) \in Seq(Msg) /\ Head(jobs) \in Msg /\ Fewer(Tail(jobs), jobs)
      /\ IsStop(Head(jobs)) => StopAt(jobs) # {} /\ StopAt(Tail(jobs)) = {}
      /\ Answered(Tail(jobs)) \subseteq Answered(jobs)
      /\ Head(jobs).is = "answer" => Head(jobs).to \in Answered(jobs)
  BY <1>1, MsgTaken
<1> QED  BY <1>1, <1>2, MsgTypes DEF StopPending

(* After, once a stop may have begun. *)
LEMMA AfterKeeps ==
  ASSUME MonitorInv, NEW y, Leads(s, y), NEW more, After(y, more), Stop \notin more
  PROVE  /\ Good(s') /\ (s.agent = "busy" => s'.agent = "busy")
         /\ asks' \subseteq asks \cup {Stop} \cup more
         /\ Stop \in asks' => Stop \in asks \/ ~StopPending
         /\ StopPending \/ Stop \in asks' => Open(s') /\ s'.stopping # "none"
<1> DEFINE begun == s.stopping = "none" /\ y.stopping # "none"
<1>1. /\ s' = IF begun /\ ~Sends THEN StopNotice(y) ELSE y
      /\ asks' = asks \cup (IF begun /\ Sends THEN {Stop} ELSE {}) \cup more
  BY DEF After, Stop
<1>2. StopPending => Open(s) /\ s.stopping # "none"
  BY DEF MonitorInv, OneStop
<1>3. Stop \in asks => StopPending
  BY DEF StopPending, Stop
<1>4. /\ Good(y) /\ (y.agent = "busy" <=> s.agent = "busy")
      /\ s.stopping # "none" => y.stopping = s.stopping /\ (Open(s) => Open(y))
      /\ y.stopping # s.stopping => Open(y)
  BY DEF Leads
<1>5. CASE begun /\ ~Sends
  <2>1. s' = StopNotice(y) /\ asks' = asks \cup more
    BY <1>1, <1>5
  <2>2. ~StopPending /\ Open(y) /\ y.stopping # "none"
    BY <1>2, <1>4, <1>5
  <2>3. Good(s') /\ (s'.agent = "busy" <=> y.agent = "busy")
    BY <2>1, <2>2, <1>4, StopNoticeEnds
  <2> QED  BY <2>1, <2>2, <2>3, <1>3, <1>4
<1>6. CASE begun /\ Sends
  <2>1. s' = y /\ asks' = asks \cup {Stop} \cup more
    BY <1>1, <1>6
  <2>2. ~StopPending /\ Open(y) /\ y.stopping # "none"
    BY <1>2, <1>4, <1>6
  <2> QED  BY <2>1, <2>2, <1>4
<1>7. CASE ~begun
  <2>1. s' = y /\ asks' = asks \cup more
    BY <1>1, <1>7
  <2>2. StopPending => Open(y) /\ y.stopping # "none"
    BY <1>2, <1>4
  <2> QED  BY <2>1, <2>2, <1>3, <1>4
<1> QED  BY <1>5, <1>6, <1>7

(* A job that ends in After, and leaves the wire alone. *)
LEMMA AfterJob ==
  ASSUME MonitorInv, NEW y, Leads(s, y), NEW more, more \subseteq AskT, After(y, more),
         Stop \notin more, UNCHANGED <<taskVars, fanVars, link, wire, faults>>,
         jobs' \in Seq(Msg), Fewer(jobs', jobs), Answered(jobs') \subseteq Answered(jobs),
         more \cap {<<"task_stop", 0>>, <<"look", 0>>} # {} => s.agent = "busy"
  PROVE  MonitorInv'
<1>1. /\ Good(s') /\ (s.agent = "busy" => s'.agent = "busy")
      /\ asks' \subseteq asks \cup {Stop} \cup more
      /\ Stop \in asks' => Stop \in asks \/ ~StopPending
      /\ StopPending \/ Stop \in asks' => Open(s') /\ s'.stopping # "none"
  BY AfterKeeps
<1>2. Stop \in AskT /\ Stop \notin {<<"task_stop", 0>>, <<"look", 0>>}
  BY DEF Stop, AskT
<1>3. Typed'
  <2>1. asks' \subseteq AskT
    BY <1>1, <1>2 DEF MonitorInv, Typed
  <2> QED  BY <2>1 DEF MonitorInv, Typed, taskVars, fanVars
<1>4. Fewer(wire', wire)
  BY FewerSame
<1>5. StopPending' => StopPending \/ Stop \in asks'
  <2>1. StopAt(jobs') # {} => StopAt(jobs) # {}
    BY DEF Fewer
  <2>2. StopAt(wire') # {} => StopAt(wire) # {}
    BY <1>4 DEF Fewer
  <2> QED  BY <2>1, <2>2 DEF StopPending, Stop
<1>6. InTaskStop' => InTaskStop \/ more \cap {<<"task_stop", 0>>, <<"look", 0>>} # {}
  <2>1. asks' \cup Answered(wire') \cup Answered(jobs')
          \subseteq asks \cup {Stop} \cup more \cup Answered(wire) \cup Answered(jobs)
    BY <1>1
  <2> QED  BY <2>1, <1>2 DEF InTaskStop
<1>7. InTaskStop => s.agent = "busy"
  BY DEF MonitorInv
<1> QED  BY <1>1, <1>3, <1>4, <1>5, <1>6, <1>7, Inside

-----------------------------------------------------------------------------
(* The manager's steps. *)

LEMMA Pushed ==
  ASSUME MonitorInv, NEW m \in Msg, Push(m), link' = link, ~IsStop(m)
  PROVE  /\ wire' \in Seq(Msg) /\ StopAt(wire)' = StopAt(wire)
         /\ link' \in {"down", "unavailable"} => wire' = << >>
         /\ Answered(wire)' \subseteq Answered(wire) \cup IF m.is = "answer" THEN {m.to} ELSE {}
<1>1. wire \in Seq(Msg) /\ (link \in {"down", "unavailable"} => wire = << >>)
  BY DEF MonitorInv, Typed
<1>2. CASE Hears
  <2>1. wire' = Append(wire, m) /\ link \notin {"down", "unavailable"}
    BY <1>2 DEF Push, Hears
  <2>2. /\ Append(wire, m) \in Seq(Msg)
        /\ StopAt(Append(wire, m)) = StopAt(wire) \cup IF IsStop(m) THEN {Len(wire) + 1} ELSE {}
        /\ Answered(Append(wire, m)) = Answered(wire) \cup IF m.is = "answer" THEN {m.to} ELSE {}
    BY <1>1, MsgAdded
  <2>3. StopAt(wire)' = StopAt(wire') /\ Answered(wire)' = Answered(wire')
    BY DEF StopAt, Answered
  <2> QED  BY <2>1, <2>2, <2>3
<1>3. CASE ~Hears
  <2>1. wire' = wire
    BY <1>3 DEF Push
  <2>2. StopAt(wire)' = StopAt(wire) /\ Answered(wire)' = Answered(wire)
    BY <2>1 DEF StopAt, Answered
  <2> QED  BY <2>1, <2>2, <1>1
<1> QED  BY <1>2, <1>3

LEMMA StopsPrimed ==
  StopAt(wire)' = StopAt(wire') /\ Answered(wire)' = Answered(wire')
  BY DEF StopAt, Answered

LEMMA AnswerStartKeeps == ASSUME MonitorInv, AnswerStart PROVE MonitorInv'
<1> DEFINE a == <<"start", 0>>
           m == Answer(a, "ok")
<1>1. /\ m \in Msg /\ ~IsStop(m) /\ m.is = "answer" /\ m.to = a /\ a \in asks
      /\ asks' = asks \ {a} /\ Push(m) /\ link' = link /\ UNCHANGED <<s, jobs>>
  BY DEF AnswerStart, Answer, Msg, Reply, AskT, Hows, IsStop
<1> HIDE DEF m
<1>2. /\ wire' \in Seq(Msg) /\ StopAt(wire)' = StopAt(wire)
      /\ link' \in {"down", "unavailable"} => wire' = << >>
      /\ Answered(wire)' \subseteq Answered(wire) \cup {a}
  BY <1>1, Pushed
<1>3. Typed'
  BY <1>1, <1>2 DEF MonitorInv, Typed, AnswerStart, Hows
<1>4. /\ \A i, j \in StopAt(wire) : i = j
      /\ Stop \in asks => StopAt(wire) = {}
  BY DEF MonitorInv, OneStop, Stop
<1> QED  BY <1>1, <1>2, <1>3, <1>4, Outside

LEMMA AnswerAskKeeps == ASSUME MonitorInv, NEW a \in Ask, AnswerAsk(a) PROVE MonitorInv'
<1> DEFINE m == Answer(a, over)
<1>1. /\ a \in asks /\ asks' = asks \ {a} /\ link' = link /\ link = "up"
      /\ UNCHANGED <<s, jobs, fanned, printed, carried, faults>>
      /\ wire' = wire \/ Push(m)
      /\ over' \in Hows /\ a[1] # "start"
  BY DEF AnswerAsk, MonitorInv, Typed, Hows
<1>2. a \in AskT /\ over \in Hows /\ wire \in Seq(Msg) /\ asks \subseteq AskT
  BY <1>1 DEF MonitorInv, Typed
<1>3. m \in Msg /\ m.is = "answer" /\ m.to = a /\ (IsStop(m) <=> a[1] = "stop")
  BY <1>2 DEF Answer, Msg, Reply, IsStop
<1> HIDE DEF m
<1>4. /\ \A i, j \in StopAt(wire) : i = j
      /\ Stop \in asks => StopAt(wire) = {}
  BY DEF MonitorInv, OneStop, Stop
<1>5. CASE a[1] # "stop" \/ wire' = wire
  <2>1. /\ wire' \in Seq(Msg) /\ StopAt(wire)' = StopAt(wire)
        /\ link' \in {"down", "unavailable"} => wire' = << >>
        /\ Answered(wire)' \subseteq Answered(wire) \cup {a}
    <3>1. CASE wire' = wire
      BY <3>1, <1>1, <1>2, StopsPrimed DEF MonitorInv, Typed
    <3>2. CASE wire' # wire
      BY <3>2, <1>1, <1>3, <1>5, Pushed
    <3> QED  BY <3>1, <3>2
  <2>2. Typed'
    BY <1>1, <1>2, <2>1 DEF MonitorInv, Typed
  <2> QED  BY <1>1, <1>4, <2>1, <2>2, Outside
<1>6. CASE a[1] = "stop" /\ wire' # wire
  <2>1. a = Stop /\ StopAt(wire) = {} /\ IsStop(m)
    BY <1>1, <1>2, <1>3, <1>4, <1>6, StopAsk DEF Stop
  <2>2. wire' = Append(wire, m)
    BY <1>1, <1>6 DEF Push
  <2>3. /\ Append(wire, m) \in Seq(Msg)
        /\ StopAt(Append(wire, m)) = {Len(wire) + 1}
        /\ Answered(Append(wire, m)) = Answered(wire) \cup {a}
    BY <1>2, <1>3, <2>1, MsgAdded
  <2>4. /\ wire' \in Seq(Msg) /\ StopAt(wire)' = {Len(wire) + 1}
        /\ Answered(wire)' = Answered(wire) \cup {a}
    BY <2>2, <2>3, StopsPrimed
  <2>5. Typed'
    BY <1>1, <1>2, <2>4 DEF MonitorInv, Typed
  <2>6. Stop \notin asks' /\ Stop \in asks
    BY <1>1, <2>1
  <2> HIDE DEF Stop
  <2> QED  BY <1>1, <2>4, <2>5, <2>6, Outside
<1> QED  BY <1>5, <1>6

LEMMA WireKept ==
  ASSUME MonitorInv, wire' = wire
  PROVE  /\ StopAt(wire)' = StopAt(wire) /\ Answered(wire)' = Answered(wire)
         /\ \A i, j \in StopAt(wire) : i = j
         /\ Stop \in asks => StopAt(wire) = {}
<1>1. StopAt(wire)' = StopAt(wire) /\ Answered(wire)' = Answered(wire)
  BY StopsPrimed
<1> QED  BY <1>1 DEF MonitorInv, OneStop, Stop

LEMMA PrintLineKeeps == ASSUME MonitorInv, PrintLine PROVE MonitorInv'
<1>1. /\ UNCHANGED <<s, jobs, wire, asks, over, fanned, carried, faults, link>>
      /\ printed' = printed + 1
  BY DEF PrintLine, fanVars, wireVars
<1>2. Typed'
  BY <1>1 DEF MonitorInv, Typed
<1> QED  BY <1>1, <1>2, WireKept, Outside

LEMMA FanOutKeeps == ASSUME MonitorInv, FanOut PROVE MonitorInv'
<1>1. PICK to \in (fanned + 1)..printed :
        /\ fanned' = to
        /\ wire' = IF watching /\ Hears THEN Append(wire, Output(fanned, to)) ELSE wire
  BY DEF FanOut
<1> DEFINE m == Output(fanned, to)
<1>2. UNCHANGED <<s, jobs, asks, over, printed, carried, faults, link>>
  BY DEF FanOut, taskVars
<1>3. fanned \in Nat /\ printed \in Nat /\ to \in Nat /\ fanned < to
  BY DEF MonitorInv, Typed
<1>4. m \in Msg /\ m.is = "output" /\ ~IsStop(m)
  BY <1>3 DEF Output, Msg, Out, IsStop
<1> HIDE DEF m
<1>5. wire' = wire \/ Push(m)
  BY <1>1 DEF Push, m
<1>6. /\ wire' \in Seq(Msg) /\ StopAt(wire)' = StopAt(wire)
      /\ link' \in {"down", "unavailable"} => wire' = << >>
      /\ Answered(wire)' \subseteq Answered(wire)
  <2>1. CASE wire' = wire
    BY <2>1, <1>2, WireKept DEF MonitorInv, Typed
  <2>2. CASE Push(m)
    BY <2>2, <1>2, <1>4, Pushed
  <2> QED  BY <2>1, <2>2, <1>5
<1>7. Typed'
  BY <1>1, <1>2, <1>3, <1>6 DEF MonitorInv, Typed
<1>8. /\ \A i, j \in StopAt(wire) : i = j
      /\ Stop \in asks => StopAt(wire) = {}
  BY DEF MonitorInv, OneStop, Stop
<1> QED  BY <1>2, <1>6, <1>7, <1>8, Outside

LEMMA ExitsKeeps == ASSUME MonitorInv, Exits PROVE MonitorInv'
<1>1. /\ UNCHANGED <<s, jobs, wire, asks, printed, fanned, carried, faults, link>>
      /\ over' \in Hows
  BY DEF Exits, fanVars, wireVars, Hows, Ended
<1>2. Typed'
  BY <1>1 DEF MonitorInv, Typed
<1> QED  BY <1>1, <1>2, WireKept, Outside

LEMMA PushExitKeeps == ASSUME MonitorInv, PushExit PROVE MonitorInv'
<1> DEFINE m == Exited(over)
<1>1. /\ UNCHANGED <<s, jobs, asks, over, printed, fanned, carried, faults, link>>
      /\ Push(m)
  BY DEF PushExit, fanVars
<1>2. m \in Msg /\ m.is = "exited" /\ ~IsStop(m)
  BY DEF MonitorInv, Typed, Exited, Msg, IsStop
<1> HIDE DEF m
<1>3. /\ wire' \in Seq(Msg) /\ StopAt(wire)' = StopAt(wire)
      /\ link' \in {"down", "unavailable"} => wire' = << >>
      /\ Answered(wire)' \subseteq Answered(wire)
  BY <1>1, <1>2, Pushed
<1>4. Typed'
  BY <1>1, <1>3 DEF MonitorInv, Typed
<1>5. /\ \A i, j \in StopAt(wire) : i = j
      /\ Stop \in asks => StopAt(wire) = {}
  BY DEF MonitorInv, OneStop, Stop
<1> QED  BY <1>1, <1>3, <1>4, <1>5, Outside

-----------------------------------------------------------------------------
(* The connection's steps. *)

LEMMA DropKeeps == ASSUME MonitorInv, Drop PROVE MonitorInv'
<1>1. /\ UNCHANGED <<s, jobs, over, printed, fanned, carried>>
      /\ wire' = << >> /\ asks' = asks \cup Answered(wire) /\ faults' = faults + 1
  BY DEF Drop, Lose, taskVars
<1>2. wire \in Seq(Msg) /\ Answered(wire) \subseteq AskT
  <2>1. wire \in Seq(Msg)
    BY DEF MonitorInv, Typed
  <2>2. \A i \in DOMAIN wire : wire[i] \in Msg
    BY <2>1
  <2> QED  BY <2>1, <2>2, MsgTypes DEF Answered
<1>3. wire' \in Seq(Msg) /\ StopAt(wire)' = {} /\ Answered(wire)' = {}
  BY <1>1, NoMsgs, StopsPrimed
<1>4. Typed'
  BY <1>1, <1>2, <1>3 DEF MonitorInv, Typed
<1>5. Stop \in asks' => Stop \in asks \/ StopAt(wire) # {}
  BY <1>1, <1>2, StopAnswered DEF Stop
<1> QED  BY <1>1, <1>3, <1>4, <1>5, Outside

LEMMA LeastLine == ASSUME NEW T, T \subseteq Nat, T # {} PROVE LeastOf(T) \in T
  BY LeastNat DEF LeastOf

LEMMA LinesInNat ==
  ASSUME NEW q \in Seq(Msg)
  PROVE  \A l \in LinesIn(q) : l \in Nat /\ l > 0
<1>1. \A i \in DOMAIN q : q[i] \in Msg
  OBVIOUS
<1>2. ASSUME NEW i \in DOMAIN q, q[i].is = "output" PROVE q[i].from \in Nat /\ q[i].to \in Nat
  BY <1>1, <1>2, MsgTypes DEF Out
<1>3. ASSUME NEW i \in {j \in DOMAIN q : q[j].is = "output"}, NEW l \in (q[i].from + 1)..q[i].to
      PROVE  l \in Nat /\ l > 0
  BY <1>2
<1> QED  BY <1>3 DEF LinesIn

LEMMA UpgradeKeeps == ASSUME MonitorInv, Upgrade PROVE MonitorInv'
<1>1. PICK k \in 0..Len(wire) :
        LET lost == SubSeq(wire, k + 1, Len(wire)) IN
        /\ wire' = SubSeq(wire, 1, k)
        /\ asks' = asks \cup Answered(lost)
        /\ carried' = IF ~watching THEN None
                      ELSE IF LinesIn(lost) = {} THEN fanned ELSE LeastOf(LinesIn(lost)) - 1
  BY DEF Upgrade
<1> DEFINE lost == SubSeq(wire, k + 1, Len(wire))
           left == SubSeq(wire, 1, k)
<1>2. /\ UNCHANGED <<s, jobs, over, printed, fanned>>
      /\ link' = "closing" /\ faults' = faults + 1
  BY DEF Upgrade, Lose, taskVars
<1>3. /\ wire \in Seq(Msg) /\ \A i, j \in StopAt(wire) : i = j
      /\ Stop \in asks => StopAt(wire) = {}
      /\ fanned \in Nat /\ asks \subseteq AskT
  BY DEF MonitorInv, Typed, OneStop, Stop
<1>4. /\ left \in Seq(Msg) /\ Fewer(left, wire)
      /\ Answered(left) \subseteq Answered(wire) /\ Answered(lost) \subseteq Answered(wire)
      /\ Stop \in Answered(lost) => StopAt(wire) # {} /\ StopAt(left) = {}
  BY <1>3, MsgCut DEF Stop
<1>5. lost \in Seq(Msg)
  <2>1. Len(wire) \in Nat /\ k \in Nat /\ \A i \in (k + 1)..Len(wire) : wire[i] \in Msg
    BY <1>3
  <2> QED  BY <2>1, <1>3
<1>6. Answered(wire) \subseteq AskT
  <2>1. \A i \in DOMAIN wire : wire[i] \in Msg
    BY <1>3
  <2> QED  BY <2>1, MsgTypes DEF Answered
<1>7. carried' \in Nat
  <2>1. LinesIn(lost) # {} => LeastOf(LinesIn(lost)) \in LinesIn(lost)
    BY <1>5, LinesInNat, LeastLine
  <2>10. \A l \in LinesIn(lost) : l \in Nat /\ l > 0
    BY <1>5, LinesInNat
  <2>11. \A l \in Nat : l > 0 => l - 1 \in Nat
    OBVIOUS
  <2>2. LinesIn(lost) # {} => LeastOf(LinesIn(lost)) - 1 \in Nat
    BY <2>1, <2>10, <2>11
  <2> HIDE DEF lost
  <2> QED  BY <1>1, <1>3, <2>2, Numbered DEF lost
<1>8. wire' = left /\ asks' = asks \cup Answered(lost)
  BY <1>1
<1> HIDE DEF left, lost
<1>9. StopAt(wire)' = StopAt(left) /\ Answered(wire)' = Answered(left)
  BY <1>8, StopsPrimed
<1>10. Typed'
  BY <1>2, <1>3, <1>4, <1>6, <1>7, <1>8 DEF MonitorInv, Typed
<1>11. /\ \A i, j \in StopAt(left) : i = j
       /\ StopAt(left) # {} => StopAt(wire) # {}
  BY <1>4 DEF Fewer
<1> QED  BY <1>2, <1>3, <1>4, <1>8, <1>9, <1>10, <1>11, Outside

LEMMA ClosedKeeps == ASSUME MonitorInv, Closed PROVE MonitorInv'
<1>1. UNCHANGED <<s, jobs, wire, asks, over, printed, fanned, carried, faults>> /\ wire = << >>
  BY DEF Closed, taskVars, fanVars
<1>2. Typed'
  BY <1>1 DEF MonitorInv, Typed
<1> QED  BY <1>1, <1>2, WireKept, Outside

LEMMA SayHelloKeeps == ASSUME MonitorInv, SayHello PROVE MonitorInv'
<1>1. /\ UNCHANGED <<s, jobs, asks, over, printed, fanned, faults>>
      /\ wire' = <<Hello>> \o Replay /\ carried' = None /\ link' \in {"hello", "rehello"}
  BY DEF SayHello, taskVars
<1>2. carried \in Nat /\ fanned \in Nat
  BY DEF MonitorInv, Typed
<1>3. Hello \in Msg /\ Hello.is = "hello"
  BY DEF Hello, Msg
<1>4. Replay = << >> \/ \E o \in Out : Replay = <<o>>
  <2>1. CASE carried # None /\ carried < fanned
    <3>1. Output(carried, fanned) \in Out
      BY <2>1, <1>2 DEF Output, Out
    <3> QED  BY <2>1, <3>1 DEF Replay
  <2>2. CASE ~(carried # None /\ carried < fanned)
    BY <2>2 DEF Replay
  <2> QED  BY <2>1, <2>2
<1>5. /\ wire' \in Seq(Msg) /\ \A i \in DOMAIN wire' : wire'[i].is # "answer"
  <2>1. CASE Replay = << >>
    <3>1. wire' = <<Hello>>
      BY <1>1, <2>1
    <3> QED  BY <3>1, <1>3
  <2>2. CASE \E o \in Out : Replay = <<o>>
    <3>1. PICK o \in Out : Replay = <<o>>
      BY <2>2
    <3>2. o \in Msg /\ o.is = "output"
      BY DEF Out, Msg
    <3>3. <<Hello>> \in Seq(Msg) /\ <<o>> \in Seq(Msg) /\ Len(<<Hello>>) = 1 /\ Len(<<o>>) = 1
      BY <3>2, <1>3
    <3>4. wire' = <<Hello>> \o <<o>>
      BY <1>1, <3>1
    <3>5. wire' \in Seq(Msg) /\ DOMAIN wire' = 1..2
      BY <3>3, <3>4
    <3>6. wire'[1] = Hello /\ wire'[2] = o
      BY <3>3, <3>4
    <3> QED  BY <3>2, <3>5, <3>6, <1>3
  <2> QED  BY <2>1, <2>2, <1>4
<1>6. StopAt(wire)' = {} /\ Answered(wire)' = {}
  BY <1>5 DEF StopAt, Answered
<1>7. Typed'
  BY <1>1, <1>5, Numbered DEF MonitorInv, Typed
<1> QED  BY <1>1, <1>6, <1>7, Outside

(* reconnectLoop gives up. *)
LEMMA ExhaustKeeps == ASSUME MonitorInv, Exhaust PROVE MonitorInv'
<1>1. PICK soon, ok, full \in BOOLEAN :
       LET a == [s EXCEPT !.asked = @ /\ <<"task_stop", 0>> \notin asks]
           b == IF a.recovering THEN Rewatched(a) ELSE a
           c == IF <<"stop", 0>> \in asks THEN StopNotice(b) ELSE b
           d == IF c.entry = "starting" THEN Cleanup(c) ELSE c
       IN s' = d \/ s' = Reconcile(d, over, soon, ok, full)
  BY DEF Exhaust
<1> DEFINE still == s.asked /\ <<"task_stop", 0>> \notin asks
           a == [s EXCEPT !.asked = @ /\ <<"task_stop", 0>> \notin asks]
           b == IF a.recovering THEN Rewatched(a) ELSE a
           c == IF <<"stop", 0>> \in asks THEN StopNotice(b) ELSE b
           d == IF c.entry = "starting" THEN Cleanup(c) ELSE c
<1>2. s' = d \/ s' = Reconcile(d, over, soon, ok, full)
  BY <1>1
<1>3. /\ asks' = {} /\ jobs = << >> /\ link = "down" /\ link' = "unavailable"
      /\ UNCHANGED <<over, printed, fanned, carried, wire, faults, jobs>>
  BY DEF Exhaust, Quiet, taskVars, fanVars
<1>4. wire = << >> /\ Good(s) /\ s \in State /\ over \in Hows
  BY <1>3 DEF MonitorInv, Typed, Good, Sane
<1>5. Good(a) /\ (Open(s) <=> Open(a)) /\ a.stopping = s.stopping
  <2>1. still \in BOOLEAN /\ a = [s EXCEPT !.asked = still]
    BY <1>4 DEF State
  <2>2. still = s.asked \/ s.agent = "busy"
    <3>1. <<"task_stop", 0>> \in asks => InTaskStop
      BY DEF InTaskStop
    <3>2. InTaskStop => s.agent = "busy"
      BY DEF MonitorInv
    <3>3. <<"task_stop", 0>> \notin asks => (still <=> s.asked)
      OBVIOUS
    <3>4. s.asked \in BOOLEAN
      BY <1>4 DEF State
    <3> HIDE DEF still
    <3> QED  BY <2>1, <3>1, <3>2, <3>3, <3>4
  <2> HIDE DEF still, a
  <2>3. /\ a \in State /\ Core(a) = Core(s) /\ a.entry = s.entry /\ a.asked = still
        /\ a.agent = s.agent /\ a.pend = s.pend /\ a.stopping = s.stopping
    BY <2>1, <1>4 DEF State, Core
  <2>4. QuietOk(a)
    BY <2>2, <2>3, <1>4 DEF QuietOk, Good
  <2> QED  BY <2>3, <2>4, <1>4, Same
<1> HIDE DEF a
<1>6. Leads(a, b) /\ b.stopping = a.stopping
  <2>1. Leads(a, a)
    BY <1>5, LeadsItself
  <2>2. Accepts(a, Rewatched(a))
    BY <1>5, RewatchedKeeps
  <2> QED  BY <2>1, <2>2 DEF Accepts
<1> HIDE DEF b
<1>7. Good(c)
  <2>1. CASE <<"stop", 0>> \in asks
    <3>1. Open(s) /\ s.stopping # "none"
      BY <2>1 DEF MonitorInv, OneStop, StopPending
    <3>2. Open(b) /\ b.stopping # "none" /\ Good(b)
      BY <3>1, <1>5, <1>6 DEF Leads
    <3> QED  BY <2>1, <3>2, StopNoticeEnds
  <2>2. CASE <<"stop", 0>> \notin asks
    BY <2>2, <1>6 DEF Leads
  <2> QED  BY <2>1, <2>2
<1> HIDE DEF c
<1>8. Good(d)
  <2>1. CASE c.entry = "starting"
    <3>1. Open(c)
      BY <2>1, <1>7 DEF Good, Sane, Over
    <3>2. d = Cleanup(c)
      BY <2>1
    <3> HIDE DEF d
    <3> QED  BY <3>1, <3>2, <1>7, CleanupKeeps
  <2>2. CASE c.entry # "starting"
    BY <2>2, <1>7
  <2> QED  BY <2>1, <2>2
<1> HIDE DEF d
<1>9. Good(s')
  <2>1. Good(Reconcile(d, over, soon, ok, full))
    BY <1>4, <1>8, ReconcileKeeps DEF Leads
  <2> QED  BY <2>1, <1>2, <1>8
<1>10. Typed'
  BY <1>3, <1>4 DEF MonitorInv, Typed
<1>11. /\ StopAt(wire') = {} /\ StopAt(jobs') = {} /\ Answered(wire') = {} /\ Answered(jobs') = {}
  BY <1>3, <1>4, NoMsgs
<1>12. ~StopPending' /\ ~InTaskStop' /\ Stop \notin asks'
  BY <1>3, <1>11 DEF StopPending, InTaskStop
<1>13. Fewer(wire', wire) /\ Fewer(jobs', jobs)
  BY <1>11 DEF Fewer
<1> QED  BY <1>9, <1>10, <1>12, <1>13, Inside

-----------------------------------------------------------------------------
(* The extension's steps. *)

LEMMA ReceiveKeeps == ASSUME MonitorInv, Receive PROVE MonitorInv'
<1> DEFINE m == Head(wire)
<1>1. /\ wire # << >> /\ wire' = Tail(wire) /\ wire \in Seq(Msg)
      /\ \A i, j \in StopAt(wire) : i = j
      /\ link' = link /\ UNCHANGED <<over, printed, fanned, carried, faults>>
      /\ link \notin {"down", "unavailable"}
  BY DEF Receive, MonitorInv, Typed, OneStop, taskVars, fanVars
<1>2. /\ wire' \in Seq(Msg) /\ m \in Msg /\ Fewer(wire', wire)
      /\ IsStop(m) => StopAt(wire) # {} /\ StopAt(wire') = {}
      /\ Answered(wire') \subseteq Answered(wire)
      /\ m.is = "answer" => m.to \in Answered(wire)
  BY <1>1, MsgTaken
<1>3. /\ m.is = "output" => m \in Out
      /\ m.is = "exited" => m.how \in Hows
  BY <1>2, MsgTypes
<1>4. /\ Good(s) /\ jobs \in Seq(Msg) /\ asks \subseteq AskT
      /\ StopPending => Open(s) /\ s.stopping # "none"
      /\ (InTaskStop => s.agent = "busy")
  BY DEF MonitorInv, Typed, OneStop
<1>5. \/ m.is = "output" /\ s' = HandleOutput(s, m) /\ UNCHANGED <<asks, jobs, rare>>
      \/ /\ m.is = "exited" /\ jobs' = jobs
         /\ \E soon, ok, full \in BOOLEAN : After(HandleExit(s, m.how, soon, ok, full), {})
      \/ m.is \in {"answer", "hello"} /\ jobs' = Append(jobs, m) /\ UNCHANGED <<asks, s, rare>>
  BY DEF Receive
<1> HIDE DEF m
<1>6. CASE m.is = "output" /\ s' = HandleOutput(s, m) /\ UNCHANGED <<asks, jobs, rare>>
  <2>1. Accepts(s, s')
    BY <1>3, <1>4, <1>6, HandleOutputKeeps
  <2>2. Typed'
    BY <1>1, <1>2, <1>6 DEF MonitorInv, Typed
  <2>3. Fewer(jobs', jobs)
    BY <1>6, FewerSame
  <2>4. StopPending' => StopPending
    BY <1>2, <1>6 DEF StopPending, Fewer, StopAt
  <2>5. InTaskStop' => InTaskStop
    BY <1>2, <1>6 DEF InTaskStop, Answered
  <2>6. /\ Good(s') /\ (InTaskStop' => s'.agent = "busy")
        /\ StopPending' => Open(s') /\ s'.stopping # "none"
    BY <2>1, <2>4, <2>5, <1>4 DEF Accepts, Leads
  <2> QED  BY <2>2, <2>3, <2>6, <1>2, <1>6, Inside
<1>7. CASE /\ m.is = "exited" /\ jobs' = jobs
           /\ \E soon, ok, full \in BOOLEAN : After(HandleExit(s, m.how, soon, ok, full), {})
  <2>1. PICK soon, ok, full \in BOOLEAN : After(HandleExit(s, m.how, soon, ok, full), {})
    BY <1>7
  <2>2. Leads(s, HandleExit(s, m.how, soon, ok, full))
    BY <1>3, <1>4, <1>7, HandleExitKeeps
  <2>3. /\ Good(s') /\ (s.agent = "busy" => s'.agent = "busy")
        /\ asks' \subseteq asks \cup {Stop}
        /\ Stop \in asks' => Stop \in asks \/ ~StopPending
        /\ StopPending \/ Stop \in asks' => Open(s') /\ s'.stopping # "none"
    BY <2>1, <2>2, AfterKeeps
  <2>4. Stop \in AskT /\ Stop \notin {<<"task_stop", 0>>, <<"look", 0>>}
    BY DEF Stop, AskT
  <2>5. Typed'
    <3>1. asks' \subseteq AskT
      BY <2>3, <2>4, <1>4
    <3> QED  BY <3>1, <1>1, <1>2, <1>7 DEF MonitorInv, Typed
  <2>6. Fewer(jobs', jobs)
    BY <1>7, FewerSame
  <2>7. StopPending' => StopPending \/ Stop \in asks'
    BY <1>2, <2>6 DEF StopPending, Fewer, Stop
  <2>8. InTaskStop' => InTaskStop
    <3>1. Answered(jobs') = Answered(jobs)
      BY <1>7
    <3> QED  BY <3>1, <1>2, <2>3, <2>4 DEF InTaskStop
  <2> QED  BY <2>3, <2>5, <2>6, <2>7, <2>8, <1>2, <1>4, Inside
<1>8. CASE m.is \in {"answer", "hello"} /\ jobs' = Append(jobs, m) /\ UNCHANGED <<asks, s, rare>>
  <2>1. /\ jobs' \in Seq(Msg)
        /\ StopAt(jobs') = StopAt(jobs) \cup IF IsStop(m) THEN {Len(jobs) + 1} ELSE {}
        /\ Answered(jobs') = Answered(jobs) \cup IF m.is = "answer" THEN {m.to} ELSE {}
    BY <1>2, <1>4, <1>8, MsgAdded
  <2>2. Typed'
    BY <1>1, <1>2, <1>8, <2>1 DEF MonitorInv, Typed
  <2>3. /\ Good(s') /\ s'.agent = s.agent /\ (Open(s) => Open(s')) /\ s'.stopping = s.stopping
    BY <1>4, <1>8
  <2>4. /\ \A i, j \in StopAt(wire') : i = j
        /\ StopAt(wire') # {} => StopAt(wire) # {}
    BY <1>2 DEF Fewer
  <2>5. /\ \A i, j \in StopAt(jobs) : i = j
        /\ <<"stop", 0>> \in asks => StopAt(wire) = {}
        /\ <<"stop", 0>> \in asks \/ StopAt(wire) # {} => StopAt(jobs) = {}
    BY DEF MonitorInv, OneStop
  <2>6. StopPending' => StopPending
    BY <2>1, <2>4, <1>2, <1>8 DEF StopPending
  <2>7. OneStop'
    <3>1. CASE IsStop(m)
      <4>1. /\ StopAt(jobs') = {Len(jobs) + 1} /\ StopAt(wire') = {} /\ asks' = asks
            /\ <<"stop", 0>> \notin asks
        BY <3>1, <2>1, <2>5, <1>2, <1>8
      <4> QED  BY <4>1, <2>3, <2>6, <1>4 DEF OneStop
    <3>2. CASE ~IsStop(m)
      <4>1. StopAt(jobs') = StopAt(jobs) /\ asks' = asks
        BY <3>2, <2>1, <1>8
      <4> QED  BY <4>1, <2>3, <2>4, <2>5, <2>6, <1>4 DEF OneStop
    <3> QED  BY <3>1, <3>2
  <2>8. InTaskStop' => InTaskStop
    BY <2>1, <1>2, <1>8 DEF InTaskStop
  <2> QED  BY <2>2, <2>3, <2>7, <2>8, <1>4 DEF MonitorInv
<1> QED  BY <1>5, <1>6, <1>7, <1>8

LEMMA StartedKeeps == ASSUME MonitorInv, Started PROVE MonitorInv'
<1> DEFINE x == [s EXCEPT !.entry = "live", !.early = << >>]
           live == AcceptAll(x, s.early)
<1>1. /\ Job("answer", "start") /\ s.entry = "starting"
      /\ UNCHANGED <<taskVars, fanVars, link, wire, faults>>
  BY DEF Started, Nothing
<1>2. \E soon, ok, full \in BOOLEAN :
        \/ After(live, {<<"watch", 0>>})
        \/ s.earlyExit # "none" /\ After(HandleExit(live, s.earlyExit, soon, ok, full), {})
  BY DEF Started
<1>3. Good(s) /\ s \in State /\ s.early \in Seq(Out) /\ s.earlyExit \in Hows \cup {"none"}
  BY DEF MonitorInv, Good, Sane, State
<1>4. Leads(s, x)
  <2>1. << >> \in Seq(Out)
    OBVIOUS
  <2>2. /\ x \in State /\ Core(x) = Core(s) /\ x.entry = "live" /\ x.asked = s.asked
        /\ x.agent = s.agent /\ x.pend = s.pend
    BY <1>3, <2>1 DEF State, Core
  <2> HIDE DEF x
  <2>3. QuietOk(x)
    BY <1>3, <2>2 DEF QuietOk, Good
  <2>4. Good(x) /\ (Open(s) <=> Open(x))
    BY <1>1, <1>3, <2>2, <2>3, Same
  <2> QED  BY <2>2, <2>4 DEF Leads, Core
<1> HIDE DEF x
<1>5. Leads(s, live) /\ Good(live)
  <2>1. Accepts(x, live)
    BY <1>3, <1>4, AcceptAllKeeps DEF Leads
  <2> QED  BY <2>1, <1>4, LeadsOn DEF Accepts, Leads
<1> HIDE DEF live
<1>6. \E y : \E more \in {{}, {<<"watch", 0>>}} : Leads(s, y) /\ After(y, more)
  <2>1. PICK soon, ok, full \in BOOLEAN :
        \/ After(live, {<<"watch", 0>>})
        \/ s.earlyExit # "none" /\ After(HandleExit(live, s.earlyExit, soon, ok, full), {})
    BY <1>2
  <2>2. CASE After(live, {<<"watch", 0>>})
    BY <2>2, <1>5
  <2>3. CASE s.earlyExit # "none" /\ After(HandleExit(live, s.earlyExit, soon, ok, full), {})
    <3>1. Leads(live, HandleExit(live, s.earlyExit, soon, ok, full))
      BY <2>3, <1>3, <1>5, HandleExitKeeps
    <3> QED  BY <2>3, <3>1, <1>5, LeadsOn
  <2> QED  BY <2>1, <2>2, <2>3
<1>7. PICK y : \E more \in {{}, {<<"watch", 0>>}} : Leads(s, y) /\ After(y, more)
  BY <1>6
<1>8. PICK more \in {{}, {<<"watch", 0>>}} : Leads(s, y) /\ After(y, more)
  BY <1>7
<1>9. /\ more \subseteq AskT /\ Stop \notin more
      /\ more \cap {<<"task_stop", 0>>, <<"look", 0>>} = {}
  BY DEF AskT, Stop
<1> QED  BY <1>1, <1>8, <1>9, JobDone, AfterJob

(* A job that changes none of what the invariant reads. *)
LEMMA Cosmetic ==
  ASSUME MonitorInv, s' \in State, Core(s') = Core(s), s'.entry = s.entry, QuietOk(s'),
         s.agent = "busy" => s'.agent = "busy", Typed', UNCHANGED wire,
         Fewer(jobs', jobs), Answered(jobs') \subseteq Answered(jobs),
         Stop \in asks' => Stop \in asks,
         asks' \subseteq asks \cup {a \in AskT : a[1] \in {"watch", "list"}}
  PROVE  MonitorInv'
<1>1. Good(s) /\ (StopPending => Open(s) /\ s.stopping # "none") /\ (InTaskStop => s.agent = "busy")
  BY DEF MonitorInv, OneStop
<1>2. Good(s') /\ (Open(s) <=> Open(s')) /\ s'.stopping = s.stopping
  BY <1>1, Same DEF Core
<1>3. Fewer(wire', wire)
  BY FewerSame
<1>4. StopPending' => StopPending
  BY <1>3 DEF Fewer, StopPending, Stop
<1>5. InTaskStop' => InTaskStop
  <2>1. asks' \cap {<<"task_stop", 0>>, <<"look", 0>>} \subseteq asks
    OBVIOUS
  <2>2. Answered(wire') = Answered(wire)
    OBVIOUS
  <2> QED  BY <2>1, <2>2 DEF InTaskStop
<1> QED  BY <1>1, <1>2, <1>3, <1>4, <1>5, Inside DEF Stop, StopPending

LEMMA ReconnectedKeeps == ASSUME MonitorInv, Reconnected PROVE MonitorInv'
<1>1. /\ Job("hello", "") /\ link' = "up"
      /\ UNCHANGED <<over, printed, fanned, carried, wire, faults>>
  BY DEF Reconnected, taskVars, fanVars
<1>2. s \in State /\ QuietOk(s) /\ asks \subseteq AskT /\ faults \in Nat
  BY DEF MonitorInv, Typed, Good, Sane
<1>3. s' = s \/ \E live \in BOOLEAN : s' = [s EXCEPT !.recovering = live]
  BY DEF Reconnected
<1>4. \E what \in {"watch", "list"} : asks' = asks \/ asks' = asks \cup {<<what, faults>>}
  BY DEF Reconnected
<1>5. /\ s' \in State /\ Core(s') = Core(s) /\ s'.entry = s.entry /\ s'.agent = s.agent
      /\ s'.pend = s.pend /\ s'.asked = s.asked
  BY <1>2, <1>3 DEF State, Core
<1>6. QuietOk(s')
  BY <1>2, <1>5 DEF QuietOk
<1>7. \A what \in {"watch", "list"} :
        <<what, faults>> \in AskT /\ <<what, faults>> # Stop /\ <<what, faults>>[1] = what
  BY <1>2 DEF AskT, Stop
<1>8. /\ asks' \subseteq asks \cup {a \in AskT : a[1] \in {"watch", "list"}}
      /\ Stop \in asks' => Stop \in asks
  BY <1>4, <1>7
<1>9. jobs' \in Seq(Msg) /\ Fewer(jobs', jobs) /\ Answered(jobs') \subseteq Answered(jobs)
  BY <1>1, JobDone
<1>10. Typed'
  BY <1>1, <1>2, <1>8, <1>9 DEF MonitorInv, Typed
<1> QED  BY <1>1, <1>5, <1>6, <1>8, <1>9, <1>10, Cosmetic

LEMMA WatchAnsweredKeeps == ASSUME MonitorInv, WatchAnswered PROVE MonitorInv'
<1> DEFINE more == {<<"list", Head(jobs).to[2]>>}
<1>1. /\ Job("answer", "watch") /\ After(Rewatched(s), more)
      /\ UNCHANGED <<taskVars, fanVars, link, wire, faults>>
  BY DEF WatchAnswered, Nothing
<1>2. Head(jobs).to \in AskT
  BY <1>1, JobDone
<1>3. Head(jobs).to[2] \in Nat
  BY <1>2 DEF AskT
<1>4. /\ more \subseteq AskT /\ Stop \notin more
      /\ more \cap {<<"task_stop", 0>>, <<"look", 0>>} = {}
  BY <1>3 DEF AskT, Stop
<1> HIDE DEF more
<1>5. Leads(s, Rewatched(s))
  BY RewatchedKeeps DEF MonitorInv, Accepts
<1> QED  BY <1>1, <1>4, <1>5, JobDone, AfterJob

LEMMA NoMore ==
  {} \subseteq AskT /\ Stop \notin {} /\ {} \cap {<<"task_stop", 0>>, <<"look", 0>>} = {}
  OBVIOUS

LEMMA SyncedKeeps == ASSUME MonitorInv, Synced PROVE MonitorInv'
<1>1. PICK what \in {"list", "look"} : Job("answer", what)
  BY DEF Synced
<1>2. PICK soon, ok, full \in BOOLEAN :
        After(Reconcile(s, Head(jobs).how, soon, ok, full), {})
  BY DEF Synced
<1>3. UNCHANGED <<taskVars, fanVars, link, wire, faults>>
  BY DEF Synced, Nothing
<1>4. /\ Head(jobs).how \in Hows
      /\ jobs' \in Seq(Msg) /\ Fewer(jobs', jobs) /\ Answered(jobs') \subseteq Answered(jobs)
  BY <1>1, JobDone
<1>5. Leads(s, Reconcile(s, Head(jobs).how, soon, ok, full))
  BY <1>4, ReconcileKeeps DEF MonitorInv
<1> QED  BY <1>2, <1>3, <1>4, <1>5, NoMore, AfterJob

LEMMA StoppedKeeps == ASSUME MonitorInv, Stopped PROVE MonitorInv'
<1>1. /\ Job("answer", "stop") /\ s' = StopNotice(s) /\ asks' = asks
      /\ UNCHANGED <<over, printed, fanned, carried, link, wire, faults>>
  BY DEF Stopped, Nothing, taskVars, fanVars
<1>2. /\ jobs' \in Seq(Msg) /\ Fewer(jobs', jobs) /\ Answered(jobs') \subseteq Answered(jobs)
      /\ IsStop(Head(jobs)) => StopPending /\ StopAt(jobs') = {}
      /\ Head(jobs).to[1] = "stop"
  BY <1>1, JobDone
<1>3. IsStop(Head(jobs))
  BY <1>1, <1>2 DEF IsStop, Job
<1>4. StopAt(jobs) # {} /\ Open(s) /\ s.stopping # "none" /\ Good(s)
  <2>1. jobs \in Seq(Msg) /\ jobs # << >>
    BY <1>1 DEF Job, MonitorInv, Typed
  <2>2. 1 \in StopAt(jobs)
    <3>1. 1 \in DOMAIN jobs /\ Head(jobs) = jobs[1]
      BY <2>1
    <3> QED  BY <3>1, <1>3 DEF StopAt, IsStop
  <2> QED  BY <2>2, <1>2, <1>3 DEF MonitorInv, OneStop
<1>5. StopAt(wire) = {} /\ Stop \notin asks
  BY <1>4 DEF MonitorInv, OneStop, Stop
<1>6. Good(s') /\ (s'.agent = "busy" <=> s.agent = "busy")
  BY <1>1, <1>4, StopNoticeEnds
<1>7. StopAt(wire') = StopAt(wire) /\ Answered(wire') = Answered(wire)
  BY <1>1
<1>8. ~StopPending'
  BY <1>1, <1>2, <1>3, <1>5, <1>7 DEF StopPending, Stop
<1>9. Typed'
  BY <1>1, <1>2 DEF MonitorInv, Typed
<1>10. InTaskStop' => InTaskStop
  BY <1>1, <1>2, <1>7 DEF InTaskStop
<1>11. Fewer(wire', wire) /\ (InTaskStop => s.agent = "busy")
  BY <1>1, FewerSame DEF MonitorInv
<1> QED  BY <1>1, <1>2, <1>5, <1>6, <1>8, <1>9, <1>10, <1>11, Inside

LEMMA TaskStoppedKeeps == ASSUME MonitorInv, TaskStopped PROVE MonitorInv'
<1> DEFINE more == {<<"look", 0>>}
<1>1. /\ Job("answer", "task_stop") /\ After(s, more)
      /\ UNCHANGED <<taskVars, fanVars, link, wire, faults>>
  BY DEF TaskStopped, Nothing
<1>2. more \subseteq AskT /\ Stop \notin more
  BY DEF AskT, Stop
<1> HIDE DEF more
<1>3. Leads(s, s)
  BY LeadsItself DEF MonitorInv
<1>4. s.agent = "busy"
  <2>1. Head(jobs).to \in AskT /\ Head(jobs).to[1] = "task_stop" /\ Head(jobs).to \in Answered(jobs)
    BY <1>1, JobDone
  <2>2. Head(jobs).to = <<"task_stop", 0>>
    BY <2>1 DEF AskT
  <2> QED  BY <2>1, <2>2 DEF MonitorInv, InTaskStop
<1> QED  BY <1>1, <1>2, <1>3, <1>4, JobDone, AfterJob

LEMMA EmitKeeps == ASSUME MonitorInv, Emit PROVE MonitorInv'
<1>1. PICK ok, full \in BOOLEAN : After(OnBatch(s, ok, full), {})
  BY DEF Emit
<1>2. jobs' = jobs /\ UNCHANGED <<taskVars, fanVars, link, wire, faults>> /\ jobs \in Seq(Msg)
  BY DEF Emit, Nothing, MonitorInv, Typed
<1>3. Leads(s, OnBatch(s, ok, full))
  BY OnBatchKeeps DEF MonitorInv
<1>4. Fewer(jobs', jobs) /\ Answered(jobs') \subseteq Answered(jobs)
  BY <1>2, FewerSame
<1> QED  BY <1>1, <1>2, <1>3, <1>4, NoMore, AfterJob

LEMMA TimeoutKeeps == ASSUME MonitorInv, Timeout PROVE MonitorInv'
<1> DEFINE y == [s EXCEPT !.stopped = TRUE, !.stopping = "timeout"]
<1>1. /\ After(y, {}) /\ s.entry = "live" /\ ~s.stopped
      /\ jobs' = jobs /\ UNCHANGED <<taskVars, fanVars, link, wire, faults>> /\ jobs \in Seq(Msg)
  BY DEF Timeout, Nothing, MonitorInv, Typed
<1>2. Good(s) /\ Sane(s) /\ s \in State
  BY DEF MonitorInv, Good, Sane
<1>3. /\ y \in State /\ y.stopped /\ y.stopping = "timeout" /\ y.entry = "live"
      /\ y.told = s.told /\ y.held = s.held /\ y.pend = s.pend /\ y.buffer = s.buffer
      /\ y.cursor = s.cursor /\ y.asked = s.asked /\ y.agent = s.agent
  BY <1>1, <1>2 DEF State
<1> HIDE DEF y
<1>4. Open(s) /\ Open(y) /\ s.stopping = "none"
  <2>1. Open(s) /\ s.stopping = "none"
    BY <1>1, <1>2 DEF Sane, Over
  <2> QED  BY <2>1, <1>3 DEF Open
<1>5. Sane(y)
  <2>1. Ordered(y)
    BY <1>1, <1>2, <1>3 DEF Sane, Ordered
  <2> QED  BY <2>1, <1>2, <1>3, <1>4 DEF Sane
<1>6. QuietOk(y) /\ Tells(y)
  BY <1>2, <1>3, <1>4, OpenTells DEF Good, QuietOk, Tells
<1>7. Leads(s, y)
  BY <1>3, <1>4, <1>5, <1>6 DEF Leads, Good
<1>8. Fewer(jobs', jobs) /\ Answered(jobs') \subseteq Answered(jobs)
  BY <1>1, FewerSame
<1> QED  BY <1>1, <1>7, <1>8, NoMore, AfterJob

LEMMA TaskStopKeeps == ASSUME MonitorInv, TaskStop PROVE MonitorInv'
<1>1. /\ s.agent = "busy" /\ s' = [s EXCEPT !.asked = TRUE]
      /\ asks' = asks \cup {<<"task_stop", 0>>} /\ jobs' = jobs
      /\ UNCHANGED <<over, printed, fanned, carried, link, wire, faults>>
  BY DEF TaskStop, Nothing, taskVars, fanVars
<1>2. Good(s) /\ s \in State /\ (StopPending => Open(s) /\ s.stopping # "none")
  BY DEF MonitorInv, Good, Sane, OneStop
<1>3. /\ s' \in State /\ Core(s') = Core(s) /\ s'.entry = s.entry /\ s'.agent = s.agent
      /\ s'.pend = s.pend /\ s'.stopping = s.stopping
  BY <1>1, <1>2 DEF State, Core
<1>4. QuietOk(s')
  BY <1>1, <1>3 DEF QuietOk
<1>5. Good(s') /\ (Open(s) <=> Open(s'))
  BY <1>2, <1>3, <1>4, Same
<1>6. <<"task_stop", 0>> \in AskT /\ <<"task_stop", 0>> # Stop
  BY DEF AskT, Stop
<1>7. Typed'
  BY <1>1, <1>6 DEF MonitorInv, Typed
<1>8. Fewer(wire', wire) /\ Fewer(jobs', jobs)
  BY <1>1, FewerSame
<1>9. Stop \in asks' => Stop \in asks
  BY <1>1, <1>6
<1>10. StopPending' => StopPending
  BY <1>8, <1>9 DEF StopPending, Fewer, Stop
<1> QED  BY <1>1, <1>2, <1>3, <1>5, <1>7, <1>8, <1>9, <1>10, Inside

-----------------------------------------------------------------------------
(* The agent's steps. *)

LEMMA TurnBeginsKeeps == ASSUME MonitorInv, TurnBegins PROVE MonitorInv'
<1>1. /\ s' = [s EXCEPT !.agent = "busy"] /\ asks' = asks /\ jobs' = jobs
      /\ UNCHANGED <<over, printed, fanned, carried, link, wire, faults>>
  BY DEF TurnBegins, Nothing, taskVars, fanVars
<1>2. s \in State /\ QuietOk(s)
  BY DEF MonitorInv, Good, Sane
<1>3. s' \in State /\ Core(s') = Core(s) /\ s'.entry = s.entry /\ s'.agent = "busy"
  BY <1>1, <1>2 DEF State, Core
<1>4. QuietOk(s')
  BY <1>3 DEF QuietOk
<1>5. Typed'
  BY <1>1 DEF MonitorInv, Typed
<1>6. Fewer(jobs', jobs) /\ Answered(jobs') \subseteq Answered(jobs)
  BY <1>1, FewerSame
<1> QED  BY <1>1, <1>3, <1>4, <1>5, <1>6, Cosmetic

LEMMA TurnEndsKeeps == ASSUME MonitorInv, TurnEnds PROVE MonitorInv'
<1> DEFINE a == [s EXCEPT !.agent = "idle"]
<1>1. /\ s' = Settled(a) /\ asks' = asks /\ jobs' = jobs /\ ~InTaskStop
      /\ UNCHANGED <<over, printed, fanned, carried, link, wire, faults>>
  BY DEF TurnEnds, Nothing, taskVars, fanVars
<1>2. Good(s) /\ (StopPending => Open(s) /\ s.stopping # "none")
  BY DEF MonitorInv, OneStop
<1>3. Good(s') /\ s'.stopping = s.stopping /\ (Open(s) => Open(s'))
  BY <1>1, <1>2, SettledKeeps
<1>4. Typed'
  BY <1>1 DEF MonitorInv, Typed
<1>5. Fewer(wire', wire) /\ Fewer(jobs', jobs)
  BY <1>1, FewerSame
<1>6. (StopPending' => StopPending) /\ (InTaskStop' => InTaskStop)
  BY <1>1 DEF StopPending, InTaskStop
<1> QED  BY <1>1, <1>2, <1>3, <1>4, <1>5, <1>6, Inside

LEMMA StutterKeeps == ASSUME MonitorInv, UNCHANGED vars PROVE MonitorInv'
<1>1. /\ s' = s /\ asks' = asks /\ jobs' = jobs
      /\ UNCHANGED <<over, printed, fanned, carried, link, wire, faults>>
  BY DEF vars
<1>2. Typed'
  BY <1>1 DEF MonitorInv, Typed
<1>3. /\ \A i, j \in StopAt(wire) : i = j
      /\ Stop \in asks => StopAt(wire) = {}
  BY DEF MonitorInv, OneStop, Stop
<1> QED  BY <1>1, <1>2, <1>3, StopsPrimed, Outside

LEMMA StepKeeps == ASSUME MonitorInv, [Next]_vars PROVE MonitorInv'
<1>1. CASE AnswerStart \/ (\E a \in Ask : AnswerAsk(a)) \/ PrintLine \/ FanOut \/ Exits \/ PushExit
  BY <1>1, AnswerStartKeeps, AnswerAskKeeps, PrintLineKeeps, FanOutKeeps, ExitsKeeps, PushExitKeeps
<1>2. CASE Drop \/ Upgrade \/ Closed \/ SayHello \/ Exhaust
  BY <1>2, DropKeeps, UpgradeKeeps, ClosedKeeps, SayHelloKeeps, ExhaustKeeps
<1>3. CASE \/ Receive \/ Started \/ Reconnected \/ WatchAnswered \/ Synced \/ Stopped
           \/ TaskStopped
  BY <1>3, ReceiveKeeps, StartedKeeps, ReconnectedKeeps, WatchAnsweredKeeps, SyncedKeeps,
     StoppedKeeps, TaskStoppedKeeps
<1>4. CASE Emit \/ Timeout \/ TaskStop \/ TurnBegins \/ TurnEnds
  BY <1>4, EmitKeeps, TimeoutKeeps, TaskStopKeeps, TurnBeginsKeeps, TurnEndsKeeps
<1>5. CASE UNCHANGED vars
  BY <1>5, StutterKeeps
<1> QED  BY <1>1, <1>2, <1>3, <1>4, <1>5 DEF Next

(* The extension's state is sound at every step, in whatever order output, *)
(* exits, answers, timers and broken connections reach it (monitor.ts and  *)
(* notify.ts).                                                             *)
THEOREM MonitorSound == Spec => []MonitorInv
<1>1. Init => MonitorInv
  BY InitKeeps
<1>2. MonitorInv /\ [Next]_vars => MonitorInv'
  BY StepKeeps
<1> QED  BY <1>1, <1>2, PTL DEF Spec

-----------------------------------------------------------------------------
(* What it says of the messages. *)

LEMMA InOrderHeard == MonitorInv => LinesInOrder
  BY DEF MonitorInv, Good, Sane, Ordered, InOrder, LinesInOrder

(* All that was said, in one sequence. *)
LEMMA Said ==
  ASSUME NEW x, Sane(x), ~Open(x), NEW said, said = x.told \o x.held
  PROVE  /\ said \in Seq(ItemT)
         /\ \A i, j \in Enders(said) : i = j
         /\ \A i \in Enders(said) : \A j \in DOMAIN said : i < j => ~said[j].wakes
         /\ SaidIn(said) = Kept(x)
         /\ x.pend = NoEvents
<1> DEFINE y == [x EXCEPT !.told = said, !.held = << >>]
<1>1. x \in State /\ said \in Seq(ItemT) /\ << >> \in Seq(ItemT) /\ x.pend = NoEvents
  <2>1. x \in State /\ x.told \in Seq(ItemT) /\ x.held \in Seq(ItemT)
    BY DEF Sane, State
  <2> QED  BY <2>1 DEF Sane, Over, Shut
<1>2. /\ y \in State /\ Registry(y) = Registry(x) /\ y.pend = x.pend /\ y.told = said
      /\ y.held = << >>
  BY <1>1 DEF State, Registry
<1> HIDE DEF y
<1>3. Sane(y) /\ ~Open(y) /\ Kept(y) = Kept(x)
  BY <1>2, HeldTold
<1>4. Shut(y)
  BY <1>3 DEF Sane, Over
<1>5. /\ \A i, j \in Enders(said) : i = j
      /\ \A i \in Enders(said) : \A j \in DOMAIN said : i < j => ~said[j].wakes
  BY <1>2, <1>4 DEF Shut
<1>6. SaidIn(said) = Kept(y)
  BY <1>1, <1>2, Empty DEF Kept, Heard
<1> QED  BY <1>1, <1>3, <1>5, <1>6

LEMMA OpenSaid ==
  ASSUME NEW x, Sane(x), Open(x)
  PROVE  x.told \o x.held = x.told /\ \A i \in DOMAIN x.told : x.told[i].kind = Event
<1>1. x.told \in Seq(ItemT) /\ x.held = << >>
  BY DEF Sane, State, Open
<1> QED  BY <1>1 DEF Open

LEMMA EndersIn == ASSUME NEW q \in Seq(ItemT) PROVE EndsIn(q) = Enders(q)
<1>1. \A i \in DOMAIN q : q[i] \in ItemT
  OBVIOUS
<1>2. \A m \in ItemT : m.kind \in Ends <=> m.kind # Event
  BY DEF ItemT, Ends, Event
<1> QED  BY <1>1, <1>2 DEF EndsIn, Enders

LEMMA EndHeard == MonitorInv => EndIsLast
<1> SUFFICES ASSUME MonitorInv PROVE EndIsLast
  OBVIOUS
<1> DEFINE said == s.told \o s.held
<1>1. Sane(s) /\ s \in State
  BY DEF MonitorInv, Good, Sane
<1>2. said \in Seq(ItemT) /\ DOMAIN said \subseteq Nat
  <2>1. s.told \in Seq(ItemT) /\ s.held \in Seq(ItemT)
    BY <1>1 DEF State
  <2> QED  BY <2>1, ItemsCat
<1>4. CASE Open(s)
  <2>1. said = s.told /\ \A i \in DOMAIN s.told : s.told[i].kind = Event
    BY <1>1, <1>4, OpenSaid
  <2> HIDE DEF said
  <2>2. Enders(said) = {}
    BY <2>1 DEF Enders
  <2>3. EndsIn(said) = {}
    BY <2>2, <1>2, EndersIn
  <2> QED  BY <2>3 DEF EndIsLast, said
<1>5. CASE ~Open(s)
  <2>1. /\ \A i, j \in Enders(said) : i = j
        /\ \A i \in Enders(said) : \A j \in DOMAIN said : i < j => ~said[j].wakes
    BY <1>1, <1>5, Said
  <2> HIDE DEF said
  <2>2. EndsIn(said) = Enders(said)
    BY <1>2, EndersIn
  <2>3. ASSUME NEW i \in EndsIn(said), NEW j \in DOMAIN said, j # i
        PROVE  said[j].kind = Event /\ (j > i => ~said[j].wakes)
    <3>1. i \in Enders(said) /\ i \in DOMAIN said /\ i \in Nat /\ j \in Nat
      BY <2>2, <2>3, <1>2 DEF Enders
    <3>2. said[j].kind = Event
      BY <3>1, <2>1, <2>3 DEF Enders
    <3>3. j > i => ~said[j].wakes
      BY <3>1, <2>1
    <3> QED  BY <3>2, <3>3
  <2> QED  BY <2>3 DEF EndIsLast, said
<1> QED  BY <1>4, <1>5

LEMMA ExitHeard == MonitorInv => ExitTellsAll
<1> SUFFICES ASSUME MonitorInv PROVE ExitTellsAll
  OBVIOUS
<1> DEFINE said == s.told \o s.held
<1>1. Sane(s) /\ s \in State /\ Tells(s)
  BY DEF MonitorInv, Good, Sane
<1>2. s.told \in Seq(ItemT) /\ s.held \in Seq(ItemT)
  BY <1>1 DEF State
<1> SUFFICES ASSUME \E i \in DOMAIN said : said[i].kind = "exited"
             PROVE  /\ ToSet(s.taken) = SaidIn(said)
                    /\ \A i \in DOMAIN said : Newest(said[i])
  BY DEF ExitTellsAll, SaidIn
<1>3. PICK i \in DOMAIN said : said[i].kind = "exited"
  OBVIOUS
<1>4. ~(NoExit(s.told) /\ NoExit(s.held))
  <2>0. /\ \A k \in DOMAIN s.told : said[k] = s.told[k]
        /\ \A k \in DOMAIN said : \/ k \in DOMAIN s.told
                                  \/ /\ k - Len(s.told) \in DOMAIN s.held
                                     /\ said[k] = s.held[k - Len(s.told)]
    BY <1>2, ItemsCat
  <2> HIDE DEF said
  <2>1. \/ i \in DOMAIN s.told /\ said[i] = s.told[i]
        \/ i - Len(s.told) \in DOMAIN s.held /\ said[i] = s.held[i - Len(s.told)]
    BY <2>0, <1>3
  <2> QED  BY <2>1, <1>3 DEF NoExit
<1>5. ~Open(s)
  BY <1>4, OpenTells
<1> HIDE DEF said
<1>6. SaidIn(said) = Kept(s) /\ said \in Seq(ItemT)
  BY <1>1, <1>5, Said DEF said
<1>7. ToSet(s.taken) = Kept(s)
  BY <1>1, <1>4, <1>5 DEF Tells
<1>8. ASSUME NEW k \in DOMAIN said PROVE Newest(said[k])
  <2>1. said[k] \in ItemT
    BY <1>6
  <2> QED  BY <2>1 DEF ItemT
<1> QED  BY <1>6, <1>7, <1>8

(* The model hears the monitor's lines in the order they were printed and  *)
(* none twice (LineBatcher, coalescing in notify.ts, rewatchAll).          *)
THEOREM LinesAlwaysInOrder == Spec => []LinesInOrder
  BY MonitorSound, InOrderHeard, PTL

(* A monitor ends once for the model, and nothing of it wakes the model    *)
(* afterwards (handleExit, timeout and autoStop of monitor.ts).            *)
THEOREM EndAlwaysLast == Spec => []EndIsLast
  BY MonitorSound, EndHeard, PTL

(* When a monitor has ended by itself, every line taken from the manager   *)
(* was shown, counted beside a later one, or counted as dropped            *)
(* (handleExit; notifyMonitorEvent and flushMonitor of notify.ts).         *)
THEOREM ExitAlwaysTellsAll == Spec => []ExitTellsAll
  BY MonitorSound, ExitHeard, PTL

-----------------------------------------------------------------------------
(* The rows of the index.  The constants and variables are those of        *)
(* WorkList; three of its names are taken by Monitors and renamed here.    *)

CONSTANTS Shell, Mon, Children, Retain, FinishedCap, WorkOps, MaxOps

VARIABLES
  rec, workWire, workAsks, bash, monitor, early, awaited, promised, child, disk, row,
  listing, ops

W == INSTANCE WorkList WITH Ops <- WorkOps, wire <- workWire, asks <- workAsks

ExitAfter(w, k, t) == \E j \in DOMAIN w : j > k /\ w[j] = W!Message("exited", t)
ExitSaid(w, t) == \E j \in DOMAIN w : w[j] = W!Message("exited", t)

WireSet ==
  [is : {"started", "exited"}, of : W!Task] \cup [is : {"done", "budget"}, of : Shell] \cup
  [is : W!ListAsk, rec : [W!Task -> {"none", "running", "ended"}]]

IsRows(r) == r = [i \in W!Id |-> r[i]]

WorkTypes ==
  /\ rec \in [W!Task -> {"none", "running", "ended"}]
  /\ workWire \in Seq(WireSet)
  /\ workAsks \subseteq W!ListAsk
  /\ bash = [c \in Shell |-> bash[c]] /\ monitor = [m \in Mon |-> monitor[m]]
  /\ IsRows(row)

(* What is read before an exit on the wire: that a command was started, or *)
(* that bash's budget for it has passed.                                   *)
ToldBefore(w, r) ==
  \A k \in DOMAIN w : w[k].is \in {"started", "budget"} /\ r[w[k].of] = "ended"
                      => ExitAfter(w, k, w[k].of)

(* Who still has to make a row hears of the exit, or has its stash.        *)
HearsEnd(t) == rec[t] = "ended" => ExitSaid(workWire, t) \/ t \in early
LateHears == \A c \in Shell : bash[c] = "late" => HearsEnd(c)
OpenHears == \A m \in Mon : monitor[m] = "open" => HearsEnd(m)

(* Of the commands only one whose wake is owed has a live row.             *)
RowsAwaited(rows, aw) == \A c \in Shell : W!Live(rows, c) => c \in aw

WorkInv ==
  /\ WorkTypes /\ ToldBefore(workWire, rec) /\ LateHears /\ OpenHears
  /\ RowsAwaited(row, awaited)

-----------------------------------------------------------------------------
(* Rows.  Only the put of a live item makes a row live.                    *)

NoneNew(r, q) == \A i \in W!Id : W!Live(q, i) => W!Live(r, i)

LEMMA PruningKills ==
  ASSUME NEW r, NEW q \in W!Prunings(r)
  PROVE  /\ IsRows(q) /\ NoneNew(r, q)
<1>1. PICK K : q = [i \in W!Id |-> IF i \in W!Finished(r) \ K THEN W!NoRow ELSE r[i]]
  BY DEF W!Prunings
<1>2. IsRows(q)
  BY <1>1 DEF IsRows
<1>3. ASSUME NEW i \in W!Id, W!Live(q, i) PROVE W!Live(r, i)
  BY <1>1, <1>3 DEF W!Live, W!Active, W!NoRow
<1> QED  BY <1>2, <1>3 DEF NoneNew

LEMMA PutKills ==
  ASSUME NEW r, IsRows(r), NEW i \in W!Id, NEW item, NEW q \in W!Upsert(r, i, item)
  PROVE  /\ IsRows(q) /\ \A j \in W!Id \ {i} : W!Live(q, j) => W!Live(r, j)
         /\ W!Live(q, i) => item.status \in W!Active
<1> DEFINE p == [r EXCEPT ![i] = item]
<1>1. q \in W!Prunings(p)
  BY DEF W!Upsert
<1>2. p[i] = item /\ \A j \in W!Id \ {i} : p[j] = r[j]
  BY DEF IsRows
<1> HIDE DEF p
<1>3. IsRows(q) /\ NoneNew(p, q)
  BY <1>1, PruningKills
<1> QED  BY <1>2, <1>3 DEF NoneNew, W!Live

LEMMA PatchKills ==
  ASSUME NEW r, IsRows(r), NEW i \in W!Id, NEW q \in W!Patch(r, i)
  PROVE  IsRows(q) /\ NoneNew(r, q) /\ ~W!Live(q, i)
<1>1. CASE r[i].status = "none"
  BY <1>1 DEF W!Patch, NoneNew, W!Live, W!Active
<1>2. CASE r[i].status # "none"
  <2>1. q \in W!Upsert(r, i, W!Now("ended")) /\ W!Now("ended").status \notin W!Active
    BY <1>2 DEF W!Patch, W!Now, W!Active
  <2> QED  BY <2>1, PutKills DEF NoneNew
<1> QED  BY <1>1, <1>2

LEMMA ClosingKills ==
  ASSUME NEW r, IsRows(r), NEW ts \in SUBSET W!Task, NEW q \in W!Closings(r, ts)
  PROVE  IsRows(q) /\ NoneNew(r, q) /\ \A t \in ts : ~W!Live(q, t)
<1>1. CASE ts = {}
  BY <1>1 DEF W!Closings, NoneNew
<1>2. CASE ts # {}
  <2> DEFINE p == [i \in W!Id |-> IF i \in ts THEN W!Now("ended") ELSE r[i]]
  <2>1. q \in W!Prunings(p)
    BY <1>2 DEF W!Closings
  <2>2. \A i \in W!Id : W!Live(p, i) => W!Live(r, i) /\ i \notin ts
    BY DEF W!Live, W!Now, W!Active
  <2> HIDE DEF p
  <2>3. IsRows(q) /\ NoneNew(p, q)
    BY <2>1, PruningKills
  <2>4. ts \subseteq W!Id
    BY DEF W!Id
  <2> QED  BY <2>2, <2>3, <2>4 DEF NoneNew
<1> QED  BY <1>1, <1>2

(* The puts of the children one after the other. *)
PutStep(f, next, n) ==
  IF n = 0 THEN {row}
  ELSE IF next[Children[n]].status \in {"new", "gone"} THEN f[n - 1]
  ELSE UNION {W!Upsert(r, Children[n], next[Children[n]]) : r \in f[n - 1]}

IsPuts(f, next, k) == f = [n \in 0..k |-> PutStep(f, next, n)]

LEMMA PutsExist ==
  ASSUME NEW next, NEW N \in Nat
  PROVE  \E f : IsPuts(f, next, N)
<1> DEFINE T == {k \in Nat : \E f : IsPuts(f, next, k)}
<1>1. 0 \in T
  <2> DEFINE f == [n \in 0..0 |-> {row}]
  <2>1. IsPuts(f, next, 0)
    BY DEF IsPuts, PutStep
  <2> QED  BY <2>1
<1>2. ASSUME NEW k \in Nat, k \in T PROVE k + 1 \in T
  <2>1. PICK f : IsPuts(f, next, k)
    BY <1>2
  <2>2. \A n \in 0..k : f[n] = PutStep(f, next, n)
    BY <2>1 DEF IsPuts
  <2> DEFINE g == [n \in 0..(k + 1) |-> IF n = k + 1 THEN PutStep(f, next, k + 1) ELSE f[n]]
             h == [n \in 0..(k + 1) |-> PutStep(g, next, n)]
  <2>3. ASSUME NEW n \in 0..(k + 1) PROVE g[n] = h[n]
    <3>1. CASE n = 0
      <4>1. g[n] = f[n] /\ n \in 0..k
        BY <3>1
      <4>2. h[n] = PutStep(g, next, n)
        OBVIOUS
      <4> HIDE DEF g, h
      <4> QED  BY <3>1, <4>1, <4>2, <2>2 DEF PutStep
    <3>2. CASE n # 0 /\ n # k + 1
      <4>1. n \in 0..k /\ n - 1 \in 0..k /\ g[n] = f[n] /\ g[n - 1] = f[n - 1]
        BY <3>2
      <4>2. h[n] = PutStep(g, next, n)
        OBVIOUS
      <4> HIDE DEF g, h
      <4>3. PutStep(g, next, n) = PutStep(f, next, n)
        BY <4>1, <3>2 DEF PutStep
      <4> QED  BY <4>1, <4>2, <4>3, <2>2
    <3>3. CASE n = k + 1
      <4>1. g[n] = PutStep(f, next, n) /\ n # 0 /\ n - 1 = k /\ g[k] = f[k]
        BY <3>3
      <4>2. h[n] = PutStep(g, next, n)
        OBVIOUS
      <4> HIDE DEF g, h
      <4>3. PutStep(g, next, n) = PutStep(f, next, n)
        BY <4>1 DEF PutStep
      <4> QED  BY <4>1, <4>2, <4>3
    <3> QED  BY <3>1, <3>2, <3>3
  <2>4. g = h
    <3>1. g = [n \in 0..(k + 1) |-> g[n]] /\ h = [n \in 0..(k + 1) |-> h[n]]
      OBVIOUS
    <3> HIDE DEF g, h
    <3> QED  BY <3>1, <2>3
  <2>5. IsPuts(g, next, k + 1)
    <3>1. h = [n \in 0..(k + 1) |-> PutStep(g, next, n)]
      OBVIOUS
    <3> HIDE DEF g, h
    <3> QED  BY <3>1, <2>4 DEF IsPuts
  <2> HIDE DEF g
  <2> QED  BY <2>5
<1>3. Nat \subseteq T
  <2> HIDE DEF T
  <2> QED  BY <1>1, <1>2, ZeroUp
<1> QED  BY <1>3

-----------------------------------------------------------------------------
(* task_list.  Where its sync and its list are, and what they say.         *)

At(w, a) == {k \in DOMAIN w : w[k].is = a}

OnePlace(w, as, a) ==
  /\ a \in as => At(w, a) = {}
  /\ \A j, k \in At(w, a) : j = k

Expects(w, as, l) ==
  /\ "sync" \in as \/ At(w, "sync") # {} => l.step = "syncing"
  /\ "list" \in as \/ At(w, "list") # {} => l.step = "listing"

(* A list x of the manager's says nothing that was not so, and all that    *)
(* task_list found going and over.                                         *)
Knows(x, r, l) ==
  \A t \in W!Task : /\ x[t] = "ended" => r[t] = "ended"
                    /\ t \in l.since => x[t] # "none"
                    /\ t \in l.over => x[t] = "ended"

ListingOk(w, as, l, r) ==
  /\ OnePlace(w, as, "sync") /\ OnePlace(w, as, "list") /\ Expects(w, as, l)
  /\ \A t \in l.since \cap W!Task : r[t] # "none"
  /\ \A k \in At(w, "list") : Knows(w[k].rec, r, l)
  /\ l.step = "answered" => l.tasks \in [W!Task -> {"none", "running", "ended"}]
         /\ Knows(l.tasks, r, l)

(* The exits of what its sync found over come before the answer, and once  *)
(* that is read no row of them is live.                                    *)
OverOk(w, l, r, rows) ==
  /\ \A k \in At(w, "sync") : \A t \in W!Task : /\ t \in l.over <=> w[k].rec[t] = "ended"
                                                /\ t \in l.over => ~ExitAfter(w, k, t)
  /\ l.step \in {"listing", "answered"} =>
       \A t \in l.over \cap W!Task : r[t] = "ended" /\ ~W!Live(rows, t) /\ ~ExitSaid(w, t)

(* Nothing is heard of before it is so. *)
PastOnly(w, e, r) ==
  /\ \A k \in DOMAIN w : /\ w[k].is = "exited" => r[w[k].of] = "ended"
                         /\ w[k].is \in W!ListAsk =>
                              \A t \in W!Task : w[k].rec[t] = "ended" => r[t] = "ended"
  /\ \A t \in e : r[t] = "ended"

(* A command's call is at one place. *)
Answers(w, c) == {k \in DOMAIN w : w[k] \in {W!Message("budget", c), W!Message("done", c)}}
Starts(w, c) == {k \in DOMAIN w : w[k] = W!Message("started", c)}
CallOk(w, b, r, c) ==
  /\ r[c] = "none" => b[c] = "new" /\ Starts(w, c) = {}
  /\ Starts(w, c) # {} => b[c] = "new"
  /\ Answers(w, c) # {} => b[c] = "open"
  /\ \A j, k \in Starts(w, c) : j = k
  /\ \A j, k \in Answers(w, c) : j = k

RowsOk(rows, r, aw, ch) ==
  /\ \A t \in W!Task : W!Live(rows, t) \/ rows[t].status = "none" \/ r[t] = "ended"
  /\ \A c \in aw : W!Live(rows, c)
  /\ \A a \in W!Agent : W!Live(rows, a) \/ ch[a].status \in W!Active
         => rows[a].status = ch[a].status

-----------------------------------------------------------------------------
(* Rows, one by one: a row that is not put is left, or pruned.             *)

Left(r, q, j) == q[j] = r[j] \/ (q[j] = W!NoRow /\ ~W!Live(r, j))

LEMMA LeftOver ==
  ASSUME NEW r, NEW p, NEW q, NEW j, Left(r, p, j), Left(p, q, j)
  PROVE  Left(r, q, j)
<1>1. ~W!Live(p, j) /\ p[j] = r[j] => ~W!Live(r, j)
  BY DEF W!Live
<1> QED  BY <1>1 DEF Left

LEMMA LeftIs ==
  ASSUME NEW r, NEW q, NEW j, Left(r, q, j)
  PROVE  /\ W!Live(q, j) <=> W!Live(r, j)
         /\ W!Live(r, j) => q[j] = r[j]
         /\ q[j].status \in {r[j].status, "none"}
         /\ r[j].status = "none" => q[j].status = "none"
<1>1. W!NoRow.status = "none" /\ "none" \notin W!Active
  BY DEF W!NoRow, W!Active
<1> QED  BY <1>1 DEF Left, W!Live

LEMMA PruningLeaves ==
  ASSUME NEW r, NEW q \in W!Prunings(r), NEW j \in W!Id
  PROVE  Left(r, q, j)
<1>1. PICK K : q = [i \in W!Id |-> IF i \in W!Finished(r) \ K THEN W!NoRow ELSE r[i]]
  BY DEF W!Prunings
<1> QED  BY <1>1 DEF Left, W!Finished

LEMMA PutLeaves ==
  ASSUME NEW r, IsRows(r), NEW i \in W!Id, NEW item, NEW q \in W!Upsert(r, i, item)
  PROVE  /\ \A j \in W!Id \ {i} : Left(r, q, j)
         /\ item.status \in W!Active => q[i] = item
         /\ q[i] \in {item, W!NoRow}
<1> DEFINE p == [r EXCEPT ![i] = item]
<1>1. q \in W!Prunings(p)
  BY DEF W!Upsert
<1>2. p[i] = item /\ \A j \in W!Id \ {i} : p[j] = r[j]
  BY DEF IsRows
<1> HIDE DEF p
<1>3. \A j \in W!Id : Left(p, q, j)
  BY <1>1, PruningLeaves
<1> QED  BY <1>2, <1>3 DEF Left, W!Live

LEMMA PatchLeaves ==
  ASSUME NEW r, IsRows(r), NEW i \in W!Id, NEW q \in W!Patch(r, i)
  PROVE  /\ \A j \in W!Id \ {i} : Left(r, q, j)
         /\ q[i].status \in {"none", "ended"}
<1>1. CASE r[i].status = "none"
  BY <1>1 DEF W!Patch, Left
<1>2. CASE r[i].status # "none"
  <2>1. q \in W!Upsert(r, i, W!Now("ended")) /\ W!Now("ended").status = "ended"
    BY <1>2 DEF W!Patch, W!Now
  <2> QED  BY <2>1, PutLeaves DEF W!NoRow
<1> QED  BY <1>1, <1>2

LEMMA ClosingLeaves ==
  ASSUME NEW r, IsRows(r), NEW ts \in SUBSET W!Task, NEW q \in W!Closings(r, ts)
  PROVE  \A j \in W!Id \ ts : Left(r, q, j)
<1>1. CASE ts = {}
  BY <1>1 DEF W!Closings, Left
<1>2. CASE ts # {}
  <2> DEFINE p == [i \in W!Id |-> IF i \in ts THEN W!Now("ended") ELSE r[i]]
  <2>1. q \in W!Prunings(p)
    BY <1>2 DEF W!Closings
  <2>2. \A j \in W!Id \ ts : p[j] = r[j]
    OBVIOUS
  <2> HIDE DEF p
  <2>3. \A j \in W!Id : Left(p, q, j)
    BY <2>1, PruningLeaves
  <2> QED  BY <2>2, <2>3 DEF Left, W!Live
<1> QED  BY <1>1, <1>2

(* What the puts of a transition come to: the rows of tasks are left, and  *)
(* so is one of a child that is not there; the others say what it says.    *)
Says(q, next, a) ==
  IF next[a].status \in W!Active THEN q[a] = next[a] ELSE ~W!Live(q, a)

Put(q, next, n) ==
  /\ IsRows(q)
  /\ \A t \in W!Task : Left(row, q, t)
  /\ \A a \in W!Agent :
       IF (\E k \in 1..n : Children[k] = a) /\ next[a].status \notin {"new", "gone"}
       THEN Says(q, next, a) ELSE Left(row, q, a)

LEMMA PutNext ==
  ASSUME W!WorkListConstants, NEW next, NEW n \in Nat, n + 1 \in 1..Len(Children),
         next[Children[n + 1]].status \notin {"new", "gone"},
         NEW p, Put(p, next, n), NEW q \in W!Upsert(p, Children[n + 1], next[Children[n + 1]])
  PROVE  Put(q, next, n + 1)
<1> DEFINE c == Children[n + 1]
<1>1. /\ c \in W!Agent /\ c \in W!Id /\ \A t \in W!Task : t \in W!Id \ {c}
      /\ \A a \in W!Agent : a \in W!Id
  BY DEF W!WorkListConstants, W!Id
<1> HIDE DEF c
<1>2. IsRows(p) /\ q \in W!Upsert(p, c, next[c]) /\ next[c].status \notin {"new", "gone"}
  BY DEF Put, c
<1>3. /\ IsRows(q)
      /\ \A j \in W!Id \ {c} : Left(p, q, j)
      /\ next[c].status \in W!Active => q[c] = next[c]
      /\ q[c] \in {next[c], W!NoRow}
  BY <1>1, <1>2, PutLeaves, PutKills
<1>4. \A t \in W!Task : Left(row, q, t)
  BY <1>1, <1>3, LeftOver DEF Put
<1>5. Says(q, next, c)
  BY <1>3 DEF Says, W!Live, W!NoRow, W!Active
<1>6. ASSUME NEW a \in W!Agent
      PROVE  IF (\E k \in 1..(n + 1) : Children[k] = a) /\ next[a].status \notin {"new", "gone"}
             THEN Says(q, next, a) ELSE Left(row, q, a)
  <2>1. CASE a = c
    <3>1. \E k \in 1..(n + 1) : Children[k] = a
      BY <2>1 DEF c
    <3> QED  BY <1>2, <1>5, <2>1, <3>1
  <2>2. CASE a # c
    <3>1. (\E k \in 1..(n + 1) : Children[k] = a) <=> (\E k \in 1..n : Children[k] = a)
      <4>1. \A k \in 1..(n + 1) : Children[k] = a => k \in 1..n
        BY <2>2 DEF c
      <4>2. \A k \in 1..n : k \in 1..(n + 1)
        OBVIOUS
      <4> QED  BY <4>1, <4>2
    <3>2. Left(p, q, a)
      BY <1>1, <1>3, <2>2
    <3>3. Says(p, next, a) => Says(q, next, a)
      BY <3>2, LeftIs DEF Says, W!Live
    <3>4. Left(row, p, a) => Left(row, q, a)
      BY <3>2, LeftOver
    <3>5. IF (\E k \in 1..n : Children[k] = a) /\ next[a].status \notin {"new", "gone"}
          THEN Says(p, next, a) ELSE Left(row, p, a)
      BY DEF Put
    <3> QED  BY <3>1, <3>3, <3>4, <3>5
  <2> QED  BY <2>1, <2>2
<1> QED  BY <1>3, <1>4, <1>6 DEF Put

LEMMA PutSkips ==
  ASSUME NEW next, NEW n \in Nat, next[Children[n + 1]].status \in {"new", "gone"},
         NEW q, Put(q, next, n)
  PROVE  Put(q, next, n + 1)
<1>1. ASSUME NEW a \in W!Agent, next[a].status \notin {"new", "gone"}
      PROVE  (\E k \in 1..(n + 1) : Children[k] = a) <=> (\E k \in 1..n : Children[k] = a)
  <2>1. \A k \in 1..(n + 1) : Children[k] = a => k \in 1..n
    BY <1>1
  <2>2. \A k \in 1..n : k \in 1..(n + 1)
    OBVIOUS
  <2> QED  BY <2>1, <2>2
<1> QED  BY <1>1 DEF Put

LEMMA PutAllLeaves ==
  ASSUME W!WorkListConstants, IsRows(row), NEW next, NEW q \in W!PutAll(next)
  PROVE  Put(q, next, Len(Children))
<1> DEFINE N == Len(Children)
           F(f) == f = [n \in 0..N |->
                         IF n = 0 THEN {row}
                         ELSE IF next[Children[n]].status \in {"new", "gone"} THEN f[n - 1]
                         ELSE UNION {W!Upsert(r, Children[n], next[Children[n]]) : r \in f[n - 1]}]
<1>1. N \in Nat
  BY DEF W!WorkListConstants
<1>2. \E f : F(f)
  <2>1. PICK f : IsPuts(f, next, N)
    BY <1>1, PutsExist
  <2>2. F(f)
    BY <2>1 DEF IsPuts, PutStep
  <2> HIDE DEF F
  <2> QED  BY <2>2
<1>3. PICK f : f = CHOOSE g : F(g)
  OBVIOUS
<1>4. F(f)
  BY <1>2, <1>3
<1>5. W!PutAll(next) = f[N]
  BY <1>3 DEF W!PutAll
<1>6. f[0] = {row}
      /\ \A n \in 1..N : IF next[Children[n]].status \in {"new", "gone"} THEN f[n] = f[n - 1]
                         ELSE f[n] = UNION {W!Upsert(r, Children[n], next[Children[n]])
                                              : r \in f[n - 1]}
  <2>1. \A n \in 0..N :
          f[n] = IF n = 0 THEN {row}
                 ELSE IF next[Children[n]].status \in {"new", "gone"} THEN f[n - 1]
                 ELSE UNION {W!Upsert(r, Children[n], next[Children[n]]) : r \in f[n - 1]}
    BY <1>4
  <2>2. 0 \in 0..N /\ \A n \in 1..N : n \in 0..N /\ n # 0
    BY <1>1
  <2> HIDE DEF F
  <2> QED  BY <2>1, <2>2
<1> HIDE DEF F
<1> DEFINE T == {n \in Nat : n <= N => \A r \in f[n] : Put(r, next, n)}
<1>7. 0 \in T
  <2>1. Put(row, next, 0)
    BY DEF Put, Left
  <2> QED  BY <1>6, <2>1
<1>8. ASSUME NEW n \in Nat, n \in T PROVE n + 1 \in T
  <2> SUFFICES ASSUME n + 1 <= N, NEW r \in f[n + 1] PROVE Put(r, next, n + 1)
    OBVIOUS
  <2>1. n <= N /\ n + 1 \in 1..N /\ (n + 1) - 1 = n
    BY <1>1
  <2>2. \A p \in f[n] : Put(p, next, n)
    BY <1>8, <2>1
  <2>3. CASE next[Children[n + 1]].status \in {"new", "gone"}
    <3>1. r \in f[n]
      BY <1>6, <2>1, <2>3
    <3> QED  BY <2>2, <2>3, <3>1, PutSkips
  <2>4. CASE next[Children[n + 1]].status \notin {"new", "gone"}
    <3>1. PICK p \in f[n] : r \in W!Upsert(p, Children[n + 1], next[Children[n + 1]])
      BY <1>6, <2>1, <2>4
    <3>2. Put(p, next, n)
      BY <2>2
    <3> HIDE DEF N
    <3> QED  BY <2>1, <2>4, <3>1, <3>2, PutNext DEF N
  <2> QED  BY <2>3, <2>4
<1>9. Nat \subseteq T
  <2> HIDE DEF T
  <2> QED  BY <1>7, <1>8, ZeroUp
<1> QED  BY <1>1, <1>5, <1>9

(* They make no row of a task live. *)
LEMMA PutAllKills ==
  ASSUME W!WorkListConstants, IsRows(row), NEW next, NEW q \in W!PutAll(next)
  PROVE  IsRows(q) /\ \A t \in W!Task : W!Live(q, t) => W!Live(row, t)
<1>1. Put(q, next, Len(Children))
  BY PutAllLeaves
<1> QED  BY <1>1, LeftIs DEF Put

-----------------------------------------------------------------------------
(* The wire. *)

LEMMA WireGrows ==
  ASSUME NEW w \in Seq(WireSet), NEW m \in WireSet
  PROVE  LET v == Append(w, m) IN
         /\ v \in Seq(WireSet) /\ Len(w) \in Nat
         /\ DOMAIN w = 1..Len(w) /\ DOMAIN v = 1..(Len(w) + 1)
         /\ \A k \in DOMAIN w : v[k] = w[k] /\ k \in DOMAIN v /\ k < Len(w) + 1
         /\ v[Len(w) + 1] = m
         /\ \A t : ExitSaid(w, t) => ExitSaid(v, t)
<1> DEFINE v == Append(w, m)
<1>1. /\ v \in Seq(WireSet) /\ Len(w) \in Nat
      /\ DOMAIN w = 1..Len(w) /\ DOMAIN v = 1..(Len(w) + 1)
      /\ \A k \in DOMAIN w : v[k] = w[k] /\ k \in DOMAIN v /\ k < Len(w) + 1
      /\ v[Len(w) + 1] = m
  OBVIOUS
<1> HIDE DEF v
<1>2. \A t : ExitSaid(w, t) => ExitSaid(v, t)
  BY <1>1 DEF ExitSaid
<1> QED  BY <1>1, <1>2 DEF v

LEMMA WireShrinks ==
  ASSUME NEW w \in Seq(WireSet), w # << >>
  PROVE  LET v == Tail(w) IN
         /\ v \in Seq(WireSet) /\ Len(w) \in Nat /\ Head(w) \in WireSet
         /\ Head(w) = w[1] /\ 1 \in DOMAIN w
         /\ DOMAIN w = 1..Len(w) /\ DOMAIN v = 1..(Len(w) - 1)
         /\ \A k \in DOMAIN v : v[k] = w[k + 1] /\ k + 1 \in DOMAIN w
         /\ \A k \in DOMAIN w : k # 1 => k - 1 \in DOMAIN v /\ v[k - 1] = w[k] /\ k > 1
         /\ \A t : ExitAfter(w, 1, t) => ExitSaid(v, t)
         /\ \A t : ExitSaid(w, t) => ExitSaid(v, t) \/ Head(w) = W!Message("exited", t)
<1> DEFINE v == Tail(w)
<1>1. /\ v \in Seq(WireSet) /\ Len(w) \in Nat /\ Head(w) \in WireSet
      /\ Head(w) = w[1] /\ 1 \in DOMAIN w
      /\ DOMAIN w = 1..Len(w) /\ DOMAIN v = 1..(Len(w) - 1)
      /\ \A k \in DOMAIN v : v[k] = w[k + 1] /\ k + 1 \in DOMAIN w
      /\ \A k \in DOMAIN w : k # 1 => k - 1 \in DOMAIN v /\ (k - 1) + 1 = k /\ k > 1
  OBVIOUS
<1> HIDE DEF v
<1>2. \A k \in DOMAIN w : k # 1 => k - 1 \in DOMAIN v /\ v[k - 1] = w[k] /\ k > 1
  BY <1>1
<1>3. ASSUME NEW t, ExitAfter(w, 1, t) PROVE ExitSaid(v, t)
  <2>1. PICK j \in DOMAIN w : j > 1 /\ w[j] = W!Message("exited", t)
    BY <1>3 DEF ExitAfter
  <2>2. j - 1 \in DOMAIN v /\ v[j - 1] = w[j]
    BY <1>1, <1>2, <2>1
  <2> QED  BY <2>1, <2>2 DEF ExitSaid
<1>4. ASSUME NEW t, ExitSaid(w, t) PROVE ExitSaid(v, t) \/ Head(w) = W!Message("exited", t)
  <2>1. PICK j \in DOMAIN w : w[j] = W!Message("exited", t)
    BY <1>4 DEF ExitSaid
  <2>2. CASE j = 1
    BY <1>1, <2>1, <2>2
  <2>3. CASE j # 1
    BY <1>2, <2>1, <2>3 DEF ExitSaid
  <2> QED  BY <2>2, <2>3
<1> QED  BY <1>1, <1>2, <1>3, <1>4 DEF v

LEMMA AppendKeepsOrder ==
  ASSUME NEW w \in Seq(WireSet), NEW m \in WireSet, NEW r, ToldBefore(w, r),
         m.is \in {"started", "budget"} => r[m.of] # "ended"
  PROVE  ToldBefore(Append(w, m), r)
<1> DEFINE v == Append(w, m)
<1>1. /\ Len(w) \in Nat /\ DOMAIN w = 1..Len(w) /\ DOMAIN v = 1..(Len(w) + 1)
      /\ \A k \in DOMAIN w : v[k] = w[k] /\ k \in DOMAIN v /\ k < Len(w) + 1
      /\ v[Len(w) + 1] = m
  BY WireGrows
<1> HIDE DEF v
<1>2. ASSUME NEW k \in DOMAIN v, v[k].is \in {"started", "budget"}, r[v[k].of] = "ended"
      PROVE  ExitAfter(v, k, v[k].of)
  <2>1. k \in DOMAIN w
    BY <1>1, <1>2
  <2>2. ExitAfter(w, k, w[k].of)
    BY <1>1, <1>2, <2>1 DEF ToldBefore
  <2> QED  BY <1>1, <2>1, <2>2 DEF ExitAfter
<1> QED  BY <1>2 DEF ToldBefore, v

LEMMA TailKeepsOrder ==
  ASSUME NEW w \in Seq(WireSet), w # << >>, NEW r, ToldBefore(w, r)
  PROVE  ToldBefore(Tail(w), r)
<1> DEFINE v == Tail(w)
<1>1. /\ DOMAIN w = 1..Len(w) /\ DOMAIN v = 1..(Len(w) - 1) /\ Len(w) \in Nat
      /\ \A k \in DOMAIN v : v[k] = w[k + 1] /\ k + 1 \in DOMAIN w
      /\ \A k \in DOMAIN w : k # 1 => k - 1 \in DOMAIN v /\ v[k - 1] = w[k] /\ k > 1
  BY WireShrinks
<1> HIDE DEF v
<1>2. ASSUME NEW k \in DOMAIN v, v[k].is \in {"started", "budget"}, r[v[k].of] = "ended"
      PROVE  ExitAfter(v, k, v[k].of)
  <2>1. ExitAfter(w, k + 1, w[k + 1].of)
    BY <1>1, <1>2 DEF ToldBefore
  <2>2. PICK j \in DOMAIN w : j > k + 1 /\ w[j] = W!Message("exited", w[k + 1].of)
    BY <2>1 DEF ExitAfter
  <2>3. j - 1 \in DOMAIN v /\ j - 1 > k /\ v[j - 1] = w[j]
    BY <1>1, <2>2
  <2> QED  BY <1>1, <2>2, <2>3 DEF ExitAfter
<1> QED  BY <1>2 DEF ToldBefore, v

(* What a row that is live over time rests on. *)
Looked(w, as, t) ==
  \/ ExitSaid(w, t)
  \/ as \cap {"sync", "resync"} # {}
  \/ \E k \in DOMAIN w : w[k].is \in {"sync", "resync"} /\ w[k].rec[t] = "ended"

Safe(t) == rec[t] = "ended" /\ W!Live(row, t) => Looked(workWire, workAsks, t)
NoneForgotten == \A t \in W!Task : Safe(t) => Safe(t)'

LEMMA LookedGrows ==
  ASSUME NEW w \in Seq(WireSet), NEW m \in WireSet, NEW as, NEW t, Looked(w, as, t)
  PROVE  Looked(Append(w, m), as, t)
<1> DEFINE v == Append(w, m)
<1>1. /\ \A k \in DOMAIN w : v[k] = w[k] /\ k \in DOMAIN v
      /\ ExitSaid(w, t) => ExitSaid(v, t)
  BY WireGrows
<1> HIDE DEF v
<1> QED  BY <1>1 DEF Looked, v

LEMMA LookedShrinks ==
  ASSUME NEW w \in Seq(WireSet), w # << >>, NEW as, NEW t, Looked(w, as, t)
  PROVE  \/ Looked(Tail(w), as, t)
         \/ Head(w) = W!Message("exited", t)
         \/ Head(w).is \in {"sync", "resync"} /\ Head(w).rec[t] = "ended"
<1> DEFINE v == Tail(w)
<1>1. /\ Head(w) = w[1]
      /\ \A k \in DOMAIN w : k # 1 => k - 1 \in DOMAIN v /\ v[k - 1] = w[k]
      /\ ExitSaid(w, t) => ExitSaid(v, t) \/ Head(w) = W!Message("exited", t)
  BY WireShrinks
<1> HIDE DEF v
<1> QED  BY <1>1 DEF Looked, v

-----------------------------------------------------------------------------
(* Steps that neither read the wire nor write to it. *)

NoneRevived ==
  \A t \in W!Task : W!Live(row', t) /\ rec[t] = "ended" => W!Live(row, t) \/ ExitSaid(workWire, t)

LEMMA AsideKeeps ==
  ASSUME WorkInv, UNCHANGED <<rec, workWire>>, workAsks \subseteq workAsks',
         workAsks' \subseteq W!ListAsk,
         bash' = [c \in Shell |-> bash'[c]], monitor' = [m \in Mon |-> monitor'[m]],
         IsRows(row'), RowsAwaited(row', awaited'),
         \A c \in Shell : bash'[c] = "late" => bash[c] = "late" /\ (c \in early => c \in early'),
         \A m \in Mon : monitor'[m] = "open" =>
                          monitor[m] = "open" /\ (m \in early => m \in early'),
         NoneRevived
  PROVE  WorkInv' /\ NoneRevived /\ NoneForgotten
<1>1. WorkTypes' /\ ToldBefore(workWire', rec')
  BY DEF WorkInv, WorkTypes
<1>2. LateHears' /\ OpenHears'
  BY DEF WorkInv, LateHears, OpenHears, HearsEnd
<1>3. NoneForgotten
  <2> SUFFICES ASSUME NEW t \in W!Task, Safe(t), rec'[t] = "ended", W!Live(row', t)
               PROVE  Looked(workWire', workAsks', t)
    BY DEF NoneForgotten, Safe
  <2>1. W!Live(row, t) \/ ExitSaid(workWire, t)
    BY DEF NoneRevived
  <2>2. W!Live(row, t) => Looked(workWire, workAsks, t)
    BY DEF Safe
  <2> QED  BY <2>1, <2>2 DEF Looked
<1> QED  BY <1>1, <1>2, <1>3 DEF WorkInv

LEMMA BackgroundKeeps ==
  ASSUME W!WorkListConstants, WorkInv, NEW c \in Shell, W!Background(c)
  PROVE  WorkInv' /\ NoneRevived /\ NoneForgotten
<1>1. IsRows(row) /\ c \in W!Id /\ c \in W!Task /\ bash = [d \in Shell |-> bash[d]]
  BY DEF WorkInv, WorkTypes, W!Id, W!Task
<1>2. /\ bash[c] = "late" /\ bash' = [bash EXCEPT ![c] = "background"]
      /\ W!MarkNotifyOnExit(c) /\ early' = early \ {c}
      /\ UNCHANGED <<rec, workWire, workAsks, monitor>>
  BY DEF W!Background, W!managerVars
<1>3. /\ IsRows(row')
      /\ \A t \in W!Task : W!Live(row', t) => W!Live(row, t) \/ (t = c /\ c \notin early)
  <2>1. CASE c \in early
    <3>1. row' \in W!Patch(row, c)
      BY <1>2, <2>1 DEF W!MarkNotifyOnExit
    <3> QED  BY <3>1, <1>1, PatchKills DEF NoneNew, W!Id
  <2>2. CASE c \notin early
    <3>1. row' \in W!Upsert(row, c, W!Now("running"))
      BY <1>2, <2>2 DEF W!MarkNotifyOnExit
    <3> QED  BY <3>1, <2>2, <1>1, PutKills DEF W!Id
  <2> QED  BY <2>1, <2>2
<1>4. rec[c] = "ended" /\ c \notin early => ExitSaid(workWire, c)
  BY <1>2 DEF WorkInv, LateHears, HearsEnd
<1>5. \A d \in Shell : bash'[d] = "late" => bash[d] = "late" /\ d # c
  BY <1>1, <1>2
<1>6. \A m \in Mon : m # c
  BY DEF W!WorkListConstants
<1>7. bash' = [d \in Shell |-> bash'[d]] /\ workAsks' \subseteq W!ListAsk
      /\ monitor' = [m \in Mon |-> monitor'[m]]
  BY <1>1, <1>2 DEF WorkInv, WorkTypes
<1>8. NoneRevived
  BY <1>3, <1>4 DEF NoneRevived
<1>9. awaited' = (IF c \in early THEN awaited ELSE awaited \cup {c})
  BY <1>2 DEF W!MarkNotifyOnExit
<1>10. RowsAwaited(row', awaited')
  BY <1>3, <1>9 DEF WorkInv, RowsAwaited, W!Task
<1> QED  BY <1>2, <1>3, <1>5, <1>6, <1>7, <1>8, <1>10, AsideKeeps

LEMMA RegisterKeeps ==
  ASSUME W!WorkListConstants, WorkInv, NEW m \in Mon, W!Register(m)
  PROVE  WorkInv' /\ NoneRevived /\ NoneForgotten
<1>1. IsRows(row) /\ m \in W!Id /\ m \in W!Task /\ monitor = [n \in Mon |-> monitor[n]]
  BY DEF WorkInv, WorkTypes, W!Id, W!Task
<1> DEFINE shown == IF row[m].status = "ended" THEN {row} ELSE W!Upsert(row, m, W!Now("running"))
<1>2. /\ monitor[m] = "open"
      /\ monitor' = [monitor EXCEPT ![m] = IF m \in early THEN "closed" ELSE "active"]
      /\ early' = early \ {m}
      /\ row' \in IF m \in early THEN UNION {W!Patch(r, m) : r \in shown} ELSE shown
      /\ UNCHANGED <<rec, workWire, workAsks, bash, awaited>>
  BY DEF W!Register, W!managerVars, W!shellVars
<1>3. \A r \in shown : IsRows(r) /\ \A t \in W!Task : W!Live(r, t) => W!Live(row, t) \/ t = m
  <2> SUFFICES ASSUME NEW r \in shown
               PROVE  IsRows(r) /\ \A t \in W!Task : W!Live(r, t) => W!Live(row, t) \/ t = m
    OBVIOUS
  <2>1. CASE row[m].status = "ended"
    BY <2>1, <1>1
  <2>2. CASE row[m].status # "ended"
    <3>1. r \in W!Upsert(row, m, W!Now("running"))
      BY <2>2
    <3> HIDE DEF shown
    <3> QED  BY <3>1, <1>1, PutKills DEF W!Id
  <2> QED  BY <2>1, <2>2
<1> HIDE DEF shown
<1>4. /\ IsRows(row')
      /\ \A t \in W!Task : W!Live(row', t) => W!Live(row, t) \/ (t = m /\ m \notin early)
  <2>1. CASE m \in early
    <3>1. PICK r \in shown : row' \in W!Patch(r, m)
      BY <1>2, <2>1
    <3>2. IsRows(row') /\ NoneNew(r, row') /\ ~W!Live(row', m)
      BY <3>1, <1>1, <1>3, PatchKills
    <3> QED  BY <3>2, <1>3 DEF NoneNew, W!Id
  <2>2. CASE m \notin early
    BY <1>2, <1>3, <2>2
  <2> QED  BY <2>1, <2>2
<1>5. rec[m] = "ended" /\ m \notin early => ExitSaid(workWire, m)
  BY <1>2 DEF WorkInv, OpenHears, HearsEnd
<1>6. \A n \in Mon : monitor'[n] = "open" => monitor[n] = "open" /\ n # m
  BY <1>1, <1>2
<1>7. \A c \in Shell : m # c
  BY DEF W!WorkListConstants
<1>8. bash' = [d \in Shell |-> bash'[d]] /\ workAsks' \subseteq W!ListAsk
      /\ monitor' = [n \in Mon |-> monitor'[n]]
  BY <1>1, <1>2 DEF WorkInv, WorkTypes
<1>9. NoneRevived
  BY <1>4, <1>5 DEF NoneRevived
<1>10. RowsAwaited(row', awaited')
  BY <1>2, <1>4, <1>7 DEF WorkInv, RowsAwaited, W!Task
<1> QED  BY <1>2, <1>4, <1>6, <1>7, <1>8, <1>9, <1>10, AsideKeeps

LEMMA TransitionKeeps ==
  ASSUME W!WorkListConstants, WorkInv, NEW a \in W!Agent, W!AddChild(a) \/ W!AdmitChild(a)
         \/ W!SettleChild(a)
  PROVE  WorkInv' /\ NoneRevived /\ NoneForgotten
<1>1. PICK next : row' \in W!PutAll(next)
    /\ UNCHANGED <<rec, workWire, workAsks, bash, monitor, early, awaited>>
  BY DEF W!AddChild, W!AdmitChild, W!SettleChild, W!Transition, W!Emit, W!managerVars, W!shellVars
<1>2. IsRows(row') /\ \A t \in W!Task : W!Live(row', t) => W!Live(row, t)
  BY <1>1, PutAllKills DEF WorkInv, WorkTypes
<1>3. /\ workAsks' \subseteq W!ListAsk
      /\ bash' = [c \in Shell |-> bash'[c]] /\ monitor' = [m \in Mon |-> monitor'[m]]
  BY <1>1 DEF WorkInv, WorkTypes
<1>4. RowsAwaited(row', awaited')
  BY <1>1, <1>2 DEF WorkInv, RowsAwaited, W!Task
<1> QED  BY <1>1, <1>2, <1>3, <1>4, AsideKeeps DEF NoneRevived

LEMMA RestKeeps ==
  ASSUME WorkInv,
         \/ \E m \in Mon : W!Timeout(m) \/ W!Cleanup(m)
         \/ \E t \in W!Task : W!TaskStop(t)
         \/ W!TaskList \/ W!ListTasks \/ W!TimePasses \/ W!Watchdog \/ UNCHANGED W!vars
  PROVE  WorkInv' /\ NoneRevived /\ NoneForgotten
<1>0. /\ bash = [c \in Shell |-> bash[c]] /\ monitor = [m \in Mon |-> monitor[m]]
      /\ workAsks \subseteq W!ListAsk /\ IsRows(row) /\ RowsAwaited(row, awaited)
  BY DEF WorkInv, WorkTypes
<1>1. CASE \E m \in Mon : W!Timeout(m) \/ W!Cleanup(m)
  <2>1. PICK m \in Mon : W!Timeout(m) \/ W!Cleanup(m)
    BY <1>1
  <2>2. /\ UNCHANGED <<rec, workWire, bash, early, row, awaited>>
        /\ workAsks' \in {workAsks, workAsks \cup {"resync"}}
        /\ \E x \in {"stopping", "closed"} : monitor' = [monitor EXCEPT ![m] = x]
    BY <2>1 DEF W!Timeout, W!Cleanup, W!shellVars, W!managerVars
  <2>3. /\ monitor' = [n \in Mon |-> monitor'[n]]
        /\ \A n \in Mon : monitor'[n] = "open" => monitor[n] = "open"
    BY <2>2, <1>0
  <2>4. workAsks \subseteq workAsks' /\ workAsks' \subseteq W!ListAsk /\ IsRows(row')
        /\ bash' = [c \in Shell |-> bash'[c]]
    BY <2>2, <1>0 DEF W!ListAsk, IsRows
  <2>5. RowsAwaited(row', awaited')
    BY <2>2, <1>0
  <2> QED  BY <2>2, <2>3, <2>4, <2>5, AsideKeeps DEF NoneRevived
<1>2. CASE (\E t \in W!Task : W!TaskStop(t)) \/ W!TaskList \/ W!ListTasks \/ W!TimePasses
    \/ W!Watchdog \/ UNCHANGED W!vars
  <2>1. /\ UNCHANGED <<rec, workWire, bash, early, monitor, awaited>>
        /\ workAsks' \in {workAsks, workAsks \cup {"resync"}, workAsks \cup {"sync"}}
    BY <1>2
       DEF W!TaskStop, W!TaskList, W!ListTasks, W!TimePasses, W!Watchdog, W!vars,
           W!shellVars, W!managerVars
  <2>2. IsRows(row') /\ \A t \in W!Task : W!Live(row', t) => W!Live(row, t)
    <3>1. CASE row' = row
      BY <3>1, <1>0
    <3>2. CASE W!ListTasks
      <4>1. row' \in W!Prunings(row)
        BY <3>2 DEF W!ListTasks, W!Listed
      <4> QED  BY <4>1, PruningKills DEF NoneNew, W!Id
    <3>3. CASE W!TimePasses
      <4>1. row' = [i \in DOMAIN row |->
                     IF row[i].status \in W!Terminal \cup {"ended"} /\ row[i].age <= Retain
                     THEN [status |-> row[i].status, age |-> row[i].age + 1] ELSE row[i]]
        BY <3>3 DEF W!TimePasses
      <4>2. DOMAIN row = W!Id
        BY <1>0 DEF IsRows
      <4>3. \A i \in W!Id : row'[i].status = row[i].status
        BY <4>1, <4>2
      <4> QED  BY <4>1, <4>2, <4>3 DEF IsRows, W!Live, W!Id
    <3> QED
      BY <1>2, <3>1, <3>2, <3>3 DEF W!TaskStop, W!TaskList, W!Watchdog, W!vars
  <2>3. workAsks \subseteq workAsks' /\ workAsks' \subseteq W!ListAsk
        /\ bash' = [c \in Shell |-> bash'[c]] /\ monitor' = [m \in Mon |-> monitor'[m]]
    BY <2>1, <1>0 DEF W!ListAsk
  <2>4. RowsAwaited(row', awaited')
    BY <2>1, <2>2, <1>0 DEF RowsAwaited, W!Task
  <2> QED  BY <2>1, <2>2, <2>3, <2>4, AsideKeeps DEF NoneRevived
<1> QED  BY <1>1, <1>2

-----------------------------------------------------------------------------
(* The manager's steps. *)
LEMMA ManagerKeeps ==
  ASSUME WorkInv,
         \/ \E t \in W!Task : W!Start(t) \/ W!TaskEnds(t)
         \/ \E c \in Shell : W!AnswerWait(c)
         \/ \E a \in W!ListAsk : W!AnswerList(a)
  PROVE  WorkInv' /\ NoneForgotten
<1>0. /\ rec \in [W!Task -> {"none", "running", "ended"}] /\ workWire \in Seq(WireSet)
      /\ bash = [c \in Shell |-> bash[c]] /\ monitor = [m \in Mon |-> monitor[m]]
      /\ workAsks \subseteq W!ListAsk /\ IsRows(row) /\ ToldBefore(workWire, rec)
  BY DEF WorkInv, WorkTypes
<1>a. UNCHANGED <<bash, monitor, early, row, awaited>> /\ RowsAwaited(row', awaited')
  BY DEF W!Start, W!TaskEnds, W!AnswerWait, W!AnswerList, W!shellVars, WorkInv
<1>1. CASE \E t \in W!Task : W!Start(t)
  <2>1. PICK t \in W!Task : W!Start(t)
    BY <1>1
  <2> DEFINE m == W!Message("started", t)
  <2>2. /\ rec[t] = "none" /\ rec' = [rec EXCEPT ![t] = "running"]
        /\ workWire' = Append(workWire, m) /\ workAsks' = workAsks
    BY <2>1 DEF W!Start
  <2>3. m \in WireSet /\ m.is = "started" /\ m.of = t
    BY DEF W!Message, WireSet
  <2> HIDE DEF m
  <2>4. /\ rec' \in [W!Task -> {"none", "running", "ended"}]
        /\ \A u \in W!Task : rec'[u] = "ended" <=> rec[u] = "ended"
        /\ rec'[t] # "ended"
    BY <1>0, <2>2
  <2>5. ToldBefore(workWire, rec')
    <3>1. \A k \in DOMAIN workWire : workWire[k].is \in {"started", "budget"}
        => workWire[k].of \in W!Task
      <4>1. \A k \in DOMAIN workWire : workWire[k] \in WireSet
        BY <1>0
      <4> QED  BY <4>1 DEF WireSet, W!ListAsk, W!Task
    <3> QED  BY <1>0, <2>4, <3>1 DEF ToldBefore
  <2>6. workWire' \in Seq(WireSet) /\ ToldBefore(workWire', rec')
    BY <1>0, <2>2, <2>3, <2>4, <2>5, AppendKeepsOrder, WireGrows
  <2>7. \A u : ExitSaid(workWire, u) => ExitSaid(workWire', u)
    BY <1>0, <2>2, <2>3, WireGrows
  <2>8. LateHears' /\ OpenHears'
    <3>1. \A u \in W!Task : HearsEnd(u) => HearsEnd(u)'
      BY <1>a, <2>4, <2>7 DEF HearsEnd
    <3> QED  BY <1>a, <3>1 DEF WorkInv, LateHears, OpenHears, W!Task
  <2>9. NoneForgotten
    <3> SUFFICES ASSUME NEW u \in W!Task, Safe(u), rec'[u] = "ended", W!Live(row', u)
                 PROVE  Looked(workWire', workAsks', u)
      BY DEF NoneForgotten, Safe
    <3>1. Looked(workWire, workAsks, u)
      BY <1>a, <2>4 DEF Safe
    <3> QED  BY <3>1, <1>0, <2>2, <2>3, LookedGrows
  <2> QED  BY <1>0, <1>a, <2>2, <2>4, <2>6, <2>8, <2>9 DEF WorkInv, WorkTypes
<1>2. CASE \E t \in W!Task : W!TaskEnds(t)
  <2>1. PICK t \in W!Task : W!TaskEnds(t)
    BY <1>2
  <2> DEFINE m == W!Message("exited", t)
  <2>2. /\ rec' = [rec EXCEPT ![t] = "ended"] /\ workWire' = Append(workWire, m)
               /\ workAsks' = workAsks
    BY <2>1 DEF W!TaskEnds, W!Ended
  <2>3. m \in WireSet /\ m.is = "exited"
    BY DEF W!Message, WireSet
  <2>4. m = W!Message("exited", t)
    OBVIOUS
  <2> HIDE DEF m
  <2>5. /\ rec' \in [W!Task -> {"none", "running", "ended"}]
        /\ \A u \in W!Task \ {t} : rec'[u] = rec[u]
    BY <1>0, <2>2
  <2>6. /\ workWire' \in Seq(WireSet) /\ Len(workWire) \in Nat
        /\ DOMAIN workWire = 1..Len(workWire) /\ DOMAIN workWire' = 1..(Len(workWire) + 1)
        /\ \A k \in DOMAIN workWire : workWire'[k] = workWire[k] /\ k \in DOMAIN workWire'
               /\ k < Len(workWire) + 1
        /\ workWire'[Len(workWire) + 1] = m
        /\ \A u : ExitSaid(workWire, u) => ExitSaid(workWire', u)
    BY <1>0, <2>2, <2>3, WireGrows
  <2>7. ExitSaid(workWire', t)
    <3>1. Len(workWire) + 1 \in DOMAIN workWire'
      BY <2>6
    <3> QED  BY <2>4, <2>6, <3>1 DEF ExitSaid
  <2>8. ToldBefore(workWire', rec')
    <3> SUFFICES ASSUME NEW k \in DOMAIN workWire', workWire'[k].is \in {"started", "budget"},
                        rec'[workWire'[k].of] = "ended"
                 PROVE  ExitAfter(workWire', k, workWire'[k].of)
      BY DEF ToldBefore
    <3>1. k \in DOMAIN workWire
      BY <2>3, <2>6
    <3>2. workWire[k].of \in W!Task /\ workWire'[k] = workWire[k]
      <4>1. workWire[k] \in WireSet
        BY <1>0, <3>1
      <4> QED  BY <2>6, <3>1, <4>1 DEF WireSet, W!ListAsk, W!Task
    <3>3. CASE workWire[k].of = t
      <4>1. Len(workWire) + 1 \in DOMAIN workWire' /\ Len(workWire) + 1 > k
        BY <2>6, <3>1
      <4> QED  BY <2>4, <2>6, <3>2, <3>3, <4>1 DEF ExitAfter
    <3>4. CASE workWire[k].of # t
      <4>1. ExitAfter(workWire, k, workWire[k].of)
        BY <1>0, <2>5, <3>1, <3>2, <3>4 DEF ToldBefore
      <4> QED  BY <2>6, <3>2, <4>1 DEF ExitAfter
    <3> QED  BY <3>3, <3>4
  <2>9. LateHears' /\ OpenHears'
    <3>1. \A u \in W!Task : HearsEnd(u) => HearsEnd(u)'
      BY <1>a, <2>5, <2>6, <2>7 DEF HearsEnd
    <3> QED  BY <1>a, <3>1 DEF WorkInv, LateHears, OpenHears, W!Task
  <2>10. NoneForgotten
    <3> SUFFICES ASSUME NEW u \in W!Task, Safe(u), rec'[u] = "ended", W!Live(row', u)
                 PROVE  Looked(workWire', workAsks', u)
      BY DEF NoneForgotten, Safe
    <3>1. CASE u = t
      BY <2>7, <3>1 DEF Looked
    <3>2. CASE u # t
      <4>1. Looked(workWire, workAsks, u)
        BY <1>a, <2>5, <3>2 DEF Safe
      <4> QED  BY <4>1, <1>0, <2>2, <2>3, LookedGrows
    <3> QED  BY <3>1, <3>2
  <2> QED  BY <1>0, <1>a, <2>2, <2>5, <2>6, <2>8, <2>9, <2>10 DEF WorkInv, WorkTypes
<1>3. CASE (\E c \in Shell : W!AnswerWait(c)) \/ (\E a \in W!ListAsk : W!AnswerList(a))
  <2>1. PICK m \in WireSet :
          /\ workWire' = Append(workWire, m) /\ rec' = rec /\ workAsks' \subseteq workAsks
          /\ m.is = "budget" => rec[m.of] # "ended"
          /\ m.is # "started"
          /\ \/ workAsks' = workAsks
             \/ \E a \in W!ListAsk : workAsks' = workAsks \ {a} /\ m.is = a /\ m.rec = rec
    <3>1. CASE \E c \in Shell : W!AnswerWait(c)
      <4>1. PICK c \in Shell : W!AnswerWait(c)
        BY <3>1
      <4> DEFINE m == W!Message(IF rec[c] = "ended" THEN "done" ELSE "budget", c)
      <4>2. workWire' = Append(workWire, m) /\ rec' = rec /\ workAsks' = workAsks
        BY <4>1 DEF W!AnswerWait
      <4>3. /\ m \in WireSet /\ m.is # "started"
            /\ m.is = "budget" => rec[m.of] # "ended"
        BY DEF W!Message, WireSet
      <4> HIDE DEF m
      <4> QED  BY <4>2, <4>3
    <3>2. CASE \E a \in W!ListAsk : W!AnswerList(a)
      <4>1. PICK a \in W!ListAsk : W!AnswerList(a)
        BY <3>2
      <4> DEFINE m == [is |-> a, rec |-> rec]
      <4>2. workWire' = Append(workWire, m) /\ rec' = rec /\ workAsks' = workAsks \ {a}
        BY <4>1 DEF W!AnswerList
      <4>3. m \in WireSet /\ m.is = a /\ m.rec = rec /\ m.is # "started" /\ m.is # "budget"
        BY <1>0 DEF WireSet, W!ListAsk
      <4> HIDE DEF m
      <4> QED  BY <4>2, <4>3
    <3> QED  BY <1>3, <3>1, <3>2
  <2>2. workWire' \in Seq(WireSet) /\ ToldBefore(workWire', rec')
    BY <1>0, <2>1, AppendKeepsOrder, WireGrows
  <2>3. \A u : ExitSaid(workWire, u) => ExitSaid(workWire', u)
    BY <1>0, <2>1, WireGrows
  <2>4. LateHears' /\ OpenHears'
    <3>1. \A u \in W!Task : HearsEnd(u) => HearsEnd(u)'
      BY <1>a, <2>1, <2>3 DEF HearsEnd
    <3> QED  BY <1>a, <3>1 DEF WorkInv, LateHears, OpenHears, W!Task
  <2>5. NoneForgotten
    <3> SUFFICES ASSUME NEW u \in W!Task, Safe(u), rec[u] = "ended", W!Live(row, u)
                 PROVE  Looked(workWire', workAsks', u)
      BY <1>a, <2>1 DEF NoneForgotten, Safe
    <3>1. Looked(workWire, workAsks, u)
      BY DEF Safe
    <3>2. Looked(workWire', workAsks, u)
      BY <1>0, <2>1, <3>1, LookedGrows
    <3>3. CASE workAsks' = workAsks
      BY <3>2, <3>3
    <3>4. ASSUME NEW a \in W!ListAsk, workAsks' = workAsks \ {a}, m.is = a, m.rec = rec
          PROVE  Looked(workWire', workAsks', u)
      <4>1. CASE a \in {"sync", "resync"}
        <5>1. /\ Len(workWire) \in Nat /\ Len(workWire) + 1 \in DOMAIN workWire'
              /\ workWire'[Len(workWire) + 1] = m
          BY <1>0, <2>1, WireGrows
        <5> QED  BY <3>4, <4>1, <5>1 DEF Looked
      <4>2. CASE a \notin {"sync", "resync"}
        BY <3>2, <3>4, <4>2 DEF Looked
      <4> QED  BY <4>1, <4>2
    <3> QED  BY <2>1, <3>3, <3>4
  <2> QED  BY <1>0, <1>a, <2>1, <2>2, <2>4, <2>5 DEF WorkInv, WorkTypes
<1> QED  BY <1>1, <1>2, <1>3

LEMMA ConnectionKeeps ==
  ASSUME WorkInv, W!Drop \/ W!Restart
  PROVE  WorkInv' /\ NoneForgotten
<1>0. /\ rec \in [W!Task -> {"none", "running", "ended"}]
      /\ bash = [c \in Shell |-> bash[c]] /\ monitor = [m \in Mon |-> monitor[m]]
      /\ workAsks \subseteq W!ListAsk /\ IsRows(row)
  BY DEF WorkInv, WorkTypes
<1>1. workWire' = << >> /\ rec' = rec /\ << >> \in Seq(WireSet) /\ DOMAIN << >> = {}
  BY DEF W!Drop, W!Restart
<1>2. ToldBefore(workWire', rec')
  BY <1>1 DEF ToldBefore
<1>3. CASE W!Drop
  <2>1. /\ \A c \in Shell : bash[c] # "late"
        /\ \A m \in Mon : monitor[m] # "open"
        /\ "resync" \in workAsks' /\ workAsks' \subseteq W!ListAsk
        /\ UNCHANGED <<bash, monitor, early, row, awaited>>
    BY <1>0, <1>3 DEF W!Drop, W!Between, W!shellVars, W!ListAsk
  <2>2. LateHears' /\ OpenHears'
    BY <2>1 DEF LateHears, OpenHears
  <2>3. NoneForgotten /\ RowsAwaited(row', awaited')
    BY <2>1 DEF NoneForgotten, Safe, Looked, WorkInv
  <2> QED  BY <1>0, <1>1, <1>2, <2>1, <2>2, <2>3 DEF WorkInv, WorkTypes, IsRows
<1>4. CASE W!Restart
  <2>1. /\ bash' = [c \in Shell |-> IF rec[c] = "none" THEN "new" ELSE "done"]
        /\ monitor' = [m \in Mon |-> IF rec[m] = "none" THEN "new" ELSE "closed"]
        /\ row' = [i \in W!Id |-> W!NoRow] /\ workAsks' = {}
    BY <1>4 DEF W!Restart
  <2>2. LateHears' /\ OpenHears'
    BY <2>1 DEF LateHears, OpenHears
  <2>3. NoneForgotten /\ RowsAwaited(row', awaited')
    BY <2>1 DEF NoneForgotten, Safe, RowsAwaited, W!Live, W!NoRow, W!Active, W!Id, W!Task
  <2>4. IsRows(row')
    BY <2>1 DEF IsRows
  <2>5. bash' = [c \in Shell |-> bash'[c]] /\ monitor' = [m \in Mon |-> monitor'[m]]
    BY <2>1
  <2> QED  BY <1>0, <1>1, <1>2, <2>1, <2>2, <2>3, <2>4, <2>5 DEF WorkInv, WorkTypes
<1> QED  BY <1>3, <1>4

(* The rows of the commands that a give-up takes for backgrounded.         *)
LEMMA GiveUpPuts ==
  ASSUME NEW r, NEW q, NEW cs \in SUBSET Shell, IsRows(r),
         q \in IF cs = {} THEN {r}
              ELSE W!Prunings([i \in W!Id |-> IF i \in cs THEN W!Now("running") ELSE r[i]])
  PROVE  /\ IsRows(q) /\ \A c \in cs : W!Live(q, c)
         /\ \A j \in W!Id \ cs : Left(r, q, j)
<1>1. CASE cs = {}
  BY <1>1 DEF Left
<1>2. CASE cs # {}
  <2> DEFINE p == [i \in W!Id |-> IF i \in cs THEN W!Now("running") ELSE r[i]]
  <2>1. q \in W!Prunings(p)
    BY <1>2
  <2>2. /\ \A j \in W!Id \ cs : p[j] = r[j]
        /\ \A c \in cs : c \in W!Id /\ W!Live(p, c)
    BY DEF W!Live, W!Now, W!Active, W!Id, W!Task
  <2> HIDE DEF p
  <2>3. IsRows(q) /\ \A j \in W!Id : Left(p, q, j)
    BY <2>1, PruningKills, PruningLeaves
  <2>4. \A c \in cs : W!Live(q, c)
    BY <2>2, <2>3, LeftIs
  <2>5. \A j \in W!Id \ cs : Left(r, q, j)
    BY <2>2, <2>3 DEF Left, W!Live
  <2> QED  BY <2>3, <2>4, <2>5
<1> QED  BY <1>1, <1>2

(* What a give-up changes.                                                 *)
LEMMA GiveUpIs ==
  ASSUME WorkInv, W!GiveUp
  PROVE  \E cut \in SUBSET {c \in Shell : bash[c] = "open"} :
           /\ bash' = [c \in Shell |-> IF c \in cut THEN "background" ELSE bash[c]]
           /\ awaited' = awaited \cup (cut \ early) /\ early' \subseteq early
           /\ IsRows(row') /\ \A c \in cut \ early : W!Live(row', c)
           /\ \A j \in W!Id \ (cut \ early) : Left(row, row', j)
           /\ \A c \in Shell : bash[c] # "late"
           /\ \A m \in Mon : monitor[m] # "open"
           /\ \A k \in DOMAIN workWire : workWire[k].is # "started"
           /\ workWire' = << >> /\ workAsks' = {} /\ listing' = W!Idle
           /\ UNCHANGED <<rec, monitor, child>>
<1> DEFINE cut == {c \in Shell : bash[c] = "open"}
           marked == cut \ early
<1>1. /\ bash' = [c \in Shell |-> IF c \in cut THEN "background" ELSE bash[c]]
      /\ awaited' = awaited \cup marked /\ early' = early \ cut
      /\ row' \in IF marked = {} THEN {row}
                 ELSE W!Prunings([i \in W!Id |-> IF i \in marked THEN W!Now("running") ELSE row[i]])
      /\ \A c \in Shell : bash[c] # "late"
      /\ \A m \in Mon : monitor[m] # "open"
      /\ \A k \in DOMAIN workWire : workWire[k].is # "started"
      /\ workWire' = << >> /\ workAsks' = {} /\ listing' = W!Idle
      /\ UNCHANGED <<rec, monitor, child>>
  BY DEF W!GiveUp, W!Between
<1>2. cut \in SUBSET cut /\ marked \in SUBSET Shell /\ IsRows(row)
  BY DEF WorkInv, WorkTypes
<1> HIDE DEF marked
<1>3. /\ IsRows(row') /\ \A c \in marked : W!Live(row', c)
      /\ \A j \in W!Id \ marked : Left(row, row', j)
  BY <1>1, <1>2, GiveUpPuts
<1> QED  BY <1>1, <1>2, <1>3 DEF marked

LEMMA ClientGivesUpKeeps == ASSUME WorkInv, W!GiveUp PROVE WorkInv'
<1>1. PICK cut \in SUBSET {c \in Shell : bash[c] = "open"} :
        /\ bash' = [c \in Shell |-> IF c \in cut THEN "background" ELSE bash[c]]
        /\ awaited' = awaited \cup (cut \ early)
        /\ IsRows(row') /\ \A j \in W!Id \ (cut \ early) : Left(row, row', j)
        /\ \A c \in Shell : bash[c] # "late"
        /\ \A m \in Mon : monitor[m] # "open"
        /\ workWire' = << >> /\ workAsks' = {}
        /\ UNCHANGED <<rec, monitor>>
  BY GiveUpIs
<1>2. WorkTypes'
  <2>1. << >> \in Seq(WireSet)
    OBVIOUS
  <2>2. bash' = [c \in Shell |-> bash'[c]]
    BY <1>1
  <2> QED  BY <1>1, <2>1, <2>2 DEF WorkInv, WorkTypes, IsRows
<1>3. ToldBefore(workWire', rec')
  <2>1. DOMAIN << >> = {}
    OBVIOUS
  <2> QED  BY <1>1, <2>1 DEF ToldBefore
<1>4. LateHears' /\ OpenHears'
  BY <1>1 DEF LateHears, OpenHears
<1>5. RowsAwaited(row', awaited')
  <2>1. ASSUME NEW c \in Shell, W!Live(row', c) PROVE c \in awaited'
    <3>1. CASE c \in cut \ early
      BY <1>1, <3>1
    <3>2. CASE c \notin cut \ early
      <4>1. W!Live(row, c)
        BY <1>1, <2>1, <3>2, LeftIs DEF W!Id, W!Task
      <4> QED  BY <1>1, <4>1 DEF WorkInv, RowsAwaited
    <3> QED  BY <3>1, <3>2
  <2> QED  BY <2>1 DEF RowsAwaited
<1> QED  BY <1>2, <1>3, <1>4, <1>5 DEF WorkInv

LEMMA ListFailsKeeps ==
  ASSUME WorkInv, NEW a \in W!ListAsk, W!RequestFails(a)
  PROVE  WorkInv'
<1>1. /\ UNCHANGED <<rec, workWire, bash, awaited, monitor, early, row>>
      /\ workAsks' \subseteq workAsks \cup {"list"}
  BY DEF W!RequestFails, W!shellVars
<1>2. WorkTypes'
  BY <1>1 DEF WorkInv, WorkTypes, IsRows, W!ListAsk
<1>3. /\ ToldBefore(workWire', rec') /\ LateHears' /\ OpenHears'
      /\ RowsAwaited(row', awaited')
  BY <1>1 DEF WorkInv, LateHears, OpenHears, HearsEnd
<1> QED  BY <1>2, <1>3 DEF WorkInv

-----------------------------------------------------------------------------
(* What is read off the wire. *)

(* What a message leaves of the wire: a live row has its exit or a list    *)
(* behind it, or this was it.                                              *)
LEMMA ReadLeaves ==
  ASSUME WorkInv, W!Receive
  PROVE  /\ workWire' \in Seq(WireSet) /\ ToldBefore(workWire', rec) /\ rec' = rec
         /\ Head(workWire) \in WireSet
         /\ workAsks \subseteq workAsks' /\ workAsks' \subseteq W!ListAsk
         /\ \A t : ExitSaid(workWire, t)
                => ExitSaid(workWire', t) \/ Head(workWire) = W!Message("exited", t)
         /\ Head(workWire).is \in {"started", "budget"} /\ rec[Head(workWire).of] = "ended"
              => ExitSaid(workWire', Head(workWire).of)
         /\ \A t \in W!Task : Safe(t) /\ rec[t] = "ended" /\ W!Live(row, t) =>
              \/ Looked(workWire', workAsks', t)
              \/ Head(workWire) = W!Message("exited", t)
              \/ Head(workWire).is \in {"sync", "resync"} /\ Head(workWire).rec[t] = "ended"
<1>1. /\ workWire # << >> /\ workWire' = Tail(workWire) /\ rec' = rec
      /\ workAsks' \in {workAsks, workAsks \cup {"list"}}
  BY DEF W!Receive, W!StartedEvent, W!ExitEvent, W!Settle
<1>2. workWire \in Seq(WireSet) /\ ToldBefore(workWire, rec) /\ workAsks \subseteq W!ListAsk
  BY DEF WorkInv, WorkTypes
<1>3. /\ workWire' \in Seq(WireSet) /\ Head(workWire) \in WireSet /\ Head(workWire) = workWire[1]
      /\ 1 \in DOMAIN workWire
      /\ \A t : ExitAfter(workWire, 1, t) => ExitSaid(workWire', t)
      /\ \A t : ExitSaid(workWire, t)
             => ExitSaid(workWire', t) \/ Head(workWire) = W!Message("exited", t)
  BY <1>1, <1>2, WireShrinks
<1>4. ToldBefore(workWire', rec)
  BY <1>1, <1>2, TailKeepsOrder
<1>5. workAsks \subseteq workAsks' /\ workAsks' \subseteq W!ListAsk
  BY <1>1, <1>2 DEF W!ListAsk
<1>6. ASSUME Head(workWire).is \in {"started", "budget"}, rec[Head(workWire).of] = "ended"
      PROVE  ExitSaid(workWire', Head(workWire).of)
  BY <1>2, <1>3, <1>6 DEF ToldBefore
<1>7. ASSUME NEW t \in W!Task, Safe(t), rec[t] = "ended", W!Live(row, t)
      PROVE  \/ Looked(workWire', workAsks', t)
             \/ Head(workWire) = W!Message("exited", t)
             \/ Head(workWire).is \in {"sync", "resync"} /\ Head(workWire).rec[t] = "ended"
  <2>1. Looked(workWire, workAsks, t)
    BY <1>7 DEF Safe
  <2>2. \/ Looked(workWire', workAsks, t)
        \/ Head(workWire) = W!Message("exited", t)
        \/ Head(workWire).is \in {"sync", "resync"} /\ Head(workWire).rec[t] = "ended"
    BY <1>1, <1>2, <2>1, LookedShrinks
  <2> QED  BY <1>5, <2>2 DEF Looked
<1> QED  BY <1>1, <1>3, <1>4, <1>5, <1>6, <1>7

LEMMA MessagesDiffer ==
  \A t, u : /\ W!Message("exited", t).is = "exited"
            /\ W!Message("exited", t) = W!Message("exited", u) => t = u
<1> SUFFICES ASSUME NEW t, NEW u
             PROVE  /\ W!Message("exited", t).is = "exited"
                    /\ W!Message("exited", t) = W!Message("exited", u) => t = u
  OBVIOUS
<1>1. W!Message("exited", t).is = "exited" /\ W!Message("exited", t).of = t
    /\ W!Message("exited", u).of = u
  BY DEF W!Message
<1> QED  BY <1>1

LEMMA WorkReceiveKeeps ==
  ASSUME W!WorkListConstants, WorkInv, W!Receive
  PROVE  WorkInv' /\ NoneForgotten
<1> DEFINE m == Head(workWire)
<1>0. /\ bash = [c \in Shell |-> bash[c]] /\ monitor = [n \in Mon |-> monitor[n]]
      /\ IsRows(row) /\ rec \in [W!Task -> {"none", "running", "ended"}]
  BY DEF WorkInv, WorkTypes
<1>1. /\ workWire' \in Seq(WireSet) /\ ToldBefore(workWire', rec) /\ rec' = rec
      /\ m \in WireSet
      /\ workAsks \subseteq workAsks' /\ workAsks' \subseteq W!ListAsk
      /\ \A t : ExitSaid(workWire, t) => ExitSaid(workWire', t) \/ m = W!Message("exited", t)
      /\ m.is \in {"started", "budget"} /\ rec[m.of] = "ended" => ExitSaid(workWire', m.of)
      /\ \A t \in W!Task : Safe(t) /\ rec[t] = "ended" /\ W!Live(row, t) =>
           \/ Looked(workWire', workAsks', t)
           \/ m = W!Message("exited", t)
           \/ m.is \in {"sync", "resync"} /\ m.rec[t] = "ended"
  BY ReadLeaves
<1>2. /\ \A c \in Shell : bash[c] = "late" => HearsEnd(c)
      /\ \A n \in Mon : monitor[n] = "open" => HearsEnd(n)
  BY DEF WorkInv, LateHears, OpenHears
<1>a. RowsAwaited(row, awaited)
  BY DEF WorkInv
<1>3. \/ m.is = "started" /\ W!StartedEvent(m.of)
      \/ m.is = "exited" /\ W!ExitEvent(m.of)
      \/ /\ m.is \in {"budget", "done"}
         /\ bash' = [bash EXCEPT ![m.of] = IF m.is = "done" THEN "done" ELSE "late"]
         /\ early' = IF m.is = "done" THEN early \ {m.of} ELSE early
         /\ UNCHANGED <<monitor, row, awaited>>
      \/ m.is \in {"sync", "resync"} /\ W!Settle(m.rec)
      \/ m.is = "list" /\ UNCHANGED <<bash, monitor, early, row, awaited>>
  BY DEF W!Receive, W!shellVars
<1>4. \A c \in Shell : c \in W!Task /\ c \notin Mon
  BY DEF W!WorkListConstants, W!Task
<1>5. \A n \in Mon : n \in W!Task /\ n \notin Shell
  BY DEF W!WorkListConstants, W!Task
<1> HIDE DEF m
<1>6. /\ m.is \in {"started", "exited"} => m.of \in W!Task
      /\ m.is \in {"done", "budget"} => m.of \in Shell
  BY <1>1 DEF WireSet, W!ListAsk
\* what has to be shown
<1>7. ASSUME bash' = [c \in Shell |-> bash'[c]], monitor' = [n \in Mon |-> monitor'[n]],
             IsRows(row'),
             \A c \in Shell : bash'[c] = "late" /\ rec[c] = "ended"
                              => ExitSaid(workWire', c) \/ c \in early',
             \A n \in Mon : monitor'[n] = "open" /\ rec[n] = "ended"
                            => ExitSaid(workWire', n) \/ n \in early',
             RowsAwaited(row', awaited'),
             \A t \in W!Task : Safe(t) /\ rec[t] = "ended" /\ W!Live(row', t)
                 => Looked(workWire', workAsks', t)
      PROVE  WorkInv' /\ NoneForgotten
  <2>1. WorkTypes' /\ ToldBefore(workWire', rec')
    BY <1>0, <1>1, <1>7 DEF WorkTypes
  <2>2. LateHears' /\ OpenHears'
    BY <1>1, <1>7 DEF LateHears, OpenHears, HearsEnd
  <2>3. NoneForgotten
    BY <1>1, <1>7 DEF NoneForgotten, Safe
  <2> QED  BY <1>7, <2>1, <2>2, <2>3 DEF WorkInv
<1>8. CASE m.is = "started" /\ W!StartedEvent(m.of)
  <2>1. /\ early' = early /\ awaited' = awaited
        /\ m.of \in Mon => monitor' = [monitor EXCEPT ![m.of] = "open"] /\ bash' = bash
        /\ m.of \notin Mon => bash' = [bash EXCEPT ![m.of] = "open"] /\ UNCHANGED <<monitor, row>>
        /\ row' = row \/ row' \in W!Upsert(row, m.of, W!Now("running"))
    BY <1>8 DEF W!StartedEvent
  <2>2. m.of \in W!Id /\ m.of \in W!Task
    BY <1>6, <1>8 DEF W!Id
  <2>3. IsRows(row') /\ \A t \in W!Task : W!Live(row', t) => W!Live(row, t) \/ t = m.of
    BY <1>0, <2>1, <2>2, PutKills DEF W!Id
  <2>4. \A t : ExitSaid(workWire, t) => ExitSaid(workWire', t)
    BY <1>1, <1>8, MessagesDiffer
  <2>5. rec[m.of] = "ended" => ExitSaid(workWire', m.of)
    BY <1>1, <1>8
  <2>6. /\ bash' = [c \in Shell |-> bash'[c]] /\ monitor' = [n \in Mon |-> monitor'[n]]
        /\ \A c \in Shell : bash'[c] = "late" => bash[c] = "late"
        /\ \A n \in Mon : monitor'[n] = "open" => monitor[n] = "open" \/ n = m.of
    BY <1>0, <2>1
  <2>7. \A c \in Shell : bash'[c] = "late" /\ rec[c] = "ended"
                         => ExitSaid(workWire', c) \/ c \in early'
    BY <1>2, <2>1, <2>4, <2>6 DEF HearsEnd
  <2>8. \A n \in Mon : monitor'[n] = "open" /\ rec[n] = "ended"
                       => ExitSaid(workWire', n) \/ n \in early'
    BY <1>2, <2>1, <2>4, <2>5, <2>6 DEF HearsEnd
  <2>9. \A t \in W!Task : Safe(t) /\ rec[t] = "ended" /\ W!Live(row', t)
             => Looked(workWire', workAsks', t)
    <3> SUFFICES ASSUME NEW t \in W!Task, Safe(t), rec[t] = "ended", W!Live(row', t)
                 PROVE  Looked(workWire', workAsks', t)
      OBVIOUS
    <3>1. CASE t = m.of
      BY <2>5, <3>1 DEF Looked
    <3>2. CASE W!Live(row, t)
      BY <1>1, <1>8, <3>2, MessagesDiffer
    <3> QED  BY <2>3, <3>1, <3>2
  <2>10. RowsAwaited(row', awaited')
    <3>1. CASE m.of \in Mon
      BY <1>4, <1>a, <2>1, <2>3, <3>1 DEF RowsAwaited
    <3>2. CASE row' = row
      BY <1>a, <2>1, <3>2
    <3> QED  BY <2>1, <3>1, <3>2
  <2> QED  BY <1>7, <2>3, <2>6, <2>7, <2>8, <2>9, <2>10
<1>9. CASE m.is = "exited" /\ W!ExitEvent(m.of)
  <2> DEFINE t == m.of
  <2>1. /\ \/ /\ t \in Mon /\ monitor[t] \in {"active", "stopping"}
              /\ monitor' = [monitor EXCEPT ![t] = "closed"] /\ early' = early
           \/ /\ ~(t \in Mon /\ monitor[t] \in {"active", "stopping"})
              /\ early' = early \cup (IF W!Claimed(t) THEN {t} ELSE {}) /\ monitor' = monitor
        /\ row' \in W!Patch(row, t) /\ bash' = bash /\ awaited' = awaited \ {t}
    BY <1>9 DEF W!ExitEvent
  <2>2. t \in W!Task /\ t \in W!Id
    BY <1>6, <1>9 DEF W!Id
  <2>3. \A u : ExitSaid(workWire, u) => ExitSaid(workWire', u) \/ u = t
    <3>1. ASSUME NEW u, m = W!Message("exited", u) PROVE u = t
      BY <3>1 DEF W!Message
    <3> QED  BY <1>1, <3>1
  <2> HIDE DEF t
  <2>4. IsRows(row') /\ NoneNew(row, row') /\ ~W!Live(row', t)
    BY <1>0, <2>1, <2>2, PatchKills
  <2>5. /\ bash' = [c \in Shell |-> bash'[c]] /\ monitor' = [n \in Mon |-> monitor'[n]]
        /\ \A n \in Mon : monitor'[n] = "open" => monitor[n] = "open"
        /\ early \subseteq early'
    BY <1>0, <2>1
  <2>6. \A c \in Shell : bash'[c] = "late" /\ rec[c] = "ended"
                         => ExitSaid(workWire', c) \/ c \in early'
    <3> SUFFICES ASSUME NEW c \in Shell, bash'[c] = "late", rec[c] = "ended"
                 PROVE  ExitSaid(workWire', c) \/ c \in early'
      OBVIOUS
    <3>1. CASE c = t
      BY <1>4, <2>1, <3>1 DEF W!Claimed
    <3>2. CASE c # t
      BY <1>2, <2>1, <2>3, <2>5, <3>2 DEF HearsEnd
    <3> QED  BY <3>1, <3>2
  <2>7. \A n \in Mon : monitor'[n] = "open" /\ rec[n] = "ended"
                       => ExitSaid(workWire', n) \/ n \in early'
    <3> SUFFICES ASSUME NEW n \in Mon, monitor'[n] = "open", rec[n] = "ended"
                 PROVE  ExitSaid(workWire', n) \/ n \in early'
      OBVIOUS
    <3>1. CASE n = t
      BY <2>1, <2>5, <3>1 DEF W!Claimed
    <3>2. CASE n # t
      BY <1>2, <2>3, <2>5, <3>2 DEF HearsEnd
    <3> QED  BY <3>1, <3>2
  <2>8. \A u \in W!Task : Safe(u) /\ rec[u] = "ended" /\ W!Live(row', u)
             => Looked(workWire', workAsks', u)
    <3> SUFFICES ASSUME NEW u \in W!Task, Safe(u), rec[u] = "ended", W!Live(row', u)
                 PROVE  Looked(workWire', workAsks', u)
      OBVIOUS
    <3>1. u # t /\ W!Live(row, u)
      BY <2>4 DEF NoneNew, W!Id
    <3>2. m # W!Message("exited", u)
      <4>1. m = W!Message("exited", u) => u = m.of
        BY DEF W!Message
      <4> QED  BY <3>1, <4>1 DEF t
    <3> QED  BY <1>1, <1>9, <3>1, <3>2
  <2>9. RowsAwaited(row', awaited')
    BY <1>4, <1>a, <2>1, <2>4 DEF RowsAwaited, NoneNew, W!Id
  <2> QED  BY <1>7, <2>4, <2>5, <2>6, <2>7, <2>8, <2>9
<1>10. CASE /\ m.is \in {"budget", "done"}
            /\ bash' = [bash EXCEPT ![m.of] = IF m.is = "done" THEN "done" ELSE "late"]
            /\ early' = IF m.is = "done" THEN early \ {m.of} ELSE early
            /\ UNCHANGED <<monitor, row, awaited>>
  <2>1. \A t : ExitSaid(workWire, t) => ExitSaid(workWire', t)
    BY <1>1, <1>10, MessagesDiffer
  <2>2. m.of \in Shell
    BY <1>6, <1>10
  <2>3. /\ bash' = [c \in Shell |-> bash'[c]] /\ monitor' = [n \in Mon |-> monitor'[n]]
        /\ \A c \in Shell : bash'[c] = "late" => bash[c] = "late" \/ (c = m.of /\ m.is = "budget")
        /\ \A c \in Shell : bash'[c] = "late" /\ c \in early => c \in early'
        /\ \A n \in Mon : n \in early => n \in early'
    BY <1>0, <1>5, <1>10, <2>2
  <2>4. \A c \in Shell : bash'[c] = "late" /\ rec[c] = "ended"
                         => ExitSaid(workWire', c) \/ c \in early'
    BY <1>1, <1>2, <2>1, <2>3 DEF HearsEnd
  <2>5. \A n \in Mon : monitor'[n] = "open" /\ rec[n] = "ended"
                       => ExitSaid(workWire', n) \/ n \in early'
    BY <1>2, <1>10, <2>1, <2>3 DEF HearsEnd
  <2>6. \A t \in W!Task : Safe(t) /\ rec[t] = "ended" /\ W!Live(row', t)
             => Looked(workWire', workAsks', t)
    BY <1>1, <1>10, MessagesDiffer
  <2>7. IsRows(row') /\ RowsAwaited(row', awaited')
    BY <1>0, <1>10, <1>a
  <2> QED  BY <1>7, <2>3, <2>4, <2>5, <2>6, <2>7
<1>11. CASE m.is \in {"sync", "resync"} /\ W!Settle(m.rec)
  <2>1. /\ monitor' = [n \in Mon |-> IF m.rec[n] = "ended" /\ monitor[n] \in {"active", "stopping"}
                                     THEN "closed" ELSE monitor[n]]
        /\ row' \in W!Closings(row, W!Stale(row, m.rec))
        /\ UNCHANGED <<bash, early>> /\ awaited' = awaited \ W!Stale(row, m.rec)
    BY <1>11 DEF W!Settle
  <2>2. W!Stale(row, m.rec) \in SUBSET W!Task
    BY DEF W!Stale
  <2>3. IsRows(row') /\ NoneNew(row, row') /\ \A t \in W!Stale(row, m.rec) : ~W!Live(row', t)
    BY <1>0, <2>1, <2>2, ClosingKills
  <2>4. \A t : ExitSaid(workWire, t) => ExitSaid(workWire', t)
    BY <1>1, <1>11, MessagesDiffer
  <2>5. /\ bash' = [c \in Shell |-> bash'[c]] /\ monitor' = [n \in Mon |-> monitor'[n]]
        /\ \A n \in Mon : monitor'[n] = "open" => monitor[n] = "open"
    BY <1>0, <2>1
  <2>6. \A c \in Shell : bash'[c] = "late" /\ rec[c] = "ended"
                         => ExitSaid(workWire', c) \/ c \in early'
    BY <1>2, <2>1, <2>4 DEF HearsEnd
  <2>7. \A n \in Mon : monitor'[n] = "open" /\ rec[n] = "ended"
                       => ExitSaid(workWire', n) \/ n \in early'
    BY <1>2, <2>1, <2>4, <2>5 DEF HearsEnd
  <2>8. \A t \in W!Task : Safe(t) /\ rec[t] = "ended" /\ W!Live(row', t)
             => Looked(workWire', workAsks', t)
    <3> SUFFICES ASSUME NEW t \in W!Task, Safe(t), rec[t] = "ended", W!Live(row', t)
                 PROVE  Looked(workWire', workAsks', t)
      OBVIOUS
    <3>1. W!Live(row, t) /\ t \notin W!Stale(row, m.rec)
      BY <2>3 DEF NoneNew, W!Id
    <3>2. m.rec[t] # "ended"
      BY <3>1 DEF W!Stale
    <3>3. m # W!Message("exited", t)
      BY <1>11, MessagesDiffer
    <3> QED  BY <1>1, <3>1, <3>2, <3>3
  <2>9. RowsAwaited(row', awaited')
    BY <1>4, <1>a, <2>1, <2>3 DEF RowsAwaited, NoneNew, W!Id
  <2> QED  BY <1>7, <2>3, <2>5, <2>6, <2>7, <2>8, <2>9
<1>12. CASE m.is = "list" /\ UNCHANGED <<bash, monitor, early, row, awaited>>
  <2>1. \A t : ExitSaid(workWire, t) => ExitSaid(workWire', t)
    BY <1>1, <1>12, MessagesDiffer
  <2>2. \A t \in W!Task : Safe(t) /\ rec[t] = "ended" /\ W!Live(row', t)
             => Looked(workWire', workAsks', t)
    BY <1>1, <1>12, MessagesDiffer
  <2>3. /\ IsRows(row') /\ RowsAwaited(row', awaited')
        /\ bash' = [c \in Shell |-> bash'[c]] /\ monitor' = [n \in Mon |-> monitor'[n]]
    BY <1>0, <1>12, <1>a
  <2>4. /\ \A c \in Shell : bash'[c] = "late" /\ rec[c] = "ended"
               => ExitSaid(workWire', c) \/ c \in early'
        /\ \A n \in Mon : monitor'[n] = "open" /\ rec[n] = "ended"
               => ExitSaid(workWire', n) \/ n \in early'
    BY <1>2, <1>12, <2>1 DEF HearsEnd
  <2> QED  BY <1>7, <2>2, <2>3, <2>4
<1> QED  BY <1>3, <1>8, <1>9, <1>10, <1>11, <1>12

-----------------------------------------------------------------------------
LEMMA WorkStarts == ASSUME W!Init PROVE WorkInv
<1>1. workWire = << >> /\ << >> \in Seq(WireSet) /\ DOMAIN << >> = {}
  BY DEF W!Init
<1>2. WorkTypes
  BY <1>1 DEF W!Init, WorkTypes, IsRows
<1>3. ToldBefore(workWire, rec)
  BY <1>1 DEF ToldBefore
<1>4. LateHears /\ OpenHears /\ RowsAwaited(row, awaited)
  BY DEF W!Init, LateHears, OpenHears, RowsAwaited, W!Live, W!NoRow, W!Active, W!Id, W!Task
<1> QED  BY <1>2, <1>3, <1>4 DEF WorkInv

LEMMA WorkSteps ==
  ASSUME W!WorkListConstants, WorkInv, [W!Next]_(W!vars)
  PROVE  WorkInv' /\ (NoneForgotten \/ W!GiveUp \/ \E a \in W!ListAsk : W!RequestFails(a))
<1>1. CASE \/ \E t \in W!Task : W!Start(t) \/ W!TaskEnds(t)
           \/ \E c \in Shell : W!AnswerWait(c)
           \/ \E a \in W!ListAsk : W!AnswerList(a)
  BY <1>1, ManagerKeeps
<1>2. CASE \/ \E m \in Mon : W!Timeout(m) \/ W!Cleanup(m)
           \/ \E t \in W!Task : W!TaskStop(t)
           \/ W!TaskList \/ W!ListTasks \/ W!TimePasses \/ W!Watchdog \/ UNCHANGED W!vars
  BY <1>2, RestKeeps
<1>3. CASE \E c \in Shell : W!Background(c)
  BY <1>3, BackgroundKeeps
<1>4. CASE \E m \in Mon : W!Register(m)
  BY <1>4, RegisterKeeps
<1>5. CASE \E a \in W!Agent : W!AddChild(a) \/ W!AdmitChild(a) \/ W!SettleChild(a)
  BY <1>5, TransitionKeeps
<1>6. CASE W!Receive \/ W!Drop \/ W!Restart
  BY <1>6, WorkReceiveKeeps, ConnectionKeeps
<1>7. CASE W!GiveUp \/ \E a \in W!ListAsk : W!RequestFails(a)
  BY <1>7, ClientGivesUpKeeps, ListFailsKeeps
<1> QED  BY <1>1, <1>2, <1>3, <1>4, <1>5, <1>6, <1>7 DEF W!Next

-----------------------------------------------------------------------------
(* What the wire holds of a call, as it grows and shrinks.                 *)

LEMMA MessageIs ==
  \A x, y, t, u : /\ W!Message(x, t).is = x /\ W!Message(x, t).of = t
                  /\ W!Message(x, t) = W!Message(y, u) => x = y /\ t = u
<1> SUFFICES ASSUME NEW x, NEW y, NEW t, NEW u
             PROVE  /\ W!Message(x, t).is = x /\ W!Message(x, t).of = t
                    /\ W!Message(x, t) = W!Message(y, u) => x = y /\ t = u
  OBVIOUS
<1>1. \A z, v : W!Message(z, v).is = z /\ W!Message(z, v).of = v
  BY DEF W!Message
<1> QED  BY <1>1

LEMMA HoldsMore ==
  ASSUME NEW w \in Seq(WireSet), NEW m \in WireSet
  PROVE  LET v == Append(w, m)
             n == Len(w) + 1
         IN /\ \A a, k : k \in At(v, a) <=> k \in At(w, a) \/ (k = n /\ m.is = a)
            /\ \A a, k : k \in At(w, a) => v[k] = w[k] /\ k # n
            /\ v[n] = m
            /\ \A c, k : k \in Starts(v, c)
                   <=> k \in Starts(w, c) \/ (k = n /\ m = W!Message("started", c))
            /\ \A c, k : k \in Answers(v, c) <=>
                 k \in Answers(w, c)
                     \/ (k = n /\ m \in {W!Message("budget", c), W!Message("done", c)})
            /\ \A t, k : k \in DOMAIN w /\ ExitAfter(v, k, t)
                         => ExitAfter(w, k, t) \/ m = W!Message("exited", t)
            /\ \A t : ~ExitAfter(v, n, t)
            /\ \A t : ExitSaid(v, t) => ExitSaid(w, t) \/ m = W!Message("exited", t)
<1> DEFINE v == Append(w, m)
           n == Len(w) + 1
<1>1. /\ Len(w) \in Nat /\ DOMAIN w = 1..Len(w) /\ DOMAIN v = 1..n
      /\ \A k \in DOMAIN w : v[k] = w[k] /\ k \in DOMAIN v /\ k < n
      /\ v[n] = m
  BY WireGrows
<1>2. /\ n \in Nat /\ n \in DOMAIN v /\ n \notin DOMAIN w
      /\ \A k \in DOMAIN v : k \in DOMAIN w \/ k = n
  BY <1>1
<1>3. \A k \in DOMAIN v : ~(k > n)
  BY <1>1
<1> HIDE DEF v, n
<1>4. /\ \A a, k : k \in At(v, a) <=> k \in At(w, a) \/ (k = n /\ m.is = a)
      /\ \A a, k : k \in At(w, a) => v[k] = w[k] /\ k # n
  BY <1>1, <1>2 DEF At
<1>5. \A c, k : k \in Starts(v, c) <=> k \in Starts(w, c) \/ (k = n /\ m = W!Message("started", c))
  BY <1>1, <1>2 DEF Starts
<1>6. \A c, k : k \in Answers(v, c) <=>
        k \in Answers(w, c) \/ (k = n /\ m \in {W!Message("budget", c), W!Message("done", c)})
  BY <1>1, <1>2 DEF Answers
<1>7. \A t, k : k \in DOMAIN w /\ ExitAfter(v, k, t)
    => ExitAfter(w, k, t) \/ m = W!Message("exited", t)
  BY <1>1, <1>2 DEF ExitAfter
<1>8. \A t : ~ExitAfter(v, n, t)
  BY <1>3 DEF ExitAfter
<1>9. \A t : ExitSaid(v, t) => ExitSaid(w, t) \/ m = W!Message("exited", t)
  BY <1>1, <1>2 DEF ExitSaid
<1> QED  BY <1>1, <1>4, <1>5, <1>6, <1>7, <1>8, <1>9 DEF v, n

LEMMA HoldsLess ==
  ASSUME NEW w \in Seq(WireSet), w # << >>
  PROVE  LET v == Tail(w)
         IN /\ \A k \in DOMAIN v : k \in Nat /\ k + 1 \in DOMAIN w /\ v[k] = w[k + 1] /\ k + 1 # 1
            /\ \A a : \A k \in At(v, a) : k \in DOMAIN v /\ k + 1 \in At(w, a)
            /\ \A a : Head(w).is = a => 1 \in At(w, a)
            /\ \A c : \A k \in Starts(v, c) : k \in DOMAIN v /\ k + 1 \in Starts(w, c)
            /\ \A c : Head(w) = W!Message("started", c) => 1 \in Starts(w, c)
            /\ \A c : \A k \in Answers(v, c) : k \in DOMAIN v /\ k + 1 \in Answers(w, c)
            /\ \A c : Head(w) \in {W!Message("budget", c), W!Message("done", c)}
                   => 1 \in Answers(w, c)
            /\ \A t : \A k \in DOMAIN v : ExitAfter(v, k, t) => ExitAfter(w, k + 1, t)
            /\ \A t : ExitSaid(v, t) => ExitAfter(w, 1, t) /\ ExitSaid(w, t)
            /\ Head(w) = w[1] /\ 1 \in DOMAIN w
<1> DEFINE v == Tail(w)
<1>1. /\ Len(w) \in Nat /\ Head(w) = w[1] /\ 1 \in DOMAIN w
      /\ DOMAIN w = 1..Len(w) /\ DOMAIN v = 1..(Len(w) - 1)
      /\ \A k \in DOMAIN v : v[k] = w[k + 1] /\ k + 1 \in DOMAIN w
  BY WireShrinks
<1>2. \A k \in DOMAIN v : k \in Nat /\ k + 1 # 1 /\ k + 1 > 1
  BY <1>1
<1>3. \A j, k \in DOMAIN v : j > k => j + 1 > k + 1
  BY <1>1
<1> HIDE DEF v
<1>4. \A a : \A k \in At(v, a) : k \in DOMAIN v /\ k + 1 \in At(w, a)
  BY <1>1 DEF At
<1>5. \A c : \A k \in Starts(v, c) : k \in DOMAIN v /\ k + 1 \in Starts(w, c)
  BY <1>1 DEF Starts
<1>6. \A c : \A k \in Answers(v, c) : k \in DOMAIN v /\ k + 1 \in Answers(w, c)
  BY <1>1 DEF Answers
<1>7. \A t : \A k \in DOMAIN v : ExitAfter(v, k, t) => ExitAfter(w, k + 1, t)
  BY <1>1, <1>3 DEF ExitAfter
<1>8. \A t : ExitSaid(v, t) => ExitAfter(w, 1, t) /\ ExitSaid(w, t)
  BY <1>1, <1>2 DEF ExitAfter, ExitSaid
<1>9. /\ \A a : Head(w).is = a => 1 \in At(w, a)
      /\ \A c : Head(w) = W!Message("started", c) => 1 \in Starts(w, c)
      /\ \A c : Head(w) \in {W!Message("budget", c), W!Message("done", c)} => 1 \in Answers(w, c)
  BY <1>1 DEF At, Starts, Answers
<1> QED  BY <1>1, <1>2, <1>4, <1>5, <1>6, <1>7, <1>8, <1>9 DEF v

LEMMA WireIs ==
  ASSUME NEW m \in WireSet
  PROVE  /\ m.is \in {"started", "exited"} => m.of \in W!Task /\ m = W!Message(m.is, m.of)
         /\ m.is \in {"done", "budget"} => m.of \in Shell /\ m = W!Message(m.is, m.of)
         /\ m.is \in W!ListAsk => m.rec \in [W!Task -> {"none", "running", "ended"}]
         /\ m.is \in {"started", "exited", "done", "budget"} \cup W!ListAsk
<1>1. CASE m \in [is : {"started", "exited"}, of : W!Task]
  <2>1. m = [is |-> m.is, of |-> m.of] /\ m.of \in W!Task /\ m.is \in {"started", "exited"}
    BY <1>1
  <2> QED  BY <2>1 DEF W!Message, W!ListAsk
<1>2. CASE m \in [is : {"done", "budget"}, of : Shell]
  <2>1. m = [is |-> m.is, of |-> m.of] /\ m.of \in Shell /\ m.is \in {"done", "budget"}
    BY <1>2
  <2> QED  BY <2>1 DEF W!Message, W!ListAsk
<1>3. CASE m \in [is : W!ListAsk, rec : [W!Task -> {"none", "running", "ended"}]]
  <2>1. m.is \in W!ListAsk /\ m.rec \in [W!Task -> {"none", "running", "ended"}]
    BY <1>3
  <2> QED  BY <2>1 DEF W!ListAsk
<1> QED  BY <1>1, <1>2, <1>3 DEF WireSet

(* The manager's steps once more, by the message each adds.                *)
ManagerAdds(m) ==
  \/ \E t \in W!Task : /\ rec[t] = "none" /\ m = W!Message("started", t)
                       /\ rec' = [rec EXCEPT ![t] = "running"] /\ UNCHANGED <<workAsks, listing>>
  \/ \E t \in W!Task : /\ rec[t] = "running" /\ m = W!Message("exited", t)
                       /\ rec' = [rec EXCEPT ![t] = "ended"] /\ UNCHANGED <<workAsks, listing>>
  \/ \E c \in Shell : /\ bash[c] = "open" /\ Answers(workWire, c) = {}
                      /\ m \in {W!Message("budget", c), W!Message("done", c)}
                      /\ UNCHANGED <<rec, workAsks, listing>>
  \/ \E a \in W!ListAsk :
       /\ a \in workAsks /\ workAsks' = workAsks \ {a} /\ m = [is |-> a, rec |-> rec] /\ rec' = rec
       /\ listing' = IF a = "sync" THEN [listing EXCEPT !.over = {t \in W!Task : rec[t] = "ended"}]
                     ELSE listing

LEMMA ManagerTells ==
  ASSUME WorkInv,
         \/ \E t \in W!Task : W!Start(t) \/ W!TaskEnds(t)
         \/ \E c \in Shell : W!AnswerWait(c)
         \/ \E a \in W!ListAsk : W!AnswerList(a)
  PROVE  /\ UNCHANGED <<bash, monitor, early, awaited, child, row>>
         /\ \E m \in WireSet : workWire' = Append(workWire, m) /\ ManagerAdds(m)
<1>1. UNCHANGED <<bash, monitor, early, awaited, child, row>>
  BY DEF W!Start, W!TaskEnds, W!AnswerWait, W!AnswerList, W!shellVars
<1>2. ASSUME NEW t \in W!Task, W!Start(t)
      PROVE  \E m \in WireSet : workWire' = Append(workWire, m) /\ ManagerAdds(m)
  <2>1. W!Message("started", t) \in WireSet
    BY DEF W!Message, WireSet
  <2>2. /\ workWire' = Append(workWire, W!Message("started", t))
        /\ ManagerAdds(W!Message("started", t))
    BY <1>2 DEF W!Start, ManagerAdds
  <2> QED  BY <2>1, <2>2
<1>3. ASSUME NEW t \in W!Task, W!TaskEnds(t)
      PROVE  \E m \in WireSet : workWire' = Append(workWire, m) /\ ManagerAdds(m)
  <2>1. W!Message("exited", t) \in WireSet
    BY DEF W!Message, WireSet
  <2>2. workWire' = Append(workWire, W!Message("exited", t)) /\ ManagerAdds(W!Message("exited", t))
    BY <1>3 DEF W!TaskEnds, W!Ended, ManagerAdds
  <2> QED  BY <2>1, <2>2
<1>4. ASSUME NEW c \in Shell, W!AnswerWait(c)
      PROVE  \E m \in WireSet : workWire' = Append(workWire, m) /\ ManagerAdds(m)
  <2>1. W!Message("done", c) \in WireSet /\ W!Message("budget", c) \in WireSet
    BY DEF W!Message, WireSet
  <2>2. PICK m \in {W!Message("budget", c), W!Message("done", c)} : workWire' = Append(workWire, m)
    BY <1>4 DEF W!AnswerWait
  <2>3. bash[c] = "open" /\ UNCHANGED <<rec, workAsks, listing>> /\ Answers(workWire, c) = {}
    BY <1>4 DEF W!AnswerWait, W!Said, Answers
  <2>4. ManagerAdds(m)
    BY <2>3 DEF ManagerAdds
  <2> QED  BY <2>1, <2>2, <2>4
<1>5. ASSUME NEW a \in W!ListAsk, W!AnswerList(a)
      PROVE  \E m \in WireSet : workWire' = Append(workWire, m) /\ ManagerAdds(m)
  <2> DEFINE m == [is |-> a, rec |-> rec]
  <2>1. m \in WireSet
    BY DEF WorkInv, WorkTypes, WireSet
  <2>2. workWire' = Append(workWire, m) /\ ManagerAdds(m)
    BY <1>5 DEF W!AnswerList, ManagerAdds
  <2> HIDE DEF m
  <2> QED  BY <2>1, <2>2
<1> QED  BY <1>1, <1>2, <1>3, <1>4, <1>5

-----------------------------------------------------------------------------
(* A command's call. *)

CallsOk ==
  /\ \A c \in Shell : CallOk(workWire, bash, rec, c)
  /\ awaited \subseteq {c \in Shell : bash[c] = "background"}

LEMMA TellsCalls ==
  ASSUME WorkInv, CallsOk, NEW m \in WireSet, workWire' = Append(workWire, m), ManagerAdds(m),
         UNCHANGED <<bash, awaited>>
  PROVE  CallsOk'
<1> SUFFICES ASSUME NEW c \in Shell PROVE CallOk(workWire', bash', rec', c)
  BY DEF CallsOk
<1> DEFINE n == Len(workWire) + 1
<1>1. /\ rec \in [W!Task -> {"none", "running", "ended"}] /\ workWire \in Seq(WireSet)
             /\ c \in W!Task
      /\ CallOk(workWire, bash, rec, c)
  BY DEF WorkInv, WorkTypes, CallsOk, W!Task
<1>2. /\ \A k : k \in Starts(workWire', c) <=>
               k \in Starts(workWire, c) \/ (k = n /\ m = W!Message("started", c))
      /\ \A k : k \in Answers(workWire', c) <=>
               k \in Answers(workWire, c)
                   \/ (k = n /\ m \in {W!Message("budget", c), W!Message("done", c)})
  BY <1>1, HoldsMore
<1> HIDE DEF n
<1>3. CASE \E t \in W!Task : /\ rec[t] = "none" /\ m = W!Message("started", t)
                             /\ rec' = [rec EXCEPT ![t] = "running"]
  <2>1. PICK t \in W!Task : /\ rec[t] = "none" /\ m = W!Message("started", t)
                            /\ rec' = [rec EXCEPT ![t] = "running"]
    BY <1>3
  <2>2. m \notin {W!Message("budget", c), W!Message("done", c)}
      /\ (m = W!Message("started", c) => c = t)
    BY <2>1, MessageIs
  <2>3. rec'[c] = (IF c = t THEN "running" ELSE rec[c])
    BY <1>1, <2>1
  <2> QED  BY <1>1, <1>2, <2>1, <2>2, <2>3 DEF CallOk
<1>4. CASE \E t \in W!Task : /\ rec[t] = "running" /\ m = W!Message("exited", t)
                             /\ rec' = [rec EXCEPT ![t] = "ended"]
  <2>1. PICK t \in W!Task : /\ rec[t] = "running" /\ m = W!Message("exited", t)
                            /\ rec' = [rec EXCEPT ![t] = "ended"]
    BY <1>4
  <2>2. m \notin {W!Message("budget", c), W!Message("done", c), W!Message("started", c)}
    BY <2>1, MessageIs
  <2>3. rec'[c] = (IF c = t THEN "ended" ELSE rec[c])
    BY <1>1, <2>1
  <2> QED  BY <1>1, <1>2, <2>1, <2>2, <2>3 DEF CallOk
<1>5. CASE \E d \in Shell : /\ bash[d] = "open" /\ Answers(workWire, d) = {}
                            /\ m \in {W!Message("budget", d), W!Message("done", d)} /\ rec' = rec
  <2>1. PICK d \in Shell : /\ bash[d] = "open" /\ Answers(workWire, d) = {}
                           /\ m \in {W!Message("budget", d), W!Message("done", d)} /\ rec' = rec
    BY <1>5
  <2>2. m # W!Message("started", c)
      /\ (m \in {W!Message("budget", c), W!Message("done", c)} => c = d)
    BY <2>1, MessageIs
  <2> QED  BY <1>1, <1>2, <2>1, <2>2 DEF CallOk
<1>6. CASE \E a \in W!ListAsk : m = [is |-> a, rec |-> rec] /\ rec' = rec
  <2>1. m.is \in W!ListAsk /\ rec' = rec
    BY <1>6
  <2>2. m \notin {W!Message("budget", c), W!Message("done", c), W!Message("started", c)}
    BY <2>1, MessageIs DEF W!ListAsk
  <2> QED  BY <1>1, <1>2, <2>1, <2>2 DEF CallOk
<1> QED  BY <1>3, <1>4, <1>5, <1>6 DEF ManagerAdds

LEMMA ReceiveCalls ==
  ASSUME W!WorkListConstants, WorkInv, CallsOk, W!Receive
  PROVE  CallsOk'
<1> DEFINE m == Head(workWire)
<1>1. /\ workWire \in Seq(WireSet) /\ workWire # << >> /\ workWire' = Tail(workWire) /\ rec' = rec
      /\ bash = [c \in Shell |-> bash[c]]
  BY DEF WorkInv, WorkTypes, W!Receive
<1>2. m \in WireSet
  BY <1>1, WireShrinks
<1>3. \/ /\ m.is = "started" /\ awaited' = awaited
         /\ \/ bash' = bash
            \/ m.of \notin Mon /\ bash' = [bash EXCEPT ![m.of] = "open"]
      \/ /\ m.is \in {"budget", "done"} /\ awaited' = awaited
         /\ bash' = [bash EXCEPT ![m.of] = IF m.is = "done" THEN "done" ELSE "late"]
      \/ m.is \notin {"started", "budget", "done"} /\ bash' = bash /\ awaited' \subseteq awaited
  <2>1. CASE m.is = "started" /\ W!StartedEvent(m.of)
    BY <2>1 DEF W!StartedEvent
  <2>2. CASE m.is = "exited" /\ W!ExitEvent(m.of)
    BY <2>2 DEF W!ExitEvent
  <2>3. CASE m.is \in {"sync", "resync"} /\ W!Settle(m.rec)
    BY <2>3 DEF W!Settle
  <2> QED  BY <2>1, <2>2, <2>3 DEF W!Receive, W!shellVars
<1>4. ASSUME NEW c \in Shell
      PROVE  /\ \A k \in Starts(workWire', c) :
                         k + 1 \in Starts(workWire, c) /\ k + 1 # 1 /\ k \in Nat
             /\ m = W!Message("started", c) => 1 \in Starts(workWire, c)
             /\ \A k \in Answers(workWire', c) :
                         k + 1 \in Answers(workWire, c) /\ k + 1 # 1 /\ k \in Nat
             /\ m \in {W!Message("budget", c), W!Message("done", c)} => 1 \in Answers(workWire, c)
  BY <1>1, HoldsLess
<1>5. /\ m.is = "started" => m.of \in W!Task /\ m = W!Message("started", m.of)
      /\ m.is \in {"budget", "done"} => m.of \in Shell /\ m = W!Message(m.is, m.of)
  BY <1>2, WireIs
<1> HIDE DEF m
<1>6. ASSUME NEW c \in Shell
      PROVE  /\ CallOk(workWire, bash, rec, c)
             /\ Starts(workWire', c) # {} => Starts(workWire, c) # {}
             /\ Answers(workWire', c) # {} => Answers(workWire, c) # {}
             /\ \A j, k \in Starts(workWire', c) : j = k
             /\ \A j, k \in Answers(workWire', c) : j = k
  <2>1. CallOk(workWire, bash, rec, c)
    BY DEF CallsOk
  <2> QED  BY <2>1, <1>4 DEF CallOk
<1>7. CASE m.is = "started" /\ m.of \notin Mon /\ bash' = [bash EXCEPT ![m.of] = "open"]
           /\ awaited' = awaited
  <2> DEFINE d == m.of
  <2>1. d \in Shell /\ m = W!Message("started", d)
    BY <1>5, <1>7 DEF W!Task
  <2>2. 1 \in Starts(workWire, d) /\ Starts(workWire', d) = {}
    BY <1>4, <1>6, <2>1 DEF CallOk
  <2>3. bash[d] = "new" /\ rec[d] # "none"
    BY <1>6, <2>1, <2>2 DEF CallOk
  <2>4. \A c \in Shell : bash'[c] = (IF c = d THEN "open" ELSE bash[c])
    BY <1>1, <1>7
  <2> HIDE DEF d
  <2>5. ASSUME NEW c \in Shell PROVE CallOk(workWire', bash', rec', c)
    BY <1>1, <1>6, <2>2, <2>3, <2>4 DEF CallOk
  <2>6. awaited' \subseteq {c \in Shell : bash'[c] = "background"}
    BY <1>7, <2>1, <2>3, <2>4 DEF CallsOk
  <2> QED  BY <2>5, <2>6 DEF CallsOk
<1>8. CASE /\ m.is \in {"budget", "done"} /\ awaited' = awaited
           /\ bash' = [bash EXCEPT ![m.of] = IF m.is = "done" THEN "done" ELSE "late"]
  <2> DEFINE d == m.of
  <2>1. d \in Shell /\ m \in {W!Message("budget", d), W!Message("done", d)}
    BY <1>5, <1>8
  <2>2. 1 \in Answers(workWire, d) /\ Answers(workWire', d) = {}
    BY <1>4, <1>6, <2>1 DEF CallOk
  <2>3. bash[d] = "open" /\ rec[d] # "none" /\ Starts(workWire', d) = {}
    BY <1>6, <2>1, <2>2 DEF CallOk
  <2>4. \A c \in Shell : c # d => bash'[c] = bash[c]
    BY <1>1, <1>8
  <2> HIDE DEF d
  <2>5. ASSUME NEW c \in Shell PROVE CallOk(workWire', bash', rec', c)
    BY <1>1, <1>6, <2>2, <2>3, <2>4 DEF CallOk
  <2>6. awaited' \subseteq {c \in Shell : bash'[c] = "background"}
    BY <1>8, <2>1, <2>3, <2>4 DEF CallsOk
  <2> QED  BY <2>5, <2>6 DEF CallsOk
<1>9. CASE bash' = bash /\ awaited' \subseteq awaited
  <2>1. ASSUME NEW c \in Shell PROVE CallOk(workWire', bash', rec', c)
    BY <1>1, <1>6, <1>9 DEF CallOk
  <2> QED  BY <1>9, <2>1 DEF CallsOk
<1> QED  BY <1>3, <1>7, <1>8, <1>9

LEMMA CallsKept ==
  ASSUME W!WorkListConstants, WorkInv, CallsOk, [W!Next]_(W!vars)
  PROVE  CallsOk'
<1>1. CASE \/ \E t \in W!Task : W!Start(t) \/ W!TaskEnds(t)
           \/ \E c \in Shell : W!AnswerWait(c)
           \/ \E a \in W!ListAsk : W!AnswerList(a)
  BY <1>1, ManagerTells, TellsCalls
<1>2. CASE W!Receive
  BY <1>2, ReceiveCalls
<1>3. CASE \E c \in Shell : W!Background(c)
  <2>1. PICK c \in Shell : W!Background(c)
    BY <1>3
  <2>2. /\ bash[c] = "late" /\ bash' = [bash EXCEPT ![c] = "background"]
        /\ UNCHANGED <<rec, workWire>> /\ awaited' \subseteq awaited \cup {c}
    BY <2>1 DEF W!Background, W!MarkNotifyOnExit, W!managerVars
  <2>3. bash = [d \in Shell |-> bash[d]]
    BY DEF WorkInv, WorkTypes
  <2>4. \A d \in Shell : bash'[d] = (IF d = c THEN "background" ELSE bash[d])
    BY <2>2, <2>3
  <2>5. ASSUME NEW d \in Shell PROVE CallOk(workWire', bash', rec', d)
    <3>1. CallOk(workWire, bash, rec, d)
      BY DEF CallsOk
    <3> QED  BY <2>2, <2>4, <3>1 DEF CallOk
  <2> QED  BY <2>2, <2>4, <2>5 DEF CallsOk
<1>4. CASE \/ \E m \in Mon : W!Register(m) \/ W!Timeout(m) \/ W!Cleanup(m)
           \/ \E t \in W!Task : W!TaskStop(t)
           \/ \E a \in W!Agent : W!AddChild(a) \/ W!AdmitChild(a) \/ W!SettleChild(a)
           \/ W!TaskList \/ W!ListTasks \/ W!TimePasses \/ W!Watchdog \/ UNCHANGED W!vars
  <2>1. UNCHANGED <<rec, workWire, bash, awaited>>
    <3>1. CASE \E m \in Mon : W!Register(m) \/ W!Timeout(m) \/ W!Cleanup(m)
      BY <3>1 DEF W!Register, W!Timeout, W!Cleanup, W!shellVars, W!managerVars
    <3>2. CASE \E a \in W!Agent : W!AddChild(a) \/ W!AdmitChild(a) \/ W!SettleChild(a)
      BY <3>2 DEF W!AddChild, W!AdmitChild, W!SettleChild, W!Transition, W!shellVars, W!managerVars
    <3>3. CASE \/ \E t \in W!Task : W!TaskStop(t)
               \/ W!TaskList \/ W!ListTasks \/ W!TimePasses \/ W!Watchdog \/ UNCHANGED W!vars
      BY <3>3 DEF W!TaskStop, W!TaskList, W!ListTasks, W!TimePasses, W!Watchdog, W!shellVars,
         W!managerVars, W!vars
    <3> QED  BY <1>4, <3>1, <3>2, <3>3
  <2> QED  BY <2>1 DEF CallsOk, CallOk, Starts, Answers
<1>5. CASE W!Drop \/ W!Restart
  <2>1. workWire' = << >> /\ rec' = rec /\ DOMAIN << >> = {}
    BY <1>5 DEF W!Drop, W!Restart
  <2>2. \A c \in Shell : Starts(workWire', c) = {} /\ Answers(workWire', c) = {}
    BY <2>1 DEF Starts, Answers
  <2>3. CASE W!Drop
    <3>1. UNCHANGED <<bash, awaited>>
      BY <2>3 DEF W!Drop, W!shellVars
    <3> QED  BY <2>1, <2>2, <3>1 DEF CallsOk, CallOk
  <2>4. CASE W!Restart
    <3>1. /\ bash' = [c \in Shell |-> IF rec[c] = "none" THEN "new" ELSE "done"]
          /\ awaited' = {}
      BY <2>4 DEF W!Restart
    <3> QED  BY <2>1, <2>2, <3>1 DEF CallsOk, CallOk
  <2> QED  BY <1>5, <2>3, <2>4
<1>6. CASE W!GiveUp
  <2>1. PICK cut \in SUBSET {c \in Shell : bash[c] = "open"} :
          /\ bash' = [c \in Shell |-> IF c \in cut THEN "background" ELSE bash[c]]
          /\ awaited' = awaited \cup (cut \ early)
          /\ workWire' = << >> /\ rec' = rec
    BY <1>6, GiveUpIs
  <2>2. \A c \in Shell : Starts(workWire', c) = {} /\ Answers(workWire', c) = {}
    <3>1. DOMAIN << >> = {}
      OBVIOUS
    <3> QED  BY <2>1, <3>1 DEF Starts, Answers
  <2>3. \A c \in cut : rec[c] # "none"
    BY DEF CallsOk, CallOk
  <2>4. \A c \in Shell : bash'[c] = (IF c \in cut THEN "background" ELSE bash[c])
    BY <2>1
  <2> QED  BY <2>1, <2>2, <2>3, <2>4 DEF CallsOk, CallOk
<1>7. CASE \E a \in W!ListAsk : W!RequestFails(a)
  <2>1. UNCHANGED <<rec, workWire, bash, awaited>>
    BY <1>7 DEF W!RequestFails, W!shellVars
  <2> QED  BY <2>1 DEF CallsOk, CallOk, Starts, Answers
<1> QED  BY <1>1, <1>2, <1>3, <1>4, <1>5, <1>6, <1>7 DEF W!Next

-----------------------------------------------------------------------------
(* Nothing is heard of before it is so. *)

PastOk == PastOnly(workWire, early, rec) /\ early \subseteq W!Task

LEMMA TellsPast ==
  ASSUME WorkInv, NEW m \in WireSet, ManagerAdds(m)
  PROVE  /\ \A t \in W!Task : rec[t] = "ended" => rec'[t] = "ended"
         /\ \A t \in W!Task : rec[t] # "none" => rec'[t] # "none"
         /\ m.is = "exited" => rec'[m.of] = "ended"
         /\ m.is \in W!ListAsk => m.rec = rec /\ rec' = rec
<1>1. rec \in [W!Task -> {"none", "running", "ended"}]
  BY DEF WorkInv, WorkTypes
<1>2. CASE \E t \in W!Task : /\ rec[t] = "none" /\ m = W!Message("started", t)
                             /\ rec' = [rec EXCEPT ![t] = "running"]
  BY <1>1, <1>2, MessageIs DEF W!ListAsk
<1>3. CASE \E t \in W!Task : /\ rec[t] = "running" /\ m = W!Message("exited", t)
                             /\ rec' = [rec EXCEPT ![t] = "ended"]
  BY <1>1, <1>3, MessageIs DEF W!ListAsk
<1>4. CASE \E c \in Shell : m \in {W!Message("budget", c), W!Message("done", c)} /\ rec' = rec
  BY <1>1, <1>4, MessageIs DEF W!ListAsk
<1>5. CASE \E a \in W!ListAsk : m = [is |-> a, rec |-> rec] /\ rec' = rec
  BY <1>5 DEF W!ListAsk
<1> QED  BY <1>2, <1>3, <1>4, <1>5 DEF ManagerAdds

LEMMA AsideChanges ==
  ASSUME \/ \E c \in Shell : W!Background(c)
         \/ \E m \in Mon : W!Register(m) \/ W!Timeout(m) \/ W!Cleanup(m)
         \/ \E t \in W!Task : W!TaskStop(t)
         \/ \E a \in W!Agent : W!AddChild(a) \/ W!AdmitChild(a) \/ W!SettleChild(a)
         \/ W!TaskList \/ W!ListTasks \/ W!TimePasses \/ W!Watchdog \/ UNCHANGED W!vars
  PROVE  UNCHANGED <<rec, workWire>> /\ early' \subseteq early
<1>1. CASE \/ \E c \in Shell : W!Background(c)
           \/ \E m \in Mon : W!Register(m) \/ W!Timeout(m) \/ W!Cleanup(m)
  BY <1>1 DEF W!Background, W!Register, W!Timeout, W!Cleanup, W!shellVars, W!managerVars
<1>2. CASE \E a \in W!Agent : W!AddChild(a) \/ W!AdmitChild(a) \/ W!SettleChild(a)
  BY <1>2 DEF W!AddChild, W!AdmitChild, W!SettleChild, W!Transition, W!shellVars, W!managerVars
<1>3. CASE \/ \E t \in W!Task : W!TaskStop(t)
           \/ W!TaskList \/ W!ListTasks \/ W!TimePasses \/ W!Watchdog \/ UNCHANGED W!vars
  BY <1>3 DEF W!TaskStop, W!TaskList, W!ListTasks, W!TimePasses, W!Watchdog, W!shellVars,
        W!managerVars, W!vars
<1> QED  BY <1>1, <1>2, <1>3

LEMMA PastKept ==
  ASSUME WorkInv, PastOk, [W!Next]_(W!vars)
  PROVE  PastOk'
<1>0. workWire \in Seq(WireSet) /\ PastOnly(workWire, early, rec) /\ early \subseteq W!Task
  BY DEF WorkInv, WorkTypes, PastOk
<1>1. CASE \/ \E t \in W!Task : W!Start(t) \/ W!TaskEnds(t)
           \/ \E c \in Shell : W!AnswerWait(c)
           \/ \E a \in W!ListAsk : W!AnswerList(a)
  <2>1. early' = early /\ \E m \in WireSet : workWire' = Append(workWire, m) /\ ManagerAdds(m)
    BY <1>1, ManagerTells
  <2>2. PICK m \in WireSet : workWire' = Append(workWire, m) /\ ManagerAdds(m)
    BY <2>1
  <2>3. /\ \A t \in W!Task : rec[t] = "ended" => rec'[t] = "ended"
        /\ m.is = "exited" => rec'[m.of] = "ended"
        /\ m.is \in W!ListAsk => m.rec = rec /\ rec' = rec
    BY <2>2, TellsPast
  <2>4. /\ \A k \in DOMAIN workWire : workWire'[k] = workWire[k]
        /\ \A k \in DOMAIN workWire' : k \in DOMAIN workWire \/ workWire'[k] = m
    BY <1>0, <2>2, WireGrows
  <2>5. ASSUME NEW k \in DOMAIN workWire', workWire'[k].is = "exited"
      PROVE rec'[workWire'[k].of] = "ended"
    <3>1. CASE workWire'[k] = m
      BY <2>3, <2>5, <3>1
    <3>2. CASE k \in DOMAIN workWire
      <4>1. workWire[k] \in WireSet /\ workWire'[k] = workWire[k]
        BY <1>0, <2>4, <3>2
      <4>2. workWire[k].of \in W!Task /\ rec[workWire[k].of] = "ended"
        BY <1>0, <2>5, <3>2, <4>1, WireIs DEF PastOnly
      <4> QED  BY <2>3, <4>1, <4>2
    <3> QED  BY <2>4, <3>1, <3>2
  <2>6. ASSUME NEW k \in DOMAIN workWire', workWire'[k].is \in W!ListAsk,
               NEW t \in W!Task, workWire'[k].rec[t] = "ended"
        PROVE  rec'[t] = "ended"
    <3>1. CASE workWire'[k] = m
      BY <2>3, <2>6, <3>1
    <3>2. CASE k \in DOMAIN workWire
      BY <1>0, <2>3, <2>4, <2>6, <3>2 DEF PastOnly
    <3> QED  BY <2>4, <3>1, <3>2
  <2>7. \A t \in early' : rec'[t] = "ended"
    BY <1>0, <2>1, <2>3 DEF PastOnly
  <2> QED  BY <1>0, <2>1, <2>5, <2>6, <2>7 DEF PastOk, PastOnly
<1>2. CASE W!Receive
  <2> DEFINE m == Head(workWire)
  <2>1. workWire # << >> /\ workWire' = Tail(workWire) /\ rec' = rec
    BY <1>2 DEF W!Receive
  <2>2. m \in WireSet /\ m = workWire[1] /\ 1 \in DOMAIN workWire
        /\ \A k \in DOMAIN workWire' : k + 1 \in DOMAIN workWire /\ workWire'[k] = workWire[k + 1]
    BY <1>0, <2>1, WireShrinks
  <2>3. early' \subseteq early \/ (m.is = "exited" /\ early' \subseteq early \cup {m.of})
    <3>1. CASE m.is = "started" /\ W!StartedEvent(m.of)
      BY <3>1 DEF W!StartedEvent
    <3>2. CASE m.is = "exited" /\ W!ExitEvent(m.of)
      BY <3>2 DEF W!ExitEvent
    <3>3. CASE m.is \in {"sync", "resync"} /\ W!Settle(m.rec)
      BY <3>3 DEF W!Settle
    <3> QED  BY <1>2, <3>1, <3>2, <3>3 DEF W!Receive
  <2>4. m.is = "exited" => m.of \in W!Task /\ rec[m.of] = "ended"
    BY <1>0, <2>2, WireIs DEF PastOnly
  <2> HIDE DEF m
  <2>5. early' \subseteq W!Task /\ \A t \in early' : rec[t] = "ended"
    BY <1>0, <2>3, <2>4 DEF PastOnly
  <2> QED  BY <1>0, <2>1, <2>2, <2>5 DEF PastOk, PastOnly
<1>3. CASE \/ \E c \in Shell : W!Background(c)
           \/ \E m \in Mon : W!Register(m) \/ W!Timeout(m) \/ W!Cleanup(m)
           \/ \E t \in W!Task : W!TaskStop(t)
           \/ \E a \in W!Agent : W!AddChild(a) \/ W!AdmitChild(a) \/ W!SettleChild(a)
           \/ W!TaskList \/ W!ListTasks \/ W!TimePasses \/ W!Watchdog \/ UNCHANGED W!vars
  <2>1. UNCHANGED <<rec, workWire>> /\ early' \subseteq early
    BY <1>3, AsideChanges
  <2> QED  BY <1>0, <2>1 DEF PastOk, PastOnly
<1>4. CASE W!Drop \/ W!Restart
  <2>1. workWire' = << >> /\ rec' = rec /\ early' \subseteq early /\ DOMAIN << >> = {}
    BY <1>4 DEF W!Drop, W!Restart
  <2> QED  BY <1>0, <2>1 DEF PastOk, PastOnly
<1>5. CASE W!GiveUp \/ \E a \in W!ListAsk : W!RequestFails(a)
  <2>1. workWire' \in {workWire, << >>} /\ rec' = rec /\ early' \subseteq early /\ DOMAIN << >> = {}
    BY <1>5 DEF W!GiveUp, W!RequestFails
  <2> QED  BY <1>0, <2>1 DEF PastOk, PastOnly
<1> QED  BY <1>1, <1>2, <1>3, <1>4, <1>5 DEF W!Next

-----------------------------------------------------------------------------
(* What rows say. *)

ChildrenOk == child = [a \in W!Agent |-> child[a]]

RowsKnown == RowsOk(row, rec, awaited, child) /\ ChildrenOk

LEMMA RowsLeft ==
  ASSUME RowsOk(row, rec, awaited, child), NEW q, NEW aw,
         \A t \in W!Task : \/ Left(row, q, t) \/ rec[t] = "ended" \/ W!Live(q, t),
         \A c \in aw : W!Live(q, c),
         \A a \in W!Agent : Left(row, q, a)
  PROVE  RowsOk(q, rec, aw, child)
<1>1. ASSUME NEW t \in W!Task PROVE W!Live(q, t) \/ q[t].status = "none" \/ rec[t] = "ended"
  BY LeftIs DEF RowsOk
<1>2. ASSUME NEW a \in W!Agent, W!Live(q, a) \/ child[a].status \in W!Active
      PROVE  q[a].status = child[a].status
  <2>1. W!Live(q, a) <=> W!Live(row, a)
    BY LeftIs
  <2>2. row[a].status = child[a].status
    BY <1>2, <2>1 DEF RowsOk
  <2>3. W!Live(row, a)
    BY <1>2, <2>1, <2>2 DEF W!Live
  <2> QED  BY <2>2, <2>3, LeftIs
<1> QED  BY <1>1, <1>2 DEF RowsOk

LEMMA ReceiveRows ==
  ASSUME W!WorkListConstants, WorkInv, PastOk, RowsKnown, CallsOk, W!Receive
  PROVE  RowsKnown'
<1> DEFINE m == Head(workWire)
<1>1. /\ workWire \in Seq(WireSet) /\ workWire # << >> /\ rec' = rec /\ child' = child
             /\ IsRows(row)
      /\ RowsOk(row, rec, awaited, child) /\ PastOnly(workWire, early, rec)
      /\ awaited \subseteq Shell
  BY DEF WorkInv, WorkTypes, W!Receive, RowsKnown, PastOk, CallsOk
<1>2. m \in WireSet /\ m = workWire[1] /\ 1 \in DOMAIN workWire
  BY <1>1, WireShrinks
<1>3. /\ m.is \in {"started", "exited"} => m.of \in W!Task
      /\ m.is = "exited" => rec[m.of] = "ended"
      /\ m.is \in {"sync", "resync"} => \A t \in W!Task : m.rec[t] = "ended" => rec[t] = "ended"
  BY <1>1, <1>2, WireIs DEF PastOnly, W!ListAsk
<1>4. \/ m.is = "started" /\ W!StartedEvent(m.of)
      \/ m.is = "exited" /\ W!ExitEvent(m.of)
      \/ UNCHANGED <<row, awaited>>
      \/ m.is \in {"sync", "resync"} /\ W!Settle(m.rec)
  BY DEF W!Receive, W!shellVars
<1>5. ChildrenOk'
  BY <1>1 DEF RowsKnown, ChildrenOk
<1>6. \A i \in W!Agent : i \in W!Id /\ i \notin W!Task
  BY DEF W!WorkListConstants, W!Id
<1>7. \A t \in W!Task : t \in W!Id
  BY DEF W!Id
<1>8. \A c \in awaited : c \in W!Task /\ c \notin Mon
  BY <1>1 DEF W!Task, W!WorkListConstants
<1> HIDE DEF m
<1>9. CASE m.is = "started" /\ W!StartedEvent(m.of)
  <2>1. CASE UNCHANGED <<row, awaited>>
    BY <1>1, <1>5, <2>1 DEF RowsKnown
  <2>2. CASE row' \in W!Upsert(row, m.of, W!Now("running")) /\ awaited' = awaited
    <3>1. /\ \A j \in W!Id \ {m.of} : Left(row, row', j)
          /\ row'[m.of] = W!Now("running")
      BY <1>1, <1>3, <1>7, <1>9, <2>2, PutLeaves DEF W!Now, W!Active
    <3>2. W!Live(row', m.of)
      BY <3>1 DEF W!Live, W!Now, W!Active
    <3>3. \A c \in awaited : W!Live(row', c)
      BY <1>1, <1>7, <1>8, <3>1, <3>2, LeftIs DEF RowsOk
    <3>4. /\ \A t \in W!Task : Left(row, row', t) \/ W!Live(row', t)
          /\ \A a \in W!Agent : Left(row, row', a)
      BY <1>3, <1>6, <1>7, <1>9, <3>1, <3>2
    <3>5. RowsOk(row', rec, awaited, child)
      BY <1>1, <3>3, <3>4, RowsLeft
    <3> QED  BY <1>1, <1>5, <2>2, <3>5 DEF RowsKnown
  <2> QED  BY <1>9, <2>1, <2>2 DEF W!StartedEvent
<1>10. CASE m.is = "exited" /\ W!ExitEvent(m.of)
  <2>1. row' \in W!Patch(row, m.of) /\ awaited' = awaited \ {m.of}
    BY <1>10 DEF W!ExitEvent
  <2>2. \A j \in W!Id \ {m.of} : Left(row, row', j)
    BY <1>1, <1>3, <1>7, <1>10, <2>1, PatchLeaves
  <2>3. \A c \in awaited' : W!Live(row', c)
    BY <1>1, <1>7, <1>8, <2>1, <2>2, LeftIs DEF RowsOk
  <2>4. /\ \A t \in W!Task : Left(row, row', t) \/ rec[t] = "ended"
        /\ \A a \in W!Agent : Left(row, row', a)
    BY <1>3, <1>6, <1>7, <1>10, <2>2
  <2>5. RowsOk(row', rec, awaited', child)
    BY <1>1, <2>3, <2>4, RowsLeft
  <2> QED  BY <1>1, <1>5, <2>5 DEF RowsKnown
<1>11. CASE m.is \in {"sync", "resync"} /\ W!Settle(m.rec)
  <2>1. /\ row' \in W!Closings(row, W!Stale(row, m.rec)) /\ awaited' = awaited \ W!Stale(row, m.rec)
    BY <1>11 DEF W!Settle
  <2>2. W!Stale(row, m.rec) \in SUBSET W!Task /\ \A t \in W!Stale(row, m.rec) : rec[t] = "ended"
    BY <1>3, <1>11 DEF W!Stale
  <2>3. \A j \in W!Id \ W!Stale(row, m.rec) : Left(row, row', j)
    BY <1>1, <2>1, <2>2, ClosingLeaves
  <2>4. \A c \in awaited' : W!Live(row', c)
    BY <1>1, <1>7, <1>8, <2>1, <2>3, LeftIs DEF RowsOk
  <2>5. /\ \A t \in W!Task : Left(row, row', t) \/ rec[t] = "ended"
        /\ \A a \in W!Agent : Left(row, row', a)
    BY <1>6, <1>7, <2>2, <2>3
  <2>6. RowsOk(row', rec, awaited', child)
    BY <1>1, <2>4, <2>5, RowsLeft
  <2> QED  BY <1>1, <1>5, <2>6 DEF RowsKnown
<1>12. CASE UNCHANGED <<row, awaited>>
  BY <1>1, <1>5, <1>12 DEF RowsKnown
<1> QED  BY <1>4, <1>9, <1>10, <1>11, <1>12

LEMMA BackgroundRows ==
  ASSUME W!WorkListConstants, WorkInv, PastOk, RowsKnown, CallsOk, NEW c \in Shell, W!Background(c)
  PROVE  RowsKnown'
<1>1. /\ IsRows(row) /\ RowsOk(row, rec, awaited, child) /\ rec' = rec /\ child' = child
      /\ awaited \subseteq Shell
  BY DEF WorkInv, WorkTypes, RowsKnown, CallsOk, W!Background, W!managerVars
<1>2. /\ \A i \in W!Agent : i \in W!Id /\ i \notin W!Task
      /\ \A t \in W!Task : t \in W!Id
      /\ \A d \in Shell : d \in W!Task
  BY DEF W!WorkListConstants, W!Id, W!Task
<1>3. c \notin awaited /\ W!MarkNotifyOnExit(c)
  BY DEF W!Background, CallsOk
<1>4. \A j \in W!Id \ {c} : Left(row, row', j)
  <2>1. CASE c \in early
    BY <1>1, <1>2, <1>3, <2>1, PatchLeaves DEF W!MarkNotifyOnExit
  <2>2. CASE c \notin early
    BY <1>1, <1>2, <1>3, <2>2, PutLeaves DEF W!MarkNotifyOnExit
  <2> QED  BY <2>1, <2>2
<1>5. /\ rec[c] = "ended" \/ W!Live(row', c)
      /\ c \in awaited' => W!Live(row', c)
      /\ awaited' \subseteq awaited \cup {c}
  <2>1. CASE c \in early
    BY <1>3, <2>1 DEF PastOk, PastOnly, W!MarkNotifyOnExit
  <2>2. CASE c \notin early
    <3>1. row'[c] = W!Now("running")
      BY <1>1, <1>2, <1>3, <2>2, PutLeaves DEF W!MarkNotifyOnExit, W!Now, W!Active
    <3> QED  BY <1>3, <2>2, <3>1 DEF W!MarkNotifyOnExit, W!Live, W!Now, W!Active
  <2> QED  BY <2>1, <2>2
<1>6. \A d \in awaited' : W!Live(row', d)
  BY <1>1, <1>2, <1>4, <1>5, LeftIs DEF RowsOk
<1>7. /\ \A t \in W!Task : Left(row, row', t) \/ rec[t] = "ended" \/ W!Live(row', t)
      /\ \A a \in W!Agent : Left(row, row', a)
  BY <1>2, <1>4, <1>5
<1>8. RowsOk(row', rec, awaited', child)
  BY <1>1, <1>6, <1>7, RowsLeft
<1> QED  BY <1>1, <1>8 DEF RowsKnown, ChildrenOk

LEMMA RegisterRows ==
  ASSUME W!WorkListConstants, WorkInv, PastOk, RowsKnown, CallsOk, NEW m \in Mon, W!Register(m)
  PROVE  RowsKnown'
<1>1. /\ IsRows(row) /\ RowsOk(row, rec, awaited, child)
      /\ UNCHANGED <<rec, child, awaited>>
      /\ awaited \subseteq Shell
  BY DEF WorkInv, WorkTypes, RowsKnown, CallsOk, W!Register, W!managerVars, W!shellVars
<1>2. /\ \A i \in W!Agent : i \in W!Id /\ i \notin W!Task
      /\ \A t \in W!Task : t \in W!Id
      /\ \A d \in Shell : d \in W!Task /\ d # m
      /\ m \in W!Task
  BY DEF W!WorkListConstants, W!Id, W!Task
<1> DEFINE shown == IF row[m].status = "ended" THEN {row} ELSE W!Upsert(row, m, W!Now("running"))
<1>3. row' \in IF m \in early THEN UNION {W!Patch(r, m) : r \in shown} ELSE shown
  BY DEF W!Register
<1>4. ASSUME NEW r \in shown
      PROVE  /\ IsRows(r) /\ \A j \in W!Id \ {m} : Left(row, r, j)
             /\ Left(row, r, m) \/ W!Live(r, m)
  <2>1. CASE row[m].status = "ended"
    BY <1>1, <2>1 DEF Left
  <2>2. CASE row[m].status # "ended"
    <3>1. r \in W!Upsert(row, m, W!Now("running"))
      BY <2>2
    <3> HIDE DEF shown
    <3>2. /\ IsRows(r) /\ \A j \in W!Id \ {m} : Left(row, r, j)
          /\ r[m] = W!Now("running")
      BY <1>1, <1>2, <3>1, PutLeaves, PutKills DEF W!Now, W!Active
    <3> QED  BY <3>2 DEF W!Live, W!Now, W!Active
  <2> QED  BY <2>1, <2>2
<1> HIDE DEF shown
<1>5. /\ \A j \in W!Id \ {m} : Left(row, row', j)
      /\ Left(row, row', m) \/ W!Live(row', m) \/ rec[m] = "ended"
  <2>1. CASE m \in early
    <3>1. PICK r \in shown : row' \in W!Patch(r, m)
      BY <1>3, <2>1
    <3>2. \A j \in W!Id \ {m} : Left(r, row', j) /\ Left(row, r, j)
      BY <1>2, <1>4, <3>1, PatchLeaves
    <3>3. rec[m] = "ended"
      BY <2>1 DEF PastOk, PastOnly
    <3> QED  BY <3>2, <3>3, LeftOver
  <2>2. CASE m \notin early
    BY <1>3, <1>4, <2>2
  <2> QED  BY <2>1, <2>2
<1>6. \A d \in awaited : W!Live(row', d)
  BY <1>1, <1>2, <1>5, LeftIs DEF RowsOk
<1>7. /\ \A t \in W!Task : Left(row, row', t) \/ rec[t] = "ended" \/ W!Live(row', t)
      /\ \A a \in W!Agent : Left(row, row', a)
  BY <1>2, <1>5
<1>8. RowsOk(row', rec, awaited, child)
  BY <1>1, <1>6, <1>7, RowsLeft
<1> QED  BY <1>1, <1>8 DEF RowsKnown, ChildrenOk

LEMMA TransitionRows ==
  ASSUME W!WorkListConstants, WorkInv, RowsKnown, CallsOk,
         NEW a \in W!Agent, W!AddChild(a) \/ W!AdmitChild(a) \/ W!SettleChild(a)
  PROVE  RowsKnown'
<1>1. /\ IsRows(row) /\ RowsOk(row, rec, awaited, child) /\ awaited \subseteq Shell
      /\ child = [b \in W!Agent |-> child[b]]
  BY DEF WorkInv, WorkTypes, RowsKnown, CallsOk, ChildrenOk
<1>2. \A d \in Shell : d \in W!Task
  BY DEF W!Task
<1>3. PICK to \in W!Active \cup W!Terminal :
        /\ W!Emit([child EXCEPT ![a] = W!Now(to)]) /\ UNCHANGED <<rec, awaited>>
  BY DEF W!AddChild, W!AdmitChild, W!SettleChild, W!Transition, W!managerVars, W!shellVars,
     W!Active, W!Terminal
<1> DEFINE next == [child EXCEPT ![a] = W!Now(to)]
<1>4. child' = next /\ row' \in W!PutAll(next)
  BY <1>3 DEF W!Emit
<1>5. /\ next = [b \in W!Agent |-> next[b]]
      /\ \A b \in W!Agent : next[b] = (IF b = a THEN W!Now(to) ELSE child[b])
  BY <1>1
<1>6. W!Now(to).status \notin {"new", "gone"}
  BY DEF W!Now, W!Active, W!Terminal
<1> HIDE DEF next
<1>7. Put(row', next, Len(Children))
  BY <1>1, <1>4, PutAllLeaves
<1>8. \A b \in W!Agent : \E k \in 1..Len(Children) : Children[k] = b
  BY DEF W!WorkListConstants, W!Agent, W!Range
<1>9. \A t \in W!Task : Left(row, row', t)
  BY <1>7 DEF Put
<1>10. ASSUME NEW b \in W!Agent, W!Live(row', b) \/ next[b].status \in W!Active
       PROVE  row'[b].status = next[b].status
  <2>1. CASE next[b].status \in {"new", "gone"}
    <3>1. Left(row, row', b)
      BY <1>7, <2>1 DEF Put
    <3>2. b # a /\ next[b] = child[b]
      BY <1>5, <1>6, <2>1
    <3>3. next[b].status \notin W!Active
      BY <2>1 DEF W!Active
    <3>4. W!Live(row, b) /\ row[b].status = child[b].status
      BY <1>1, <1>10, <3>1, <3>3, LeftIs DEF RowsOk
    <3> QED  BY <3>2, <3>3, <3>4 DEF W!Live
  <2>2. CASE next[b].status \notin {"new", "gone"}
    <3>1. Says(row', next, b)
      BY <1>7, <1>8, <2>2 DEF Put
    <3> QED  BY <1>10, <3>1 DEF Says
  <2> QED  BY <2>1, <2>2
<1>11. \A t \in W!Task : W!Live(row', t) \/ row'[t].status = "none" \/ rec[t] = "ended"
  BY <1>1, <1>9, LeftIs DEF RowsOk
<1>12. \A c \in awaited : W!Live(row', c)
  BY <1>1, <1>2, <1>9, LeftIs DEF RowsOk
<1> QED  BY <1>3, <1>4, <1>5, <1>10, <1>11, <1>12 DEF RowsKnown, RowsOk, ChildrenOk

LEMMA TimeRows ==
  ASSUME WorkInv, RowsKnown, W!TimePasses, CallsOk
  PROVE  /\ RowsKnown'
         /\ \A i \in W!Id : row'[i].status = row[i].status
<1> DEFINE Older(items) == [i \in DOMAIN items |->
             IF items[i].status \in W!Terminal \cup {"ended"} /\ items[i].age <= Retain
             THEN [status |-> items[i].status, age |-> items[i].age + 1] ELSE items[i]]
<1>1. row' = Older(row) /\ child' = Older(child) /\ UNCHANGED <<rec, awaited>>
  BY DEF W!TimePasses, W!managerVars, W!shellVars
<1>2. DOMAIN row = W!Id /\ DOMAIN child = W!Agent /\ awaited \subseteq Shell
  BY DEF WorkInv, WorkTypes, IsRows, RowsKnown, ChildrenOk, CallsOk
<1>3. /\ \A i \in W!Id : row'[i].status = row[i].status
      /\ \A a \in W!Agent : child'[a].status = child[a].status
      /\ child' = [a \in W!Agent |-> child'[a]]
  BY <1>1, <1>2
<1>4. (\A t \in W!Task : t \in W!Id) /\ (\A a \in W!Agent : a \in W!Id)
    /\ (\A c \in Shell : c \in W!Id)
  BY DEF W!Id, W!Task
<1> HIDE DEF Older
<1>5. RowsOk(row', rec, awaited, child')
  BY <1>2, <1>3, <1>4 DEF RowsKnown, RowsOk, W!Live
<1> QED  BY <1>1, <1>3, <1>5 DEF RowsKnown, ChildrenOk

LEMMA RowsKept ==
  ASSUME W!WorkListConstants, WorkInv, PastOk, RowsKnown, CallsOk, [W!Next]_(W!vars)
  PROVE  RowsKnown'
<1>0. RowsOk(row, rec, awaited, child) /\ ChildrenOk
  BY DEF RowsKnown
<1>1. CASE \/ \E t \in W!Task : W!Start(t) \/ W!TaskEnds(t)
           \/ \E c \in Shell : W!AnswerWait(c)
           \/ \E a \in W!ListAsk : W!AnswerList(a)
  <2>1. /\ UNCHANGED <<row, awaited, child>>
        /\ \E m \in WireSet : ManagerAdds(m)
    BY <1>1, ManagerTells
  <2>2. \A t \in W!Task : rec[t] = "ended" => rec'[t] = "ended"
    BY <2>1, TellsPast
  <2> QED  BY <1>0, <2>1, <2>2 DEF RowsKnown, RowsOk, ChildrenOk
<1>2. CASE W!Receive
  BY <1>2, ReceiveRows
<1>3. CASE \/ \E c \in Shell : W!Background(c)
           \/ \E m \in Mon : W!Register(m)
  BY <1>3, BackgroundRows, RegisterRows
<1>4. CASE \E a \in W!Agent : W!AddChild(a) \/ W!AdmitChild(a) \/ W!SettleChild(a)
  BY <1>4, TransitionRows
<1>5. CASE W!TimePasses
  BY <1>5, TimeRows
<1>6. CASE W!ListTasks
  <2>1. UNCHANGED <<rec, awaited, child>> /\ row' \in W!Prunings(row)
    BY <1>6 DEF W!ListTasks, W!Listed, W!managerVars, W!shellVars
  <2>2. \A j \in W!Id : Left(row, row', j)
    BY <2>1, PruningLeaves
  <2>3. awaited \subseteq W!Id /\ W!Task \subseteq W!Id /\ W!Agent \subseteq W!Id
    BY DEF CallsOk, W!Id, W!Task
  <2>4. \A c \in awaited : W!Live(row', c)
    BY <1>0, <2>2, <2>3, LeftIs DEF RowsOk
  <2>5. RowsOk(row', rec, awaited, child)
    BY <1>0, <2>2, <2>3, <2>4, RowsLeft
  <2> QED  BY <1>0, <2>1, <2>5 DEF RowsKnown, ChildrenOk
<1>7. CASE \/ \E m \in Mon : W!Timeout(m) \/ W!Cleanup(m)
           \/ \E t \in W!Task : W!TaskStop(t)
           \/ \E a \in W!ListAsk : W!RequestFails(a)
           \/ W!TaskList \/ W!Drop \/ W!Watchdog \/ UNCHANGED W!vars
  <2>1. UNCHANGED <<rec, row, awaited, child>>
    BY <1>7
       DEF W!Timeout, W!Cleanup, W!TaskStop, W!TaskList, W!Drop, W!Watchdog, W!RequestFails,
           W!vars, W!shellVars, W!managerVars
  <2> QED  BY <1>0, <2>1 DEF RowsKnown, ChildrenOk
<1>8. CASE W!Restart
  <2>1. /\ rec' = rec /\ awaited' = {} /\ row' = [i \in W!Id |-> W!NoRow]
        /\ child' = [a \in W!Agent |-> IF child[a].status = "new" THEN child[a]
                                       ELSE [status |-> "gone", age |-> 0]]
    BY <1>8 DEF W!Restart
  <2>2. \A i \in W!Id : row'[i].status = "none" /\ ~W!Live(row', i)
    BY <2>1 DEF W!NoRow, W!Live, W!Active
  <2>3. \A a \in W!Agent : child'[a].status \notin W!Active
    BY <2>1 DEF W!Active
  <2>4. child' = [a \in W!Agent |-> child'[a]]
    BY <2>1
  <2> QED  BY <2>1, <2>2, <2>3, <2>4 DEF RowsKnown, RowsOk, ChildrenOk, W!Id
<1>9. CASE W!GiveUp
  <2>1. PICK cut \in SUBSET {c \in Shell : bash[c] = "open"} :
          /\ awaited' = awaited \cup (cut \ early)
          /\ \A c \in cut \ early : W!Live(row', c)
          /\ \A j \in W!Id \ (cut \ early) : Left(row, row', j)
          /\ UNCHANGED <<rec, child>>
    BY <1>9, GiveUpIs
  <2>2. /\ \A t \in W!Task : t \in W!Id /\ t \notin W!Agent
        /\ \A a \in W!Agent : a \in W!Id
        /\ \A c \in Shell : c \in W!Task
        /\ awaited \subseteq Shell
    BY DEF W!WorkListConstants, W!Id, W!Task, CallsOk
  <2>3. \A c \in awaited' : W!Live(row', c)
    BY <1>0, <2>1, <2>2, LeftIs DEF RowsOk
  <2>4. /\ \A t \in W!Task : Left(row, row', t) \/ W!Live(row', t)
        /\ \A a \in W!Agent : Left(row, row', a)
    BY <2>1, <2>2
  <2>5. RowsOk(row', rec, awaited', child)
    BY <1>0, <2>3, <2>4, RowsLeft
  <2> QED  BY <1>0, <2>1, <2>5 DEF RowsKnown, ChildrenOk
<1> QED  BY <1>1, <1>2, <1>3, <1>4, <1>5, <1>6, <1>7, <1>8, <1>9 DEF W!Next

-----------------------------------------------------------------------------
(* The sync and the list of task_list. *)

ListT == [step : {"idle", "syncing", "listing", "answered"},
          since : SUBSET W!Id, over : SUBSET W!Task,
          tasks : {<< >>} \cup [W!Task -> {"none", "running", "ended"}]]

ListsOk ==
  /\ listing \in ListT
  /\ ListingOk(workWire, workAsks, listing, rec)
  /\ OverOk(workWire, listing, rec, row)

LEMMA ListingIs ==
  ASSUME listing \in ListT
  PROVE  /\ listing = [step |-> listing.step, since |-> listing.since, over |-> listing.over,
                       tasks |-> listing.tasks]
         /\ listing.step \in {"idle", "syncing", "listing", "answered"}
         /\ listing.since \in SUBSET W!Id /\ listing.over \in SUBSET W!Task
         /\ listing.tasks \in {<< >>} \cup [W!Task -> {"none", "running", "ended"}]
BY DEF ListT

(* The manager adds a message that is not a list. *)
LEMMA OtherTells ==
  ASSUME WorkInv, PastOk, ListsOk, NEW m \in WireSet, workWire' = Append(workWire, m),
         m.is \notin W!ListAsk,
         \A t \in W!Task : rec[t] = "ended" => rec'[t] = "ended",
         \A t \in W!Task : rec[t] # "none" => rec'[t] # "none",
         \A t \in W!Task : m = W!Message("exited", t) => rec[t] # "ended",
         UNCHANGED <<workAsks, listing, row>>
  PROVE  ListsOk'
<1>1. workWire \in Seq(WireSet) /\ PastOnly(workWire, early, rec)
  BY DEF WorkInv, WorkTypes, PastOk
<1>2. /\ \A a \in {"sync", "list"} : At(workWire', a) = At(workWire, a)
      /\ \A a \in {"sync", "list"} : \A k \in At(workWire, a) : workWire'[k] = workWire[k]
             /\ k \in DOMAIN workWire
      /\ \A t, k : k \in DOMAIN workWire /\ ExitAfter(workWire', k, t)
                   => ExitAfter(workWire, k, t) \/ m = W!Message("exited", t)
      /\ \A t : ExitSaid(workWire', t) => ExitSaid(workWire, t) \/ m = W!Message("exited", t)
  <2>1. \A a : \A k \in At(workWire, a) : k \in DOMAIN workWire
    BY DEF At
  <2>2. m.is \notin {"sync", "list"}
    BY DEF W!ListAsk
  <2> DEFINE n == Len(workWire) + 1
             v == Append(workWire, m)
  <2>3. /\ \A a, k : k \in At(v, a) <=> k \in At(workWire, a) \/ (k = n /\ m.is = a)
        /\ \A a, k : k \in At(workWire, a) => v[k] = workWire[k] /\ k # n
        /\ \A t, k : k \in DOMAIN workWire /\ ExitAfter(v, k, t)
                     => ExitAfter(workWire, k, t) \/ m = W!Message("exited", t)
        /\ \A t : ExitSaid(v, t) => ExitSaid(workWire, t) \/ m = W!Message("exited", t)
    BY <1>1, HoldsMore
  <2>4. workWire' = v
    OBVIOUS
  <2> HIDE DEF n, v
  <2>5. ASSUME NEW a \in {"sync", "list"} PROVE At(v, a) = At(workWire, a)
    <3>1. \A k : k \in At(v, a) <=> k \in At(workWire, a)
      BY <2>2, <2>3
    <3> HIDE <2>3
    <3>2. At(v, a) \subseteq DOMAIN v /\ At(workWire, a) \subseteq DOMAIN workWire
      BY DEF At
    <3> QED  BY <3>1
  <2> QED  BY <2>1, <2>3, <2>4, <2>5
<1>3. ListingOk(workWire', workAsks', listing', rec')
  BY <1>2 DEF ListsOk, ListingOk, OnePlace, Expects, Knows
<1>4. ASSUME NEW k \in At(workWire, "sync"), NEW t \in W!Task
      PROVE  t \in listing.over => ~ExitAfter(workWire', k, t)
  <2>1. workWire[k].is \in W!ListAsk /\ k \in DOMAIN workWire
    BY <1>4 DEF At, W!ListAsk
  <2>2. t \in listing.over => rec[t] = "ended"
    BY <1>1, <2>1 DEF ListsOk, OverOk, PastOnly
  <2> QED  BY <1>2, <2>1, <2>2 DEF ListsOk, OverOk
<1>5. OverOk(workWire', listing', rec', row')
  BY <1>2, <1>4 DEF ListsOk, OverOk
<1> QED  BY <1>3, <1>5 DEF ListsOk

LEMMA ListTells ==
  ASSUME WorkInv, ListsOk, NEW a \in W!ListAsk, a \in workAsks, workAsks' = workAsks \ {a},
         workWire' = Append(workWire, [is |-> a, rec |-> rec]), UNCHANGED <<rec, row>>,
         listing' = IF a = "sync" THEN [listing EXCEPT !.over = {t \in W!Task : rec[t] = "ended"}]
                    ELSE listing
  PROVE  ListsOk'
<1> DEFINE m == [is |-> a, rec |-> rec]
           n == Len(workWire) + 1
<1>1. workWire \in Seq(WireSet) /\ m \in WireSet /\ m.is = a /\ m.rec = rec
  BY DEF WorkInv, WorkTypes, WireSet
<1>2. workWire' = Append(workWire, m)
  OBVIOUS
<1> HIDE DEF m
<1>3. \A t : m # W!Message("exited", t)
  BY <1>1, MessageIs DEF W!ListAsk
<1> DEFINE v == Append(workWire, m)
<1>41. /\ \A b, k : k \in At(v, b) <=> k \in At(workWire, b) \/ (k = n /\ m.is = b)
       /\ \A b, k : k \in At(workWire, b) => v[k] = workWire[k] /\ k # n
       /\ v[n] = m
       /\ \A t, k : k \in DOMAIN workWire /\ ExitAfter(v, k, t)
                    => ExitAfter(workWire, k, t) \/ m = W!Message("exited", t)
       /\ \A t : ~ExitAfter(v, n, t)
       /\ \A t : ExitSaid(v, t) => ExitSaid(workWire, t) \/ m = W!Message("exited", t)
  BY <1>1, HoldsMore
<1>42. workWire' = v
  BY <1>2
<1> HIDE DEF v
<1>4. /\ \A b, k : k \in At(workWire', b) <=> k \in At(workWire, b) \/ (k = n /\ a = b)
      /\ \A b, k : k \in At(workWire, b) => workWire'[k] = workWire[k] /\ k # n
      /\ workWire'[n] = m
      /\ \A t, k : k \in DOMAIN workWire /\ ExitAfter(workWire', k, t) => ExitAfter(workWire, k, t)
      /\ \A t : ~ExitAfter(workWire', n, t)
      /\ \A t : ExitSaid(workWire', t) => ExitSaid(workWire, t)
  BY <1>1, <1>3, <1>41, <1>42
<1> HIDE DEF n
<1>5. \A b : \A k \in At(workWire, b) : k \in DOMAIN workWire
  BY DEF At
<1>6. /\ listing'.step = listing.step /\ listing'.since = listing.since
      /\ listing'.tasks = listing.tasks
      /\ listing'.over = IF a = "sync" THEN {t \in W!Task : rec[t] = "ended"} ELSE listing.over
      /\ listing' \in ListT
  BY DEF ListsOk, ListT
<1>7. /\ OnePlace(workWire, workAsks, "sync") /\ OnePlace(workWire, workAsks, "list")
             /\ Expects(workWire, workAsks, listing)
  BY DEF ListsOk, ListingOk
<1>8. OnePlace(workWire', workAsks', "sync") /\ OnePlace(workWire', workAsks', "list")
  BY <1>4, <1>7 DEF OnePlace
<1>9. Expects(workWire', workAsks', listing')
  BY <1>4, <1>6, <1>7 DEF Expects
<1>10. CASE a = "sync"
  <2>1. listing.step = "syncing" /\ At(workWire, "sync") = {} /\ At(workWire, "list") = {}
    BY <1>7, <1>10 DEF Expects, OnePlace
  <2>2. At(workWire', "list") = {} /\ At(workWire', "sync") = {n}
    BY <1>4, <1>10, <2>1
  <2>3. ListingOk(workWire', workAsks', listing', rec')
    BY <1>6, <1>8, <1>9, <2>1, <2>2 DEF ListingOk, ListsOk
  <2>4. ASSUME NEW k \in At(workWire', "sync"), NEW t \in W!Task
        PROVE  /\ t \in listing'.over <=> workWire'[k].rec[t] = "ended"
               /\ ~ExitAfter(workWire', k, t)
    <3>1. k = n /\ workWire'[k].rec = rec
      BY <1>1, <1>4, <2>2
    <3>2. listing'.over = {u \in W!Task : rec[u] = "ended"}
      BY <1>6, <1>10
    <3> QED  BY <1>4, <3>1, <3>2
  <2>5. listing'.step = "syncing"
    BY <1>6, <2>1
  <2>6. OverOk(workWire', listing', rec', row')
    BY <2>4, <2>5 DEF OverOk
  <2> QED  BY <1>6, <2>3, <2>6 DEF ListsOk
<1>11. CASE a # "sync"
  <2>1. listing' = listing
    BY <1>11
  <2>2. At(workWire', "sync") = At(workWire, "sync")
    BY <1>4, <1>11
  <2>3. ASSUME NEW k \in At(workWire', "list") PROVE Knows(workWire'[k].rec, rec', listing')
    <3>1. CASE k \in At(workWire, "list")
      <4>1. Knows(workWire[k].rec, rec, listing)
        BY <3>1 DEF ListsOk, ListingOk
      <4>2. workWire'[k] = workWire[k] /\ rec' = rec
        BY <1>4, <3>1
      <4> QED  BY <2>1, <4>1, <4>2
    <3>2. CASE k = n /\ a = "list"
      <4>1. listing.step = "listing"
        BY <1>7, <3>2 DEF Expects
      <4>2. /\ \A t \in listing.since \cap W!Task : rec[t] # "none"
            /\ \A t \in listing.over \cap W!Task : rec[t] = "ended"
        BY <4>1 DEF ListsOk, ListingOk, OverOk
      <4> QED  BY <1>1, <1>4, <2>1, <3>2, <4>2 DEF Knows
    <3> QED  BY <1>4, <2>3, <3>1, <3>2
  <2>4. ListingOk(workWire', workAsks', listing', rec')
    BY <1>8, <1>9, <2>1, <2>3 DEF ListingOk, ListsOk
  <2>5. OverOk(workWire', listing', rec', row')
    BY <1>4, <1>5, <2>1, <2>2 DEF OverOk, ListsOk
  <2> QED  BY <1>6, <2>4, <2>5 DEF ListsOk
<1> QED  BY <1>10, <1>11

LEMMA TellsLists ==
  ASSUME WorkInv, PastOk, ListsOk, NEW m \in WireSet, workWire' = Append(workWire, m),
         ManagerAdds(m),
         row' = row
  PROVE  ListsOk'
<1>1. /\ \A t \in W!Task : rec[t] = "ended" => rec'[t] = "ended"
      /\ \A t \in W!Task : rec[t] # "none" => rec'[t] # "none"
  BY TellsPast
<1>2. CASE \E t \in W!Task : m = W!Message("started", t) /\ UNCHANGED <<workAsks, listing>>
  BY <1>1, <1>2, MessageIs, OtherTells DEF W!ListAsk
<1>3. CASE \E t \in W!Task : rec[t] = "running" /\ m = W!Message("exited", t)
    /\ UNCHANGED <<workAsks, listing>>
  BY <1>1, <1>3, MessageIs, OtherTells DEF W!ListAsk
<1>4. CASE \E c \in Shell : /\ m \in {W!Message("budget", c), W!Message("done", c)}
                            /\ UNCHANGED <<rec, workAsks, listing>>
  BY <1>1, <1>4, MessageIs, OtherTells DEF W!ListAsk
<1>5. CASE \E a \in W!ListAsk :
             /\ a \in workAsks /\ workAsks' = workAsks \ {a} /\ m = [is |-> a, rec |-> rec]
                    /\ rec' = rec
             /\ listing' = IF a = "sync"
                           THEN [listing EXCEPT !.over = {t \in W!Task : rec[t] = "ended"}]
                           ELSE listing
  BY <1>5, ListTells
<1> QED  BY <1>2, <1>3, <1>4, <1>5 DEF ManagerAdds

LEMMA ReceiveLists ==
  ASSUME W!WorkListConstants, WorkInv, PastOk, ListsOk, W!Receive
  PROVE  ListsOk'
<1> DEFINE m == Head(workWire)
<1>1. /\ workWire \in Seq(WireSet) /\ workWire # << >> /\ workWire' = Tail(workWire) /\ rec' = rec
      /\ IsRows(row) /\ PastOnly(workWire, early, rec) /\ ToldBefore(workWire, rec)
  BY DEF WorkInv, WorkTypes, W!Receive, PastOk
<1>2. m \in WireSet /\ m = workWire[1] /\ 1 \in DOMAIN workWire
  BY <1>1, WireShrinks
<1>3. /\ \A k \in DOMAIN workWire' : workWire'[k] = workWire[k + 1] /\ k + 1 # 1 /\ k \in Nat
      /\ \A a : \A k \in At(workWire', a) : k \in DOMAIN workWire' /\ k + 1 \in At(workWire, a)
      /\ \A a : m.is = a => 1 \in At(workWire, a)
      /\ \A t : \A k \in DOMAIN workWire' : ExitAfter(workWire', k, t)
             => ExitAfter(workWire, k + 1, t)
      /\ \A t : ExitSaid(workWire', t) => ExitAfter(workWire, 1, t) /\ ExitSaid(workWire, t)
  BY <1>1, HoldsLess
<1>4. /\ OnePlace(workWire, workAsks, "sync") /\ OnePlace(workWire, workAsks, "list")
             /\ Expects(workWire, workAsks, listing)
      /\ \A t \in listing.since \cap W!Task : rec[t] # "none"
      /\ \A k \in At(workWire, "list") : Knows(workWire[k].rec, rec, listing)
      /\ listing.step = "answered" =>
           listing.tasks \in [W!Task -> {"none", "running", "ended"}]
               /\ Knows(listing.tasks, rec, listing)
      /\ listing \in ListT
      /\ OverOk(workWire, listing, rec, row)
  BY DEF ListsOk, ListingOk
<1>5. \/ m.is = "started" /\ W!StartedEvent(m.of) /\ UNCHANGED <<workAsks, listing>>
      \/ m.is = "exited" /\ W!ExitEvent(m.of) /\ UNCHANGED <<workAsks, listing>>
      \/ m.is \in {"budget", "done"} /\ UNCHANGED <<workAsks, listing, row>>
      \/ m.is = "resync" /\ W!Settle(m.rec) /\ UNCHANGED <<workAsks, listing>>
      \/ /\ m.is = "sync" /\ W!Settle(m.rec)
         /\ listing' = [listing EXCEPT !.step = "listing"] /\ workAsks' = workAsks \cup {"list"}
      \/ /\ m.is = "list" /\ UNCHANGED <<workAsks, row>>
         /\ listing' = [listing EXCEPT !.step = "answered", !.tasks = m.rec]
  BY DEF W!Receive, W!StartedEvent, W!ExitEvent
<1> HIDE DEF m
<1>6. \A a : /\ At(workWire', a) # {} => At(workWire, a) # {}
             /\ OnePlace(workWire, workAsks, a) => OnePlace(workWire', workAsks, a)
             /\ OnePlace(workWire, workAsks, a) /\ m.is = a
                    => At(workWire', a) = {} /\ a \notin workAsks
  <2> SUFFICES ASSUME NEW a
               PROVE  /\ At(workWire', a) # {} => At(workWire, a) # {}
                      /\ OnePlace(workWire, workAsks, a) => OnePlace(workWire', workAsks, a)
                      /\ OnePlace(workWire, workAsks, a) /\ m.is = a
                             => At(workWire', a) = {} /\ a \notin workAsks
    OBVIOUS
  <2>1. \A k \in At(workWire', a) : k \in Nat /\ k + 1 \in At(workWire, a) /\ k + 1 # 1
    BY <1>3
  <2>2. m.is = a => 1 \in At(workWire, a)
    BY <1>3
  <2> QED  BY <2>1, <2>2 DEF OnePlace
<1>7. \A k \in At(workWire', "list") : Knows(workWire'[k].rec, rec, listing)
  BY <1>3, <1>4
<1>8. \A k \in At(workWire', "sync") : \A t \in W!Task :
        /\ t \in listing.over <=> workWire'[k].rec[t] = "ended"
        /\ t \in listing.over => ~ExitAfter(workWire', k, t)
  BY <1>3, <1>4 DEF OverOk
\* what is left to show where the call goes on as it was
<1>9. ASSUME UNCHANGED <<workAsks, listing>>,
             listing.step \in {"listing", "answered"} =>
               \A t \in listing.over \cap W!Task : W!Live(row', t) => W!Live(row, t)
      PROVE  ListsOk'
  <2>1. OnePlace(workWire', workAsks, "sync") /\ OnePlace(workWire', workAsks, "list")
      /\ Expects(workWire', workAsks, listing)
    BY <1>4, <1>6 DEF Expects
  <2>2. ListingOk(workWire', workAsks', listing', rec')
    BY <1>1, <1>4, <1>7, <1>9, <2>1 DEF ListingOk
  <2>3. OverOk(workWire', listing', rec', row')
    BY <1>1, <1>3, <1>4, <1>8, <1>9 DEF OverOk
  <2> QED  BY <1>4, <1>9, <2>2, <2>3 DEF ListsOk
<1>10. CASE m.is = "started" /\ W!StartedEvent(m.of) /\ UNCHANGED <<workAsks, listing>>
  <2>1. row' = row \/ row' \in W!Upsert(row, m.of, W!Now("running"))
    BY <1>10 DEF W!StartedEvent
  <2>2. m.of \in W!Task /\ m.of \in W!Id
    BY <1>2, <1>10, WireIs DEF W!Id
  <2>3. \A t \in W!Task : W!Live(row', t) => W!Live(row, t) \/ t = m.of
    BY <1>1, <2>1, <2>2, PutKills DEF W!Id
  <2>4. rec[m.of] = "ended" => ExitAfter(workWire, 1, m.of)
    BY <1>1, <1>2, <1>10 DEF ToldBefore
  <2>5. rec[m.of] = "ended" => ExitSaid(workWire, m.of)
    BY <2>4 DEF ExitAfter, ExitSaid
  <2>6. listing.step \in {"listing", "answered"} => m.of \notin listing.over
    BY <1>4, <2>2, <2>5 DEF OverOk
  <2> QED  BY <1>9, <1>10, <2>3, <2>6
<1>11. CASE m.is = "exited" /\ W!ExitEvent(m.of) /\ UNCHANGED <<workAsks, listing>>
  <2>1. row' \in W!Patch(row, m.of)
    BY <1>11 DEF W!ExitEvent
  <2>2. m.of \in W!Id
    BY <1>2, <1>11, WireIs DEF W!Id
  <2>3. \A t \in W!Task : W!Live(row', t) => W!Live(row, t)
    BY <1>1, <2>1, <2>2, PatchKills DEF NoneNew, W!Id
  <2> QED  BY <1>9, <1>11, <2>3
<1>12. CASE UNCHANGED <<workAsks, listing, row>>
  BY <1>9, <1>12
<1> DEFINE stale == W!Stale(row, m.rec)
<1>13. W!Settle(m.rec) =>
         /\ \A t \in W!Task : W!Live(row', t) => W!Live(row, t)
         /\ \A t \in W!Task : m.rec[t] = "ended" => ~W!Live(row', t)
  <2> SUFFICES ASSUME W!Settle(m.rec)
               PROVE  /\ \A t \in W!Task : W!Live(row', t) => W!Live(row, t)
                      /\ \A t \in W!Task : m.rec[t] = "ended" => ~W!Live(row', t)
    OBVIOUS
  <2>1. row' \in W!Closings(row, stale)
    BY DEF W!Settle
  <2>2. /\ stale \in SUBSET W!Task
        /\ \A t \in W!Task : m.rec[t] = "ended" /\ W!Live(row, t) => t \in stale
    BY DEF W!Stale
  <2> HIDE DEF stale
  <2>3. NoneNew(row, row') /\ \A t \in stale : ~W!Live(row', t)
    BY <1>1, <2>1, <2>2, ClosingKills
  <2> QED  BY <2>2, <2>3 DEF NoneNew, W!Id
<1>14. CASE m.is = "resync" /\ W!Settle(m.rec) /\ UNCHANGED <<workAsks, listing>>
  BY <1>9, <1>13, <1>14
<1>15. CASE /\ m.is = "sync" /\ W!Settle(m.rec)
            /\ listing' = [listing EXCEPT !.step = "listing"] /\ workAsks' = workAsks \cup {"list"}
  <2>1. /\ listing'.step = "listing" /\ listing'.since = listing.since
        /\ listing'.over = listing.over /\ listing' \in ListT
    BY <1>4, <1>15 DEF ListT
  <2>2. 1 \in At(workWire, "sync") /\ listing.step = "syncing"
    BY <1>3, <1>4, <1>15 DEF Expects
  <2>3. /\ At(workWire', "sync") = {} /\ "sync" \notin workAsks'
        /\ At(workWire', "list") = {} /\ "list" \notin workAsks
    BY <1>4, <1>6, <1>15, <2>2 DEF Expects
  <2>4. ListingOk(workWire', workAsks', listing', rec')
    BY <1>1, <1>4, <2>1, <2>3 DEF ListingOk, OnePlace, Expects
  <2>5. ASSUME NEW t \in W!Task, t \in listing.over
        PROVE  rec[t] = "ended" /\ ~W!Live(row', t) /\ ~ExitSaid(workWire', t)
    <3>1. m.rec[t] = "ended" /\ ~ExitAfter(workWire, 1, t)
      BY <1>2, <1>4, <2>2, <2>5 DEF OverOk
    <3>2. rec[t] = "ended"
      BY <1>1, <1>2, <1>15, <3>1 DEF PastOnly, W!ListAsk
    <3> QED  BY <1>3, <1>13, <1>15, <3>1, <3>2
  <2>6. OverOk(workWire', listing', rec', row')
    BY <1>1, <2>1, <2>3, <2>5 DEF OverOk
  <2> QED  BY <2>1, <2>4, <2>6 DEF ListsOk
<1>16. CASE /\ m.is = "list" /\ UNCHANGED <<workAsks, row>>
            /\ listing' = [listing EXCEPT !.step = "answered", !.tasks = m.rec]
  <2>1. m.rec \in [W!Task -> {"none", "running", "ended"}]
    BY <1>2, <1>16, WireIs DEF W!ListAsk
  <2>2. /\ listing'.step = "answered" /\ listing'.since = listing.since
        /\ listing'.over = listing.over /\ listing'.tasks = m.rec /\ listing' \in ListT
    BY <1>4, <1>16, <2>1 DEF ListT
  <2>3. 1 \in At(workWire, "list") /\ listing.step = "listing"
    BY <1>3, <1>4, <1>16 DEF Expects
  <2>4. /\ At(workWire', "list") = {} /\ "list" \notin workAsks
        /\ At(workWire', "sync") = {} /\ "sync" \notin workAsks
    BY <1>4, <1>6, <1>16, <2>3 DEF Expects
  <2>5. Knows(m.rec, rec, listing')
    BY <1>2, <1>4, <2>2, <2>3 DEF Knows
  <2>6. ListingOk(workWire', workAsks', listing', rec')
    BY <1>1, <1>4, <1>16, <2>1, <2>2, <2>4, <2>5 DEF ListingOk, OnePlace, Expects
  <2>7. OverOk(workWire', listing', rec', row')
    BY <1>1, <1>3, <1>4, <1>16, <2>2, <2>3, <2>4 DEF OverOk
  <2> QED  BY <2>2, <2>6, <2>7 DEF ListsOk
<1> QED  BY <1>5, <1>10, <1>11, <1>12, <1>14, <1>15, <1>16

(* Steps that leave the wire and the records alone. *)
LEMMA AsideLists ==
  ASSUME W!WorkListConstants, WorkInv, CallsOk, ListsOk,
         \/ \E c \in Shell : W!Background(c)
         \/ \E m \in Mon : W!Register(m) \/ W!Timeout(m) \/ W!Cleanup(m)
         \/ \E t \in W!Task : W!TaskStop(t)
         \/ \E a \in W!Agent : W!AddChild(a) \/ W!AdmitChild(a) \/ W!SettleChild(a)
         \/ W!TaskList \/ W!ListTasks \/ W!TimePasses \/ W!Watchdog \/ UNCHANGED W!vars
  PROVE  ListsOk'
<1>1. UNCHANGED <<rec, workWire>>
  BY AsideChanges
<1>2. NoneRevived
  BY BackgroundKeeps, RegisterKeeps, TransitionKeeps, RestKeeps
<1>3. /\ ListingOk(workWire, workAsks, listing, rec) /\ OverOk(workWire, listing, rec, row)
      /\ Expects(workWire, workAsks, listing) /\ listing \in ListT
  BY DEF ListsOk, ListingOk
<1>4. CASE listing' = listing /\ workAsks' \in {workAsks, workAsks \cup {"resync"}}
  <2>1. ListingOk(workWire', workAsks', listing', rec')
    BY <1>1, <1>3, <1>4 DEF ListingOk, OnePlace, Expects
  <2>2. OverOk(workWire', listing', rec', row')
    BY <1>1, <1>2, <1>3, <1>4 DEF OverOk, NoneRevived
  <2> QED  BY <1>3, <1>4, <2>1, <2>2 DEF ListsOk
<1>5. CASE W!TaskList
  <2>1. /\ listing = W!Idle /\ listing' = [W!Idle EXCEPT !.step = "syncing", !.since = W!Going]
        /\ workAsks' = workAsks \cup {"sync"}
    BY <1>5 DEF W!TaskList
  <2>2. /\ listing.step = "idle" /\ listing'.step = "syncing" /\ listing'.since = W!Going
        /\ listing'.over = {} /\ listing'.tasks = << >>
    BY <2>1 DEF W!Idle
  <2>3. W!Going \subseteq W!Id /\ \A t \in W!Going \cap W!Task : rec[t] # "none"
    <3>1. \A t \in W!Task : t \notin W!Agent
      BY DEF W!WorkListConstants
    <3>2. awaited \subseteq Shell
      BY DEF CallsOk
    <3> QED  BY <3>1, <3>2 DEF W!Going, W!Id, W!Task
  <2>4. listing' \in ListT
    BY <2>1, <2>3 DEF W!Idle, ListT
  <2>5. "sync" \notin workAsks /\ At(workWire, "sync") = {} /\ "list" \notin workAsks
      /\ At(workWire, "list") = {}
    BY <1>3, <2>2 DEF Expects
  <2>6. ListingOk(workWire', workAsks', listing', rec')
    BY <1>1, <2>1, <2>2, <2>3, <2>5 DEF ListingOk, OnePlace, Expects
  <2>7. OverOk(workWire', listing', rec', row')
    BY <1>1, <2>2, <2>5 DEF OverOk
  <2> QED  BY <2>4, <2>6, <2>7 DEF ListsOk
<1>6. CASE W!ListTasks
  <2>1. listing.step = "answered" /\ listing' = W!Idle /\ workAsks' = workAsks
    BY <1>6 DEF W!ListTasks, W!managerVars
  <2>2. /\ listing'.step = "idle" /\ listing'.since = {} /\ listing'.over = {}
        /\ listing' \in ListT
    BY <2>1 DEF W!Idle, ListT
  <2>3. "sync" \notin workAsks /\ At(workWire, "sync") = {} /\ "list" \notin workAsks
      /\ At(workWire, "list") = {}
    BY <1>3, <2>1 DEF Expects
  <2>4. ListingOk(workWire', workAsks', listing', rec')
    BY <1>1, <2>1, <2>2, <2>3 DEF ListingOk, OnePlace, Expects
  <2>5. OverOk(workWire', listing', rec', row')
    BY <1>1, <2>2, <2>3 DEF OverOk
  <2> QED  BY <2>2, <2>4, <2>5 DEF ListsOk
<1>7. \/ W!TaskList \/ W!ListTasks
      \/ listing' = listing /\ workAsks' \in {workAsks, workAsks \cup {"resync"}}
  <2>1. CASE \/ \E c \in Shell : W!Background(c)
             \/ \E m \in Mon : W!Register(m) \/ W!Timeout(m) \/ W!Cleanup(m)
    BY <2>1 DEF W!Background, W!Register, W!Timeout, W!Cleanup, W!shellVars, W!managerVars
  <2>2. CASE \E a \in W!Agent : W!AddChild(a) \/ W!AdmitChild(a) \/ W!SettleChild(a)
    BY <2>2 DEF W!AddChild, W!AdmitChild, W!SettleChild, W!Transition, W!shellVars, W!managerVars
  <2>3. CASE \/ \E t \in W!Task : W!TaskStop(t)
             \/ W!TimePasses \/ W!Watchdog \/ UNCHANGED W!vars
    BY <2>3 DEF W!TaskStop, W!TimePasses, W!Watchdog, W!shellVars, W!managerVars, W!vars
  <2> QED  BY <2>1, <2>2, <2>3
<1> QED  BY <1>4, <1>5, <1>6, <1>7

LEMMA RequestFailsLists ==
  ASSUME ListsOk, NEW a \in W!ListAsk, W!RequestFails(a)
  PROVE  ListsOk'
<1>1. /\ UNCHANGED <<rec, workWire, row>> /\ a \in workAsks
      /\ workAsks' = (workAsks \ {a}) \cup (IF a = "sync" THEN {"list"} ELSE {})
      /\ listing' = CASE a = "sync" -> [listing EXCEPT !.step = "listing", !.over = {}]
                       [] a = "list" -> W!Idle
                       [] OTHER -> listing
  BY DEF W!RequestFails
<1>2. /\ listing \in ListT /\ OverOk(workWire, listing, rec, row)
      /\ ListingOk(workWire, workAsks, listing, rec)
      /\ OnePlace(workWire, workAsks, "sync") /\ OnePlace(workWire, workAsks, "list")
      /\ Expects(workWire, workAsks, listing)
  BY DEF ListsOk, ListingOk
<1>3. CASE a = "sync"
  <2>1. /\ workAsks' = (workAsks \ {"sync"}) \cup {"list"}
        /\ listing' = [listing EXCEPT !.step = "listing", !.over = {}]
    BY <1>1, <1>3
  <2>2. /\ listing'.step = "listing" /\ listing'.since = listing.since /\ listing'.over = {}
        /\ listing'.tasks = listing.tasks /\ listing' \in ListT
    BY <1>2, <2>1, ListingIs DEF ListT
  <2>3. /\ listing.step = "syncing" /\ At(workWire, "sync") = {}
        /\ "list" \notin workAsks /\ At(workWire, "list") = {}
    BY <1>1, <1>2, <1>3 DEF OnePlace, Expects
  <2>4. ListingOk(workWire', workAsks', listing', rec')
    BY <1>1, <1>2, <2>1, <2>2, <2>3 DEF ListingOk, OnePlace, Expects
  <2>5. OverOk(workWire', listing', rec', row')
    BY <1>1, <2>2, <2>3 DEF OverOk
  <2> QED  BY <2>2, <2>4, <2>5 DEF ListsOk
<1>4. CASE a = "list"
  <2>1. workAsks' = workAsks \ {"list"} /\ listing' = W!Idle
    BY <1>1, <1>4
  <2>2. /\ listing'.step = "idle" /\ listing'.since = {} /\ listing'.over = {}
        /\ listing' \in ListT
    BY <2>1 DEF W!Idle, ListT
  <2>3. /\ listing.step = "listing" /\ At(workWire, "list") = {}
        /\ "sync" \notin workAsks /\ At(workWire, "sync") = {}
    BY <1>1, <1>2, <1>4 DEF OnePlace, Expects
  <2>4. ListingOk(workWire', workAsks', listing', rec')
    BY <1>1, <2>1, <2>2, <2>3 DEF ListingOk, OnePlace, Expects
  <2>5. OverOk(workWire', listing', rec', row')
    BY <1>1, <2>2, <2>3 DEF OverOk
  <2> QED  BY <2>2, <2>4, <2>5 DEF ListsOk
<1>5. CASE a \notin {"sync", "list"}
  <2>1. workAsks' = workAsks \ {a} /\ listing' = listing
    BY <1>1, <1>5
  <2>2. ListingOk(workWire', workAsks', listing', rec')
    BY <1>1, <1>2, <2>1 DEF ListingOk, OnePlace, Expects
  <2> QED  BY <1>1, <1>2, <2>1, <2>2 DEF ListsOk
<1> QED  BY <1>3, <1>4, <1>5

LEMMA ListsKept ==
  ASSUME W!WorkListConstants, WorkInv, PastOk, CallsOk, ListsOk, [W!Next]_(W!vars)
  PROVE  ListsOk'
<1>1. CASE \/ \E t \in W!Task : W!Start(t) \/ W!TaskEnds(t)
           \/ \E c \in Shell : W!AnswerWait(c)
           \/ \E a \in W!ListAsk : W!AnswerList(a)
  BY <1>1, ManagerTells, TellsLists
<1>2. CASE W!Receive
  BY <1>2, ReceiveLists
<1>3. CASE \/ \E c \in Shell : W!Background(c)
           \/ \E m \in Mon : W!Register(m) \/ W!Timeout(m) \/ W!Cleanup(m)
           \/ \E t \in W!Task : W!TaskStop(t)
           \/ \E a \in W!Agent : W!AddChild(a) \/ W!AdmitChild(a) \/ W!SettleChild(a)
           \/ W!TaskList \/ W!ListTasks \/ W!TimePasses \/ W!Watchdog \/ UNCHANGED W!vars
  BY <1>3, AsideLists
<1>4. CASE W!Drop \/ W!Restart \/ W!GiveUp
  <2>1. /\ workWire' = << >> /\ rec' = rec /\ DOMAIN << >> = {}
        /\ \A t : ~ExitSaid(<< >>, t)
    BY <1>4 DEF W!Drop, W!Restart, W!GiveUp, ExitSaid
  <2>2. \A a : At(workWire', a) = {}
    BY <2>1 DEF At
  <2>3. CASE W!Drop
    <3>1. /\ UNCHANGED <<listing, row>>
          /\ \A a \in {"sync", "list"} : a \in workAsks' => a \in workAsks \/ At(workWire, a) # {}
      BY <2>3 DEF W!Drop, At
    <3>2. ListingOk(workWire', workAsks', listing', rec')
      BY <2>1, <2>2, <3>1 DEF ListsOk, ListingOk, OnePlace, Expects
    <3>3. OverOk(workWire', listing', rec', row')
      BY <2>1, <2>2, <3>1 DEF ListsOk, OverOk
    <3> QED  BY <3>1, <3>2, <3>3 DEF ListsOk
  <2>4. CASE W!Restart \/ W!GiveUp
    <3>1. /\ listing' = W!Idle /\ workAsks' = {}
      BY <2>4 DEF W!Restart, W!GiveUp
    <3>2. /\ listing'.step = "idle" /\ listing'.since = {} /\ listing'.over = {}
          /\ listing' \in ListT
      BY <3>1 DEF W!Idle, ListT
    <3> QED  BY <2>1, <2>2, <3>1, <3>2 DEF ListsOk, ListingOk, OverOk, OnePlace, Expects
  <2> QED  BY <1>4, <2>3, <2>4
<1>5. CASE \E a \in W!ListAsk : W!RequestFails(a)
  BY <1>5, RequestFailsLists
<1> QED  BY <1>1, <1>2, <1>3, <1>4, <1>5 DEF W!Next

-----------------------------------------------------------------------------
LEMMA ListStarts ==
  ASSUME W!WorkListConstants, W!Init
  PROVE  PastOk /\ CallsOk /\ RowsKnown /\ ListsOk
<1>1. /\ workWire = << >> /\ DOMAIN << >> = {} /\ workAsks = {} /\ early = {} /\ awaited = {}
      /\ rec = [t \in W!Task |-> "none"] /\ bash = [c \in Shell |-> "new"]
      /\ row = [i \in W!Id |-> W!NoRow] /\ listing = W!Idle
      /\ child = [a \in W!Agent |-> [status |-> "new", age |-> 0]]
  BY DEF W!Init
<1>2. /\ \A a : At(workWire, a) = {}
      /\ \A c : Starts(workWire, c) = {} /\ Answers(workWire, c) = {}
  BY <1>1 DEF At, Starts, Answers
<1>3. PastOk
  BY <1>1 DEF PastOk, PastOnly
<1>4. CallsOk
  BY <1>1, <1>2 DEF CallsOk, CallOk
<1>5. RowsKnown
  <2>1. \A i \in W!Id : row[i].status = "none" /\ ~W!Live(row, i)
    BY <1>1 DEF W!NoRow, W!Live, W!Active
  <2>2. \A a \in W!Agent : child[a].status \notin W!Active
    BY <1>1 DEF W!Active
  <2>3. child = [a \in W!Agent |-> child[a]]
    BY <1>1
  <2> QED  BY <1>1, <2>1, <2>2, <2>3 DEF RowsKnown, RowsOk, ChildrenOk, W!Id
<1>6. ListsOk
  <2>1. listing.step = "idle" /\ listing.since = {} /\ listing.over = {} /\ listing \in ListT
    BY <1>1 DEF W!Idle, ListT
  <2> QED  BY <1>1, <1>2, <2>1 DEF ListsOk, ListingOk, OverOk, OnePlace, Expects
<1> QED  BY <1>3, <1>4, <1>5, <1>6

-----------------------------------------------------------------------------
(* The merge. *)

LEMMA EntryIs ==
  ASSUME NEW r, NEW all, NEW e \in W!Entries(r, all)
  PROVE  \/ \E i \in W!Id : e = <<i, r[i].status>>
         \/ \E u \in W!Task : e = <<u, listing.tasks[u]>>
         \/ \E a \in W!Agent : e = <<a, IF disk[a] \in W!Active THEN "interrupted" ELSE disk[a]>>
<1>1. CASE e \in W!FromIndex(r, all)
  BY <1>1 DEF W!FromIndex
<1>2. CASE e \in W!FromManager(r, W!Ids(W!FromIndex(r, all)), all)
  BY <1>2 DEF W!FromManager
<1>3. CASE e \in W!FromDisk(W!Ids(W!FromIndex(r, all) \cup
                                   W!FromManager(r, W!Ids(W!FromIndex(r, all)), all)), all)
  BY <1>3 DEF W!FromDisk
<1> QED  BY <1>1, <1>2, <1>3 DEF W!Entries

(* Nothing is named twice: each source leaves out what those before name.  *)
LEMMA NamedOnce ==
  ASSUME NEW r, NEW all, NEW e \in W!Entries(r, all), NEW f \in W!Entries(r, all), e[1] = f[1]
  PROVE  e = f
<1> DEFINE A == W!FromIndex(r, all)
           B == W!FromManager(r, W!Ids(A), all)
           C == W!FromDisk(W!Ids(A \cup B), all)
<1>1. /\ e \in A \/ e \in B \/ e \in C
      /\ f \in A \/ f \in B \/ f \in C
  BY DEF W!Entries
<1>2. \A x \in A : x = <<x[1], r[x[1]].status>>
  BY DEF W!FromIndex
<1>3. \A x \in B : x = <<x[1], listing.tasks[x[1]]>> /\ x[1] \notin W!Ids(A)
  <2> HIDE DEF A
  <2> QED  BY DEF W!FromManager
<1>4. \A x \in C : /\ x = <<x[1], IF disk[x[1]] \in W!Active THEN "interrupted" ELSE disk[x[1]]>>
                   /\ x[1] \notin W!Ids(A \cup B)
  <2> HIDE DEF A, B
  <2> QED  BY DEF W!FromDisk
<1> HIDE DEF A, B, C
<1>5. \A x \in A : x[1] \in W!Ids(A) /\ x[1] \in W!Ids(A \cup B)
  BY DEF W!Ids
<1>6. \A x \in B : x[1] \in W!Ids(A \cup B)
  BY DEF W!Ids
<1> QED  BY <1>1, <1>2, <1>3, <1>4, <1>5, <1>6

LEMMA NothingLeftOut ==
  ASSUME W!WorkListConstants, WorkInv, CallsOk, RowsKnown, ListsOk, W!ListTasks,
         NEW all \in BOOLEAN,
         NEW i \in listing.since \cap W!Going
  PROVE  \E e \in W!Entries(row', all) : e[1] = i /\ e[2] \in W!Active
<1> DEFINE r == row'
<1>1. r \in W!Prunings(row) /\ listing.step = "answered"
  BY DEF W!ListTasks, W!Listed
<1>2. /\ \A j \in W!Id : Left(row, r, j)
      /\ RowsOk(row, rec, awaited, child) /\ awaited \subseteq Shell
      /\ listing.tasks \in [W!Task -> {"none", "running", "ended"}]
             /\ Knows(listing.tasks, rec, listing)
  BY <1>1, PruningLeaves DEF RowsKnown, CallsOk, ListsOk, ListingOk
<1> HIDE DEF r
<1>3. i \in W!Id /\ W!Live(row, i) => \E e \in W!Entries(r, all) : e[1] = i /\ e[2] \in W!Active
  <2> SUFFICES ASSUME i \in W!Id, W!Live(row, i)
               PROVE  \E e \in W!Entries(r, all) : e[1] = i /\ e[2] \in W!Active
    OBVIOUS
  <2>1. W!Live(r, i) /\ r[i].status # "none"
    BY <1>2, LeftIs DEF W!Live, W!Active
  <2> DEFINE x == <<i, r[i].status>>
  <2>2. x \in W!FromIndex(r, all)
    BY <2>1 DEF W!FromIndex
  <2>3. x[1] = i /\ x[2] \in W!Active
    BY <2>1 DEF W!Live
  <2> HIDE DEF x
  <2>4. x \in W!Entries(r, all)
    BY <2>2 DEF W!Entries
  <2> QED  BY <2>3, <2>4
<1>4. CASE i \in W!Agent /\ child[i].status \in W!Active
  <2>1. i \in W!Id /\ W!Live(row, i)
    BY <1>2, <1>4 DEF RowsOk, W!Live, W!Id
  <2> QED  BY <1>3, <2>1 DEF r
<1>5. CASE i \in awaited \cup Mon /\ rec[i] = "running"
  <2>1. i \in W!Task /\ i \in W!Id /\ (i \in Mon => i \notin Shell)
    BY <1>2, <1>5 DEF W!Task, W!Id, W!WorkListConstants
  <2>2. CASE W!Live(row, i)
    BY <1>3, <2>1, <2>2 DEF r
  <2>3. CASE ~W!Live(row, i)
    <3>1. i \in Mon /\ row[i].status = "none"
      BY <1>2, <1>5, <2>1, <2>3 DEF RowsOk
    <3>2. r[i].status = "none"
      BY <1>2, <2>1, <3>1, LeftIs
    <3>3. listing.tasks[i] = "running"
      BY <1>2, <1>5, <2>1 DEF Knows
    <3>4. i \notin W!Ids(W!FromIndex(r, all))
      BY <3>2 DEF W!Ids, W!FromIndex
    <3>5. <<i, listing.tasks[i]>> \in W!FromManager(r, W!Ids(W!FromIndex(r, all)), all)
      BY <2>1, <3>1, <3>3, <3>4 DEF W!FromManager
    <3> DEFINE x == <<i, listing.tasks[i]>>
    <3>6. x[1] = i /\ x[2] \in W!Active
      BY <3>3 DEF W!Active
    <3> HIDE DEF x
    <3>7. x \in W!Entries(r, all)
      BY <3>5 DEF W!Entries, x
    <3> QED  BY <3>6, <3>7 DEF r
  <2> QED  BY <2>2, <2>3
<1> QED  BY <1>4, <1>5 DEF W!Going

LEMMA NothingMadeUp ==
  ASSUME W!WorkListConstants, WorkInv, RowsKnown, ListsOk, W!ListTasks, NEW all \in BOOLEAN,
         NEW e \in W!Entries(row', all), e[2] \in W!Active
  PROVE  /\ e[1] \in W!Task => e[1] \notin listing.over
         /\ e[1] \in W!Agent => child[e[1]].status = e[2]
<1> DEFINE r == row'
<1>1. r \in W!Prunings(row) /\ listing.step = "answered"
  BY DEF W!ListTasks, W!Listed
<1>2. /\ \A j \in W!Id : Left(row, r, j)
      /\ RowsOk(row, rec, awaited, child)
      /\ Knows(listing.tasks, rec, listing) /\ OverOk(workWire, listing, rec, row)
      /\ \A t \in W!Task : t \notin W!Agent
  BY <1>1, PruningLeaves DEF RowsKnown, ListsOk, ListingOk, W!WorkListConstants
<1>3. e \in W!Entries(r, all)
  OBVIOUS
<1> HIDE DEF r
<1>4. CASE \E i \in W!Id : e = <<i, r[i].status>>
  <2>1. PICK i \in W!Id : e = <<i, r[i].status>>
    BY <1>4
  <2>2. e[1] = i /\ e[2] = r[i].status
    BY <2>1
  <2>3. W!Live(row, i) /\ r[i] = row[i]
    BY <1>2, <2>2, LeftIs DEF W!Live
  <2> QED  BY <1>1, <1>2, <2>2, <2>3 DEF RowsOk, OverOk
<1>5. CASE \E u \in W!Task : e = <<u, listing.tasks[u]>>
  BY <1>2, <1>5 DEF Knows, W!Active
<1>6. CASE \E a \in W!Agent : e = <<a, IF disk[a] \in W!Active THEN "interrupted" ELSE disk[a]>>
  <2>1. "interrupted" \notin W!Active
    BY DEF W!Active
  <2> QED  BY <1>6, <2>1
<1>7. \/ \E i \in W!Id : e = <<i, r[i].status>>
      \/ \E u \in W!Task : e = <<u, listing.tasks[u]>>
      \/ \E a \in W!Agent : e = <<a, IF disk[a] \in W!Active THEN "interrupted" ELSE disk[a]>>
  BY <1>3, EntryIs
<1> QED  BY <1>4, <1>5, <1>6, <1>7

ListInv == WorkInv /\ PastOk /\ CallsOk /\ RowsKnown /\ ListsOk

LEMMA ListInvariant ==
  ASSUME W!WorkListConstants
  PROVE  W!Spec => []ListInv
<1>1. W!Init => ListInv
  BY WorkStarts, ListStarts DEF ListInv
<1>2. ListInv /\ [W!Next]_(W!vars) => ListInv'
  BY WorkSteps, PastKept, CallsKept, RowsKept, ListsKept DEF ListInv
<1> QED  BY <1>1, <1>2, PTL DEF W!Spec

(* A row still live although its task has ended is looked after, but for a *)
(* monitor's once the list that was to close it has failed or the client   *)
(* has given up (syncWithManager and exit events in index.ts, reconnectLoop*)
(* in manager-client.ts, exit-watchdog.ts, work-index.ts).                 *)
THEOREM RowsAlwaysLookedAfter ==
  ASSUME W!WorkListConstants
  PROVE  W!Spec => W!RowsLookedAfter
<1>1. ListInv /\ ListInv' /\ [W!Next]_(W!vars) =>
        [\A t \in W!Task : W!Unlooked(t)' =>
           t \in Mon /\ (W!Unlooked(t) \/ W!GiveUp
                        \/ \E a \in W!ListAsk : W!RequestFails(a))]_(W!vars)
  <2> SUFFICES ASSUME ListInv, ListInv', [W!Next]_(W!vars), NEW t \in W!Task, W!Unlooked(t)'
               PROVE  t \in Mon /\ (W!Unlooked(t) \/ W!GiveUp
                                    \/ \E a \in W!ListAsk : W!RequestFails(a))
    OBVIOUS
  <2>1. t \notin awaited' /\ W!Live(row', t) /\ ~Safe(t)'
    BY DEF W!Unlooked, W!Said, Safe, Looked, ExitSaid
  <2>2. t \in Mon
    BY <2>1 DEF ListInv, WorkInv, RowsAwaited, W!Task
  <2>3. NoneForgotten \/ W!GiveUp \/ \E a \in W!ListAsk : W!RequestFails(a)
    BY WorkSteps DEF ListInv
  <2>4. ASSUME NoneForgotten PROVE W!Unlooked(t)
    <3>1. ~Safe(t)
      BY <2>1, <2>4 DEF NoneForgotten
    <3>2. t \notin awaited
      BY <2>2 DEF ListInv, CallsOk, W!WorkListConstants
    <3> QED  BY <3>1, <3>2 DEF W!Unlooked, W!Said, Safe, Looked, ExitSaid
  <2> QED  BY <2>2, <2>3, <2>4
<1> QED  BY <1>1, ListInvariant, PTL DEF W!Spec, W!RowsLookedAfter

(* task_list leaves out nothing that went on from its call to its answer,  *)
(* and names nothing twice, whichever of the index, the manager's list and *)
(* the records on disk knows of it (createTaskListTool in task-tools.ts).  *)
THEOREM ListAlwaysComplete ==
  ASSUME W!WorkListConstants
  PROVE  W!Spec => W!ListComplete
<1>1. ListInv /\ [W!Next]_(W!vars) =>
        [W!ListTasks =>
           \A all \in BOOLEAN : LET shown == W!Entries(row', all) IN
           /\ \A i \in listing.since \cap W!Going : \E e \in shown : e[1] = i /\ e[2] \in W!Active
           /\ \A e, f \in shown : e[1] = f[1] => e = f]_(W!vars)
  BY NothingLeftOut, NamedOnce DEF ListInv
<1> QED  BY <1>1, ListInvariant, PTL DEF W!Spec, W!ListComplete

(* task_list shows nothing as running that had ended when the manager      *)
(* answered its sync, and no subagent an earlier process left in the files *)
(* (syncWithManager in index.ts, task-tools.ts, agent-records.ts).         *)
THEOREM ListAlwaysHonest ==
  ASSUME W!WorkListConstants
  PROVE  W!Spec => W!ListHonest
<1>1. ListInv /\ [W!Next]_(W!vars) =>
        [W!ListTasks =>
           \A all \in BOOLEAN : \A e \in W!Entries(row', all) : e[2] \in W!Active =>
             /\ e[1] \in W!Task => e[1] \notin listing.over
             /\ e[1] \in W!Agent => child[e[1]].status = e[2]]_(W!vars)
  BY NothingMadeUp DEF ListInv
<1> QED  BY <1>1, ListInvariant, PTL DEF W!Spec, W!ListHonest

=============================================================================
