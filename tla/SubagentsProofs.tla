--------------------------- MODULE SubagentsProofs ---------------------------
(***************************************************************************)
(* Theorems about Subagents, for any number of children, workers and slots,*)
(* any budget and any number of retries and turns.  The accounting of slots*)
(* (Inv) holds until a turn is begun over an open one; that such a turn    *)
(* stays known, and what the turns themselves keep, rests on Tidy, which   *)
(* holds in every state.                                                   *)
(*                                                                         *)
(* The accounting of slots rests on the tickets: the entries of granted    *)
(* and queue, each for one generation of one child.  The slots in the      *)
(* middle of a step, taken from a settled turn or from a grant and not yet *)
(* passed on, are the number n of Accounts.                                *)
(***************************************************************************)
EXTENDS Subagents, FiniteSetTheorems, SequenceTheorems, TLAPS

Ticket == Child \X Nat

Held(hh) == {c \in Child : hh[c].slot}

(* Every ticket is the only one of its generation, which its child has     *)
(* reached and in which it holds no slot.                                  *)
Tickets(line, hh) ==
  /\ \A i, j \in 1..Len(line) : line[i] = line[j] => i = j
  /\ \A i \in 1..Len(line) :
       /\ line[i][2] \in 1..hh[line[i][1]].gen
       /\ hh[line[i][1]].slot => line[i][2] # hh[line[i][1]].gen

(* What holds of a handle by itself: a settled turn holds no slot, a final *)
(* status is that of a settled turn.                                       *)
HandleOK(x) ==
  /\ x \in Handle
  /\ x.slot => ~x.settled
  /\ x.st \in Over => x.settled

Accounts(hh, gr, qu, ac, n) ==
  /\ \A c \in Child : HandleOK(hh[c])
  /\ hh \in [Child -> Handle]
  /\ gr \in Seq(Ticket)
  /\ qu \in Seq(Ticket)
  /\ ac \in 0..MaxSlots
  /\ n \in Nat
  /\ ac = Len(gr) + n + Cardinality(Held(hh))
  /\ qu # <<>> => ac = MaxSlots
  /\ Tickets(gr \o qu, hh)

(* Children that were not submitted yet. *)
Unsubmitted == \A c \in Child : c >= next => h[c] = Unstarted

(* TypeOK, but for the number of idle workers. *)
Types ==
  /\ next \in 1..NChildren + 1
  /\ waiting \subseteq Child
  /\ failed \in BOOLEAN /\ finalized \in BOOLEAN /\ listed \in BOOLEAN
  /\ echo \in Seq(Child)
  /\ rec \in [Child -> Status]
  /\ spent \in 0..Budget
  /\ active \in 0..MaxSlots
  /\ queue \in Seq(Ticket)
  /\ granted \in Seq(Ticket)
  /\ h \in [Child -> Handle]

Inv ==
  /\ Types
  /\ Accounts(h, granted, queue, active, 0)
  /\ Unsubmitted

-----------------------------------------------------------------------------
(* Slots *)

LEMMA ChildFinite == IsFiniteSet(Child)
  BY SubagentsAssumption, FS_Interval DEF Child

LEMMA HeldFinite ==
  ASSUME NEW hh, NEW S \in SUBSET Child
  PROVE  /\ IsFiniteSet({c \in S : hh[c].slot})
         /\ Cardinality({c \in S : hh[c].slot}) \in Nat
  BY ChildFinite, FS_Subset, FS_CardinalityType

(* A ticket at the front of the line is taken out of it. *)
LEMMA TakeFront ==
  ASSUME NEW hh, NEW gr, NEW qu, NEW ac, NEW n, gr # <<>>,
         Accounts(hh, gr, qu, ac, n)
  PROVE  /\ Accounts(hh, Tail(gr), qu, ac, n + 1)
         /\ Head(gr) \in Ticket
         /\ LET c == Head(gr)[1] g == Head(gr)[2] line == Tail(gr) \o qu
            IN  /\ c \in Child
                /\ g \in 1..hh[c].gen
                /\ hh[c].slot => g # hh[c].gen
                /\ \A i \in 1..Len(line) : line[i] # <<c, g>>
<1> DEFINE old == gr \o qu
           line == Tail(gr) \o qu
<1>1. /\ gr \in Seq(Ticket) /\ qu \in Seq(Ticket)
      /\ Tickets(old, hh)
  BY DEF Accounts
<1>2. /\ Head(gr) \in Ticket /\ Head(gr) = gr[1] /\ Tail(gr) \in Seq(Ticket)
      /\ Len(gr) \in Nat \ {0}
      /\ Len(Tail(gr)) = Len(gr) - 1
      /\ \A i \in 1..Len(Tail(gr)) : Tail(gr)[i] = gr[i + 1]
  BY <1>1, HeadTailProperties, EmptySeq
<1>3. /\ Len(old) = Len(gr) + Len(qu) /\ Len(line) = Len(old) - 1
      /\ Len(old) \in Nat \ {0} /\ Len(line) \in Nat
      /\ old[1] = Head(gr)
      /\ \A i \in 1..Len(line) : line[i] = old[i + 1]
  <2>1. Len(qu) \in Nat
    BY <1>1
  <2>2. /\ Len(old) = Len(gr) + Len(qu)
        /\ \A i \in 1..Len(gr) + Len(qu) : old[i] = IF i <= Len(gr) THEN gr[i] ELSE qu[i - Len(gr)]
    BY <1>1, ConcatProperties
  <2>3. /\ Len(line) = Len(Tail(gr)) + Len(qu)
        /\ \A i \in 1..Len(Tail(gr)) + Len(qu) :
             line[i] = IF i <= Len(Tail(gr)) THEN Tail(gr)[i] ELSE qu[i - Len(Tail(gr))]
    BY <1>1, <1>2, ConcatProperties
  <2>4. ASSUME NEW i \in 1..Len(line) PROVE line[i] = old[i + 1]
    <3>1. CASE i <= Len(Tail(gr))
      BY <3>1, <2>1, <2>2, <2>3, <1>2
    <3>2. CASE ~(i <= Len(Tail(gr)))
      <4>1. i - Len(Tail(gr)) = i + 1 - Len(gr)
        BY <1>2, <2>1, <2>3
      <4> QED
        BY <3>2, <4>1, <2>1, <2>2, <2>3, <1>2
    <3> QED
      BY <3>1, <3>2
  <2> QED
    BY <2>1, <2>2, <2>3, <2>4, <1>2
<1>4. /\ \A i, j \in 1..Len(line) : line[i] = line[j] => i = j
      /\ \A i \in 1..Len(line) : line[i] # old[1]
  <2> HIDE DEF old, line
  <2> QED
    BY <1>1, <1>3 DEF Tickets
<1>5. \A i \in 1..Len(line) :
        /\ line[i][2] \in 1..hh[line[i][1]].gen
        /\ hh[line[i][1]].slot => line[i][2] # hh[line[i][1]].gen
  <2> HIDE DEF old, line
  <2>1. \A j \in 1..Len(old) :
          /\ old[j][2] \in 1..hh[old[j][1]].gen
          /\ hh[old[j][1]].slot => old[j][2] # hh[old[j][1]].gen
    BY <1>1 DEF Tickets
  <2>2. \A i \in 1..Len(line) : i + 1 \in 1..Len(old)
    BY <1>3
  <2>3. \A i \in 1..Len(line) : line[i] = old[i + 1]
    BY <1>3
  <2> QED
    BY <2>1, <2>2, <2>3, Zenon
<1>6. Accounts(hh, Tail(gr), qu, ac, n + 1)
  <2>1. Tickets(Tail(gr) \o qu, hh)
    BY <1>4, <1>5 DEF Tickets
  <2>2. Cardinality(Held(hh)) \in Nat
    BY HeldFinite DEF Held
  <2> QED
    BY <2>1, <2>2, <1>2 DEF Accounts
<1>7. /\ old[1][2] \in 1..hh[old[1][1]].gen
      /\ hh[old[1][1]].slot => old[1][2] # hh[old[1][1]].gen
  <2> HIDE DEF old
  <2> QED
    BY <1>1, <1>3 DEF Tickets
<1>8. Head(gr) = <<Head(gr)[1], Head(gr)[2]>> /\ Head(gr)[1] \in Child
  BY <1>2 DEF Ticket
<1> QED
  BY <1>2, <1>3, <1>4, <1>6, <1>7, <1>8

(* Released slots go to the first in the line. *)
LEMMA Release ==
  ASSUME NEW hh, NEW rest, NEW n, Accounts(hh, rest, queue, active, n),
         ReleaseSlots(n, rest)
  PROVE  Accounts(hh, granted', queue', active', 0)
<1> DEFINE k == IF n < Len(queue) THEN n ELSE Len(queue)
           first == SubSeq(queue, 1, k)
           others == SubSeq(queue, k + 1, Len(queue))
<1>1. /\ rest \in Seq(Ticket) /\ queue \in Seq(Ticket) /\ n \in Nat
  BY DEF Accounts
<1>2. /\ Len(queue) \in Nat /\ Len(rest) \in Nat /\ Cardinality(Held(hh)) \in Nat
  BY <1>1, HeldFinite, LenProperties DEF Held
<1>3. k \in 0..Len(queue) /\ k <= n
  BY <1>1, <1>2
<1>4. /\ granted' = rest \o first /\ queue' = others /\ active' = active - (n - k)
  BY DEF ReleaseSlots
<1>5. /\ first \in Seq(Ticket) /\ Len(first) = k
      /\ others \in Seq(Ticket) /\ Len(others) = Len(queue) - k
      /\ first \o others = queue
  <2> HIDE DEF k
  <2>1. \A i \in 1..Len(queue) : queue[i] \in Ticket
    BY <1>1, ElementOfSeq
  <2>2. first \in Seq(Ticket) /\ Len(first) = IF 1 <= k THEN k - 1 + 1 ELSE 0
    <3>1. \A i \in 1..k : queue[i] \in Ticket
      BY <2>1, <1>2, <1>3
    <3> QED
      BY <3>1, <1>3, SubSeqProperties
  <2>3. /\ others \in Seq(Ticket)
        /\ Len(others) = IF k + 1 <= Len(queue) THEN Len(queue) - (k + 1) + 1 ELSE 0
    <3>1. \A i \in k + 1..Len(queue) : queue[i] \in Ticket
      BY <2>1, <1>2, <1>3
    <3>2. k + 1 \in Int /\ Len(queue) \in Int
      BY <1>2, <1>3
    <3> QED
      BY <3>1, <3>2, SubSeqProperties
  <2>4. first \o others = SubSeq(queue, 1, Len(queue))
    <3>1. 1 \in 1..Len(queue) + 1 /\ k \in 1 - 1..Len(queue) /\ Len(queue) \in k..Len(queue)
      BY <1>2, <1>3
    <3> QED
      BY <1>1, <3>1, ConcatAdjacentSubSeq
  <2>5. SubSeq(queue, 1, Len(queue)) = queue
    BY <1>1, SubSeqFull
  <2>6. first \o others = queue
    BY <2>4, <2>5
  <2> HIDE DEF first, others
  <2> QED
    BY <1>2, <1>3, <2>2, <2>3, <2>6
<1> HIDE DEF first, others
<1>6. (rest \o first) \o others = rest \o queue
  <2>1. rest \in Seq(Ticket) /\ first \in Seq(Ticket) /\ others \in Seq(Ticket)
    BY <1>1, <1>5
  <2>2. (rest \o first) \o others = rest \o (first \o others)
    BY ONLY <2>1, ConcatAssociative
  <2> QED
    BY <2>2, <1>5
<1>7. rest \o first \in Seq(Ticket) /\ Len(rest \o first) = Len(rest) + k
  <2>1. rest \in Seq(Ticket) /\ first \in Seq(Ticket)
    BY <1>1, <1>5
  <2>2. rest \o first \in Seq(Ticket) /\ Len(rest \o first) = Len(rest) + Len(first)
    BY ONLY <2>1, ConcatProperties
  <2> QED
    BY <2>2, <1>5
<1>8. others # <<>> => k = n
  <2>1. others # <<>> => Len(others) > 0
    BY <1>5, EmptySeq
  <2>2. Len(queue) - k > 0 => k = n
    BY <1>1, <1>2
  <2> HIDE DEF k
  <2> QED
    BY <1>2, <1>3, <1>5, <2>1, <2>2
<1>9. active' \in 0..MaxSlots /\ active' = Len(granted') + Cardinality(Held(hh))
  <2> HIDE DEF k
  <2>1. /\ active \in 0..MaxSlots /\ MaxSlots \in Nat
        /\ active = Len(rest) + n + Cardinality(Held(hh))
    BY SubagentsAssumption DEF Accounts
  <2>2. Len(granted') = Len(rest) + k
    BY <1>4, <1>7
  <2> QED
    BY <2>1, <2>2, <1>1, <1>2, <1>3, <1>4
<1>10. queue' # <<>> => active' = MaxSlots
  <2> HIDE DEF k
  <2>1. CASE queue' # <<>>
    <3>1. queue # <<>> /\ k = n
      BY <2>1, <1>1, <1>4, <1>5, <1>8, EmptySeq
    <3> QED
      BY <3>1, <1>1, <1>4, SubagentsAssumption DEF Accounts
  <2> QED
    BY <2>1
<1> HIDE DEF k
<1>11. granted' \in Seq(Ticket) /\ queue' \in Seq(Ticket) /\ granted' \o queue' = rest \o queue
  BY <1>4, <1>5, <1>6, <1>7
<1> QED
  BY <1>2, <1>9, <1>10, <1>11 DEF Accounts

(* A handle takes the value x; the slots in hand are m afterwards. *)
LEMMA SetHandle ==
  ASSUME NEW hh, NEW gr, NEW qu, NEW ac, NEW n, Accounts(hh, gr, qu, ac, n),
         NEW c \in Child, NEW x, HandleOK(x), x.gen >= hh[c].gen,
         x.slot => \A i \in 1..Len(gr \o qu) : (gr \o qu)[i] # <<c, x.gen>>,
         NEW m \in Nat,
         m + (IF x.slot THEN 1 ELSE 0) = n + (IF hh[c].slot THEN 1 ELSE 0)
  PROVE  Accounts([hh EXCEPT ![c] = x], gr, qu, ac, m)
<1> DEFINE new == [hh EXCEPT ![c] = x]
           line == gr \o qu
<1>1. /\ hh \in [Child -> Handle] /\ x \in Handle /\ hh[c] \in Handle
      /\ x.slot \in BOOLEAN /\ x.gen \in Nat /\ hh[c].gen \in Nat /\ hh[c].slot \in BOOLEAN
  BY DEF Accounts, HandleOK, Handle
<1>2. /\ new \in [Child -> Handle] /\ new[c] = x
      /\ \A d \in Child \ {c} : new[d] = hh[d]
  BY <1>1
<1>3. \A d \in Child : HandleOK(new[d])
  BY <1>2 DEF Accounts
<1>4. Cardinality(Held(new)) + m = Cardinality(Held(hh)) + n
  <2>1. IsFiniteSet(Held(hh)) /\ Cardinality(Held(hh)) \in Nat
    BY HeldFinite DEF Held
  <2>2. c \in Held(hh) <=> hh[c].slot
    BY DEF Held
  <2>n. n \in Nat
    BY DEF Accounts
  <2>3. CASE x.slot
    <3>1. Held(new) = Held(hh) \cup {c}
      BY <2>3, <1>2 DEF Held
    <3>2. Cardinality(Held(new)) = IF c \in Held(hh) THEN Cardinality(Held(hh)) ELSE Cardinality(Held(hh)) + 1
      BY <3>1, <2>1, FS_AddElement
    <3>3. m + 1 = n + (IF c \in Held(hh) THEN 1 ELSE 0)
      BY <2>2, <2>3
    <3>4. CASE c \in Held(hh)
      BY <3>2, <3>3, <3>4, <2>1, <2>n
    <3>5. CASE c \notin Held(hh)
      BY <3>2, <3>3, <3>5, <2>1, <2>n
    <3> QED
      BY <3>4, <3>5
  <2>4. CASE ~x.slot
    <3>1. Held(new) = Held(hh) \ {c}
      BY <2>4, <1>2 DEF Held
    <3>2. Cardinality(Held(new)) = IF c \in Held(hh) THEN Cardinality(Held(hh)) - 1 ELSE Cardinality(Held(hh))
      BY <3>1, <2>1, FS_RemoveElement
    <3>3. m + 0 = n + (IF c \in Held(hh) THEN 1 ELSE 0)
      BY <2>2, <2>4
    <3>4. CASE c \in Held(hh)
      BY <3>2, <3>3, <3>4, <2>1, <2>n
    <3>5. CASE c \notin Held(hh)
      BY <3>2, <3>3, <3>5, <2>1, <2>n
    <3> QED
      BY <3>4, <3>5
  <2> QED
    BY <2>3, <2>4
<1>5. Tickets(line, new)
  <2>1. gr \in Seq(Ticket) /\ qu \in Seq(Ticket) /\ Tickets(line, hh)
    BY DEF Accounts
  <2>2. line \in Seq(Ticket)
    BY ONLY <2>1, ConcatProperties
  <2>3. \A i \in 1..Len(line) : line[i] = <<line[i][1], line[i][2]>> /\ line[i][1] \in Child /\ line[i][2] \in Nat
    BY <2>2, ElementOfSeq DEF Ticket
  <2>4. x.slot => \A i \in 1..Len(line) : line[i] # <<c, x.gen>>
    OBVIOUS
  <2> HIDE DEF line, new
  <2>5. ASSUME NEW i \in 1..Len(line)
        PROVE  /\ line[i][2] \in 1..new[line[i][1]].gen
               /\ new[line[i][1]].slot => line[i][2] # new[line[i][1]].gen
    <3>1. /\ line[i][2] \in 1..hh[line[i][1]].gen
          /\ hh[line[i][1]].slot => line[i][2] # hh[line[i][1]].gen
      BY <2>1 DEF Tickets
    <3>2. CASE line[i][1] = c
      BY <3>1, <3>2, <1>1, <1>2, <2>3, <2>4
    <3>3. CASE line[i][1] # c
      BY <3>1, <3>3, <1>2, <2>3
    <3> QED
      BY <3>2, <3>3
  <2> QED
    BY <2>1, <2>5 DEF Tickets
<1>6. ac = Len(gr) + m + Cardinality(Held(new))
  <2>1. /\ ac = Len(gr) + n + Cardinality(Held(hh)) /\ n \in Nat /\ gr \in Seq(Ticket)
    BY DEF Accounts
  <2>2. Len(gr) \in Nat /\ Cardinality(Held(hh)) \in Nat /\ Cardinality(Held(new)) \in Nat
    BY <2>1, HeldFinite, LenProperties DEF Held
  <2> HIDE DEF new
  <2> QED
    BY <2>1, <2>2, <1>4
<1> HIDE DEF new
<1>7. Accounts(new, gr, qu, ac, m)
  BY <1>2, <1>3, <1>5, <1>6 DEF Accounts
<1> QED
  BY <1>7 DEF new

(* A new ticket enters the line at its end. *)
LEMMA Enter ==
  ASSUME NEW hh, Accounts(hh, granted, queue, active, 0),
         NEW c \in Child, NEW g \in Nat \ {0}, g <= hh[c].gen, ~hh[c].slot,
         \A i \in 1..Len(granted \o queue) : (granted \o queue)[i] # <<c, g>>,
         Acquire(c, g)
  PROVE  Accounts(hh, granted', queue', active', 0)
<1> DEFINE line == granted \o queue
           t == <<c, g>>
<1>1. /\ granted \in Seq(Ticket) /\ queue \in Seq(Ticket) /\ t \in Ticket
      /\ hh \in [Child -> Handle] /\ Tickets(line, hh)
      /\ active \in 0..MaxSlots /\ MaxSlots \in Nat \ {0}
      /\ queue # <<>> => active = MaxSlots
      /\ active = Len(granted) + 0 + Cardinality(Held(hh))
  BY SubagentsAssumption DEF Accounts, Ticket
<1>2. /\ line \in Seq(Ticket) /\ Len(granted) \in Nat /\ Len(line) \in Nat
      /\ Cardinality(Held(hh)) \in Nat
  <2>1. line \in Seq(Ticket)
    BY <1>1, ConcatProperties
  <2> QED
    BY <2>1, <1>1, LenProperties, HeldFinite DEF Held
<1>3. granted' \in Seq(Ticket) /\ queue' \in Seq(Ticket) /\ granted' \o queue' = Append(line, t)
  <2>1. CASE active < MaxSlots
    <3>1. queue = <<>> /\ granted' = Append(granted, t) /\ queue' = <<>>
      BY <1>1, <2>1 DEF Acquire
    <3>2. granted' \in Seq(Ticket)
      BY <1>1, <3>1, AppendProperties
    <3>3. granted' \o queue' = granted' /\ line = granted
      BY <1>1, <3>1, <3>2, ConcatEmptySeq
    <3> QED
      BY <3>1, <3>2, <3>3, <1>1
  <2>2. CASE ~(active < MaxSlots)
    <3>1. queue' = Append(queue, t) /\ granted' = granted
      BY <2>2 DEF Acquire
    <3>2. queue' \in Seq(Ticket) /\ queue' = queue \o <<t>> /\ <<t>> \in Seq(Ticket)
      <4> HIDE DEF t
      <4>1. queue \in Seq(Ticket) /\ t \in Ticket
        BY <1>1
      <4>2. Append(queue, t) \in Seq(Ticket) /\ Append(queue, t) = queue \o <<t>>
        BY <4>1, AppendProperties, AppendIsConcat
      <4>3. <<t>> \in Seq(Ticket)
        BY <4>1
      <4> QED
        BY <3>1, <4>2, <4>3
    <3>3. (granted \o queue) \o <<t>> = granted \o (queue \o <<t>>)
      <4>1. granted \in Seq(Ticket) /\ queue \in Seq(Ticket) /\ <<t>> \in Seq(Ticket)
        BY <1>1, <3>2
      <4> QED
        BY ONLY <4>1, ConcatAssociative
    <3>4. Append(line, t) = line \o <<t>>
      BY <1>1, <1>2, AppendIsConcat
    <3> QED
      BY <3>1, <3>2, <3>3, <3>4, <1>1
  <2> QED
    BY <2>1, <2>2
<1>4. /\ active' \in 0..MaxSlots
      /\ active' = Len(granted') + 0 + Cardinality(Held(hh))
      /\ queue' # <<>> => active' = MaxSlots
  <2>1. CASE active < MaxSlots
    <3>1. queue = <<>> /\ granted' = Append(granted, t) /\ queue' = <<>> /\ active' = active + 1
      BY <1>1, <2>1 DEF Acquire
    <3>2. Len(granted') = Len(granted) + 1
      BY <1>1, <3>1, AppendProperties
    <3> QED
      BY <3>1, <3>2, <2>1, <1>1, <1>2
  <2>2. CASE ~(active < MaxSlots)
    BY <2>2, <1>1 DEF Acquire
  <2> QED
    BY <2>1, <2>2
<1>5. Tickets(Append(line, t), hh)
  <2> DEFINE new == Append(line, t)
  <2>1. /\ Len(new) = Len(line) + 1 /\ new[Len(line) + 1] = t
        /\ \A i \in 1..Len(line) : new[i] = line[i]
    BY <1>1, <1>2, AppendProperties
  <2>2. \A i \in 1..Len(line) : line[i] # t
    OBVIOUS
  <2>3. /\ \A i, j \in 1..Len(line) : line[i] = line[j] => i = j
        /\ \A i \in 1..Len(line) :
             /\ line[i][2] \in 1..hh[line[i][1]].gen
             /\ hh[line[i][1]].slot => line[i][2] # hh[line[i][1]].gen
    BY <1>1 DEF Tickets
  <2>4. t[1] = c /\ t[2] = g /\ g \in 1..hh[c].gen /\ ~hh[c].slot
    BY <1>1 DEF Handle
  <2> HIDE DEF new, line, t
  <2>5. \A i \in 1..Len(new) : i \in 1..Len(line) \/ i = Len(line) + 1
    BY <2>1, <1>2
  <2>6. \A i, j \in 1..Len(new) : new[i] = new[j] => i = j
    BY <2>1, <2>2, <2>3, <2>5
  <2>7. \A i \in 1..Len(new) :
             /\ new[i][2] \in 1..hh[new[i][1]].gen
             /\ hh[new[i][1]].slot => new[i][2] # hh[new[i][1]].gen
    BY <2>1, <2>3, <2>4, <2>5
  <2>8. Tickets(new, hh)
    BY <2>6, <2>7 DEF Tickets
  <2> QED
    BY <2>8 DEF new
<1> QED
  BY <1>3, <1>4, <1>5 DEF Accounts

(* No ticket of a child is for the generation of a slot it holds, or for   *)
(* one it has not reached.                                                 *)
LEMMA NoTicket ==
  ASSUME NEW hh, NEW gr, NEW qu, NEW ac, NEW n, Accounts(hh, gr, qu, ac, n),
         NEW c \in Child, NEW g,
         (g = hh[c].gen /\ hh[c].slot) \/ (g \in Nat /\ g > hh[c].gen)
  PROVE  \A i \in 1..Len(gr \o qu) : (gr \o qu)[i] # <<c, g>>
<1> SUFFICES ASSUME NEW i \in 1..Len(gr \o qu), (gr \o qu)[i] = <<c, g>> PROVE FALSE
  OBVIOUS
<1> DEFINE line == gr \o qu
<1>1. line[i][1] = c /\ line[i][2] = g /\ i \in 1..Len(line)
  OBVIOUS
<1> HIDE DEF line
<1>2. Tickets(line, hh) /\ hh[c].gen \in Nat
  BY DEF Accounts, line, Handle
<1> QED
  BY <1>1, <1>2 DEF Tickets

-----------------------------------------------------------------------------
(* Handles *)

LEMMA SettledOK ==
  ASSUME NEW x \in Handle, NEW how \in Over
  PROVE  /\ HandleOK(Settled(x, how))
         /\ ~Settled(x, how).slot
         /\ Settled(x, how).gen = x.gen
  BY DEF Handle, HandleOK, Settled, Over, Status

LEMMA SettleAccounts ==
  ASSUME NEW c \in Child, NEW x \in Handle, NEW was, NEW how \in Over, NEW rest, NEW n,
         Accounts(h, rest, queue, active, n), x.gen >= h[c].gen,
         n + (IF h[c].slot THEN 1 ELSE 0) = IF x.slot THEN 1 ELSE 0,
         Settle(c, x, was, how, rest)
  PROVE  Accounts(h', granted', queue', active', 0)
<1> DEFINE m == IF x.slot THEN 1 ELSE 0
           y == Settled(x, how)
<1>1. /\ h' = [h EXCEPT ![c] = y] /\ ReleaseSlots(m, rest)
  BY DEF Settle
<1>2. HandleOK(y) /\ ~y.slot /\ y.gen = x.gen
  BY SettledOK
<1>3. m \in Nat /\ m + (IF y.slot THEN 1 ELSE 0) = n + (IF h[c].slot THEN 1 ELSE 0)
  BY <1>2
<1> HIDE DEF m, y
<1>4. Accounts([h EXCEPT ![c] = y], rest, queue, active, m)
  BY <1>2, <1>3, SetHandle
<1>5. Accounts([h EXCEPT ![c] = y], granted', queue', active', 0)
  BY <1>1, <1>4, Release
<1> QED
  BY <1>1, <1>5

LEMMA PromptAccounts ==
  ASSUME NEW c \in Child, NEW x, HandleOK(x), NEW was, NEW rest, NEW n,
         Accounts(h, rest, queue, active, n), x.gen >= h[c].gen,
         n + (IF h[c].slot THEN 1 ELSE 0) = IF x.slot THEN 1 ELSE 0,
         x.slot => \A i \in 1..Len(rest \o queue) : (rest \o queue)[i] # <<c, x.gen>>,
         Prompt(c, x, was, rest)
  PROVE  Accounts(h', granted', queue', active', 0)
<1>1. CASE x.run # 0
  <2>1. Settle(c, x, was, "failed", rest) /\ "failed" \in Over
    BY <1>1 DEF Prompt, Over
  <2> QED
    BY <2>1, SettleAccounts DEF HandleOK
<1>2. CASE ~(x.run # 0)
  <2> DEFINE y == [x EXCEPT !.run = x.gen]
  <2>1. /\ h' = [h EXCEPT ![c] = y] /\ granted' = rest /\ active' = active /\ queue' = queue
    BY <1>2 DEF Prompt
  <2>2. HandleOK(y) /\ y.slot = x.slot /\ y.gen = x.gen
    BY DEF HandleOK, Handle
  <2>3. 0 + (IF y.slot THEN 1 ELSE 0) = n + (IF h[c].slot THEN 1 ELSE 0)
    BY <2>2
  <2> HIDE DEF y
  <2>4. Accounts([h EXCEPT ![c] = y], rest, queue, active, 0)
    BY <2>2, <2>3, SetHandle
  <2> QED
    BY <2>1, <2>4
<1> QED
  BY <1>1, <1>2

LEMMA NewTurnAccounts ==
  ASSUME NEW c \in Child, NEW x \in Handle, Accounts(h, granted, queue, active, 0),
         ~x.slot, ~h[c].slot, x.gen = h[c].gen,
         NewTurn(c, x)
  PROVE  Accounts(h', granted', queue', active', 0)
<1> DEFINE y == [x EXCEPT !.gen = @ + 1, !.turn = @ + 1, !.settled = FALSE, !.retry = "none",
                          !.retired = FALSE, !.stalls = 0, !.st = "pending",
                          !.replaced = @ \/ ~x.settled]
           new == [h EXCEPT ![c] = y]
<1>1. h' = new /\ Acquire(c, x.gen + 1)
  BY DEF NewTurn
<1>2. HandleOK(y) /\ ~y.slot /\ y.gen = x.gen + 1 /\ x.gen \in Nat
  <2>1. /\ x.gen \in Nat /\ x.turn \in Nat /\ ~x.slot
        /\ y \in Handle
    <3>1. x.gen \in Nat /\ x.turn \in Nat
      BY DEF Handle
    <3>2. /\ x.gen + 1 \in Nat /\ x.turn + 1 \in Nat /\ "pending" \in Status
          /\ (x.replaced \/ ~x.settled) \in BOOLEAN
      BY <3>1 DEF Status
    <3> QED
      BY <3>1, <3>2 DEF Handle
  <2>2. /\ y.slot = x.slot /\ y.settled = FALSE /\ y.st = "pending"
        /\ y.gen = x.gen + 1
    BY DEF Handle
  <2> HIDE DEF y
  <2> QED
    BY <2>1, <2>2 DEF HandleOK, Over
<1>3. Accounts(new, granted, queue, active, 0)
  <2> HIDE DEF y
  <2>1. 0 + (IF y.slot THEN 1 ELSE 0) = 0 + (IF h[c].slot THEN 1 ELSE 0)
    BY <1>2
  <2> QED
    BY <1>2, <2>1, SetHandle
<1>4. \A i \in 1..Len(granted \o queue) : (granted \o queue)[i] # <<c, x.gen + 1>>
  <2>1. x.gen + 1 \in Nat /\ x.gen + 1 > h[c].gen
    BY <1>2
  <2> QED
    BY <2>1, NoTicket
<1>5. new[c] = y
  BY DEF Accounts
<1> HIDE DEF y, new
<1>6. x.gen + 1 \in Nat \ {0} /\ x.gen + 1 <= new[c].gen /\ ~new[c].slot
  BY <1>2, <1>5
<1>7. Accounts(new, granted', queue', active', 0)
  BY <1>1, <1>3, <1>4, <1>6, Enter
<1> QED
  BY <1>1, <1>7

-----------------------------------------------------------------------------
(* The invariant *)

LEMMA InitInv == Init => Inv
<1> SUFFICES ASSUME Init PROVE Inv
  OBVIOUS
<1> USE SubagentsAssumption
<1>1. Unstarted \in Handle /\ HandleOK(Unstarted) /\ ~Unstarted.slot
  BY DEF Unstarted, Handle, HandleOK, Over, Status
<1>2. h \in [Child -> Handle] /\ \A c \in Child : h[c] = Unstarted
  BY <1>1 DEF Init
<1>3. /\ granted = <<>> /\ queue = <<>> /\ <<>> \in Seq(Ticket) /\ <<>> \in Seq(Child) /\ Len(<<>>) = 0
  BY EmptySeq DEF Init
<1>4. Cardinality(Held(h)) = 0
  <2>1. Held(h) = {}
    BY <1>1, <1>2 DEF Held
  <2> QED
    BY <2>1, FS_EmptySet
<1>5. Tickets(granted \o queue, h)
  <2>1. granted \o queue = <<>>
    BY <1>3, ConcatEmptySeq
  <2> QED
    BY <2>1, <1>3 DEF Tickets
<1>6. Accounts(h, granted, queue, active, 0)
  BY <1>1, <1>2, <1>3, <1>4, <1>5 DEF Accounts, Init
<1>7. Types
  <2>1. /\ next \in 1..NChildren + 1 /\ idle \in 0..Workers /\ waiting \subseteq Child
        /\ failed \in BOOLEAN /\ finalized \in BOOLEAN /\ listed \in BOOLEAN
        /\ spent \in 0..Budget /\ active \in 0..MaxSlots
    <3>1. next = 1 /\ idle = Workers /\ waiting = {} /\ spent = 0 /\ active = 0
      BY DEF Init
    <3>2. next \in 1..NChildren + 1 /\ idle \in 0..Workers /\ spent \in 0..Budget /\ active \in 0..MaxSlots
      BY <3>1
    <3>3. failed = FALSE /\ finalized = FALSE /\ listed = TRUE
      BY DEF Init
    <3> QED
      BY <3>1, <3>2, <3>3
  <2>2. rec \in [Child -> Status]
    BY DEF Init, Status
  <2>3. echo \in Seq(Child) /\ queue \in Seq(Child \X Nat) /\ granted \in Seq(Child \X Nat)
    BY <1>3 DEF Init, Ticket
  <2> QED
    BY <1>2, <2>1, <2>2, <2>3 DEF Types, Ticket
<1> QED
  BY <1>2, <1>6, <1>7 DEF Inv, Unsubmitted

(* A step that changes one started handle and not the pool. *)
LEMMA HandleStep ==
  ASSUME Inv, NEW c \in Child, h[c] # Unstarted,
         \A d \in Child \ {c} : h'[d] = h[d],
         Accounts(h', granted', queue', active', 0),
         rec' \in [Child -> Status], echo' \in Seq(Child),
         UNCHANGED <<poolVars, listed, spent>>
  PROVE  Inv'
<1>1. Types'
  BY DEF Inv, Types, Accounts, poolVars, Ticket
<1>2. Unsubmitted'
  BY DEF Inv, Unsubmitted, poolVars
<1> QED
  BY <1>1, <1>2 DEF Inv

LEMMA SettleEffects ==
  ASSUME Inv, NEW c \in Child, NEW x, NEW was \in Status, NEW how \in Over, NEW rest,
         Settle(c, x, was, how, rest)
  PROVE  /\ rec' \in [Child -> Status] /\ echo' \in Seq(Child)
         /\ \A d \in Child \ {c} : h'[d] = h[d]
<1>1. rec' \in [Child -> Status]
  BY DEF Inv, Types, Settle, SettleChild, Status
<1>2. echo' \in Seq(Child)
  BY AppendProperties DEF Inv, Types, Settle
<1>3. \A d \in Child \ {c} : h'[d] = h[d]
  BY DEF Inv, Types, Settle
<1> QED
  BY <1>1, <1>2, <1>3

LEMMA PromptEffects ==
  ASSUME Inv, NEW c \in Child, NEW x, NEW was \in Status, NEW rest,
         Prompt(c, x, was, rest)
  PROVE  /\ rec' \in [Child -> Status] /\ echo' \in Seq(Child)
         /\ \A d \in Child \ {c} : h'[d] = h[d]
<1>1. CASE x.run # 0
  <2>1. Settle(c, x, was, "failed", rest) /\ "failed" \in Over
    BY <1>1 DEF Prompt, Over
  <2> QED
    BY <2>1, SettleEffects
<1>2. CASE ~(x.run # 0)
  BY <1>2 DEF Prompt, Inv, Types
<1> QED
  BY <1>1, <1>2

(* Facts about a handle in a state that satisfies the invariant. *)
LEMMA HandleFacts ==
  ASSUME Inv, NEW c \in Child
  PROVE  /\ h[c] \in Handle /\ HandleOK(h[c])
         /\ rec[c] \in Status
         /\ Accounts(h, granted, queue, active, 0)
         /\ h \in [Child -> Handle]
         /\ h[c].gen \in Nat
         /\ h[c].slot \in BOOLEAN
  BY DEF Inv, Types, Accounts, Handle

(* A callback settles the turn of a child whose slot is as it was. *)
LEMMA SettleStep ==
  ASSUME Inv, NEW c \in Child, h[c] # Unstarted, NEW x \in Handle, NEW how \in Over,
         x.gen >= h[c].gen, x.slot = h[c].slot,
         Settle(c, x, rec[c], how, granted), UNCHANGED <<poolVars, listed, spent>>
  PROVE  Inv'
<1>1. 0 + (IF h[c].slot THEN 1 ELSE 0) = IF x.slot THEN 1 ELSE 0
  BY HandleFacts
<1>2. Accounts(h', granted', queue', active', 0)
  BY <1>1, HandleFacts, SettleAccounts
<1>3. /\ rec' \in [Child -> Status] /\ echo' \in Seq(Child)
      /\ \A d \in Child \ {c} : h'[d] = h[d]
  BY HandleFacts, SettleEffects
<1> QED
  BY <1>2, <1>3, HandleStep

(* A callback changes fields of a handle and neither its slot nor its turn. *)
LEMMA FieldStep ==
  ASSUME Inv, NEW c \in Child, h[c] # Unstarted, NEW x, HandleOK(x),
         x.gen = h[c].gen, x.slot = h[c].slot,
         h' = [h EXCEPT ![c] = x], UNCHANGED <<rec, echo, slotVars>>,
         UNCHANGED <<poolVars, listed, spent>>
  PROVE  Inv'
<1>1. x.slot => \A i \in 1..Len(granted \o queue) : (granted \o queue)[i] # <<c, x.gen>>
  BY HandleFacts, NoTicket
<1>2. 0 + (IF x.slot THEN 1 ELSE 0) = 0 + (IF h[c].slot THEN 1 ELSE 0) /\ x.gen >= h[c].gen
  BY HandleFacts
<1>3. Accounts(h', granted, queue, active, 0)
  BY <1>1, <1>2, HandleFacts, SetHandle
<1>4. Accounts(h', granted', queue', active', 0)
  BY <1>3 DEF slotVars
<1>5. /\ rec' \in [Child -> Status] /\ echo' \in Seq(Child)
      /\ \A d \in Child \ {c} : h'[d] = h[d]
  BY HandleFacts DEF Inv, Types
<1> QED
  BY <1>4, <1>5, HandleStep

(* A callback prompts a child whose slot is as it was. *)
LEMMA PromptStep ==
  ASSUME Inv, NEW c \in Child, h[c] # Unstarted, NEW x, HandleOK(x),
         x.gen >= h[c].gen, x.gen \in Nat, x.slot = h[c].slot,
         Prompt(c, x, rec[c], granted), UNCHANGED <<poolVars, listed, spent>>
  PROVE  Inv'
<1>1. x.slot => \A i \in 1..Len(granted \o queue) : (granted \o queue)[i] # <<c, x.gen>>
  <2>1. x.slot => (x.gen = h[c].gen /\ h[c].slot) \/ (x.gen \in Nat /\ x.gen > h[c].gen)
    BY HandleFacts
  <2> QED
    BY <2>1, HandleFacts, NoTicket
<1>2. 0 + (IF h[c].slot THEN 1 ELSE 0) = IF x.slot THEN 1 ELSE 0
  BY HandleFacts
<1>3. Accounts(h', granted', queue', active', 0)
  BY <1>1, <1>2, HandleFacts, PromptAccounts
<1>4. /\ rec' \in [Child -> Status] /\ echo' \in Seq(Child)
      /\ \A d \in Child \ {c} : h'[d] = h[d]
  BY HandleFacts, PromptEffects
<1> QED
  BY <1>3, <1>4, HandleStep

LEMMA NewTurnStep ==
  ASSUME Inv, NEW c \in Child, h[c] # Unstarted, NEW x \in Handle,
         ~x.slot, ~h[c].slot, x.gen = h[c].gen,
         NewTurn(c, x), UNCHANGED <<poolVars, listed, spent>>
  PROVE  Inv'
<1>1. Accounts(h', granted', queue', active', 0)
  BY HandleFacts, NewTurnAccounts
<1>2. /\ rec' \in [Child -> Status] /\ echo' \in Seq(Child)
      /\ \A d \in Child \ {c} : h'[d] = h[d]
  BY DEF Inv, Types, NewTurn
<1> QED
  BY <1>1, <1>2, HandleStep

-----------------------------------------------------------------------------
(* The callbacks of one child *)

LEMMA ChildSteps ==
  ASSUME Inv, ~Replaced', NEW c \in Child,
         \/ SessionCreated(c) \/ RunEnds(c) \/ Timeout(c) \/ Stall(c)
         \/ RetryFires(c) \/ RetryDrained(c)
         \/ Interrupt(c) \/ Resume(c) \/ ResumeDrained(c)
  PROVE  Inv'
<1>h. /\ h[c] \in Handle /\ HandleOK(h[c]) /\ h[c].gen \in Nat /\ h[c].slot \in BOOLEAN
  BY HandleFacts
<1>o. "failed" \in Over /\ "interrupted" \in Over /\ "completed" \in Over
  BY DEF Over
<1>u. Unstarted.session = "none" /\ Unstarted.run = 0 /\ ~Unstarted.slot /\ Unstarted.retry = "none"
      /\ ~Unstarted.visible /\ Unstarted.drains = 0
  BY DEF Unstarted
<1>1. CASE SessionCreated(c)
  <2>1. h[c] # Unstarted /\ UNCHANGED <<poolVars, listed, spent>>
    BY <1>1, <1>u DEF SessionCreated
  <2>2. CASE Prompt(c, [h[c] EXCEPT !.session = "open", !.visible = TRUE], rec[c], granted)
    <3> DEFINE x == [h[c] EXCEPT !.session = "open", !.visible = TRUE]
    <3>1. HandleOK(x) /\ x.gen = h[c].gen /\ x.slot = h[c].slot
      BY <1>h DEF HandleOK, Handle
    <3>2. Prompt(c, x, rec[c], granted)
      BY <2>2
    <3> HIDE DEF x
    <3> QED
      BY <3>1, <3>2, <2>1, <1>h, PromptStep
  <2>3. CASE Settle(c, [h[c] EXCEPT !.session = "none", !.visible = TRUE], rec[c], "failed", granted)
    <3> DEFINE x == [h[c] EXCEPT !.session = "none", !.visible = TRUE]
    <3>1. x \in Handle /\ x.gen = h[c].gen /\ x.slot = h[c].slot
      BY <1>h DEF Handle
    <3>2. Settle(c, x, rec[c], "failed", granted)
      BY <2>3
    <3> HIDE DEF x
    <3> QED
      BY <3>1, <3>2, <2>1, <1>h, <1>o, SettleStep
  <2> QED
    BY <1>1, <2>2, <2>3 DEF SessionCreated
<1>2. CASE RunEnds(c)
  <2> DEFINE x == [h[c] EXCEPT !.run = 0]
  <2>1. h[c] # Unstarted /\ UNCHANGED <<poolVars, listed, spent>>
    BY <1>2, <1>u DEF RunEnds
  <2>2. HandleOK(x) /\ x \in Handle /\ x.gen = h[c].gen /\ x.slot = h[c].slot
    BY <1>h DEF HandleOK, Handle
  <2>3. \/ \E how \in {"completed", "failed"} : Settle(c, x, rec[c], how, granted)
        \/ h' = [h EXCEPT ![c] = x] /\ UNCHANGED <<rec, echo, slotVars>>
    BY <1>2 DEF RunEnds
  <2> HIDE DEF x
  <2>4. CASE \E how \in {"completed", "failed"} : Settle(c, x, rec[c], how, granted)
    BY <2>1, <2>2, <2>4, <1>h, <1>o, SettleStep
  <2>5. CASE h' = [h EXCEPT ![c] = x] /\ UNCHANGED <<rec, echo, slotVars>>
    BY <2>1, <2>2, <2>5, FieldStep
  <2> QED
    BY <2>3, <2>4, <2>5
<1>3. CASE Timeout(c)
  <2> DEFINE x == [h[c] EXCEPT !.abort = TRUE]
  <2>1. h[c] # Unstarted /\ UNCHANGED <<poolVars, listed, spent>>
    BY <1>3, <1>u DEF Timeout, Prompted
  <2>2. x \in Handle /\ x.gen = h[c].gen /\ x.slot = h[c].slot
    BY <1>h DEF Handle
  <2>3. Settle(c, x, rec[c], "interrupted", granted)
    BY <1>3 DEF Timeout
  <2> HIDE DEF x
  <2> QED
    BY <2>1, <2>2, <2>3, <1>h, <1>o, SettleStep
<1>4. CASE Stall(c)
  <2> DEFINE x == [h[c] EXCEPT !.stalls = @ + 1, !.retired = TRUE, !.abort = TRUE]
             y == [x EXCEPT !.retry = "delay"]
  <2>1. h[c] # Unstarted /\ UNCHANGED <<poolVars, listed, spent>>
    BY <1>4, <1>u DEF Stall, Prompted
  <2>2. x \in Handle /\ x.gen = h[c].gen /\ x.slot = h[c].slot
    <3>1. h[c].stalls + 1 \in Nat
      BY <1>h DEF Handle
    <3> QED
      BY <3>1, <1>h DEF Handle
  <2>y. HandleOK(y) /\ y.gen = h[c].gen /\ y.slot = h[c].slot
    <3>1. HandleOK(x)
      <4>1. x.settled = h[c].settled /\ x.st = h[c].st
        BY <1>h DEF Handle
      <4> HIDE DEF x
      <4> QED
        BY <4>1, <2>2, <1>h DEF HandleOK
    <3> HIDE DEF x
    <3> QED
      BY <3>1, <2>2 DEF HandleOK, Handle
  <2>3. \/ Settle(c, x, rec[c], "failed", granted)
        \/ h' = [h EXCEPT ![c] = y] /\ UNCHANGED <<rec, echo, slotVars>>
    BY <1>4 DEF Stall
  <2> HIDE DEF x, y
  <2>4. CASE Settle(c, x, rec[c], "failed", granted)
    BY <2>1, <2>2, <2>4, <1>h, <1>o, SettleStep
  <2>5. CASE h' = [h EXCEPT ![c] = y] /\ UNCHANGED <<rec, echo, slotVars>>
    BY <2>1, <2>y, <2>5, FieldStep
  <2> QED
    BY <2>3, <2>4, <2>5
<1>5. ASSUME Retry(c), h[c] # Unstarted, UNCHANGED <<poolVars, listed, spent>> PROVE Inv'
  <2> DEFINE x == [h[c] EXCEPT !.gen = @ + 1, !.retired = FALSE, !.retry = "none", !.abort = FALSE]
  <2>1. x \in Handle /\ HandleOK(x) /\ x.gen = h[c].gen + 1 /\ x.slot = h[c].slot
    <3>1. h[c].gen + 1 \in Nat
      BY <1>h
    <3>2. x \in Handle
      BY <3>1, <1>h DEF Handle
    <3>3. /\ x.settled = h[c].settled /\ x.st = h[c].st
          /\ x.gen = h[c].gen + 1 /\ x.slot = h[c].slot
      BY <1>h DEF Handle
    <3> HIDE DEF x
    <3> QED
      BY <3>2, <3>3, <1>h DEF HandleOK
  <2>2. \/ Prompt(c, x, rec[c], granted)
        \/ Settle(c, x, rec[c], "interrupted", granted)
    BY <1>5 DEF Retry
  <2> HIDE DEF x
  <2>3. x.gen \in Nat /\ x.gen >= h[c].gen
    BY <2>1, <1>h
  <2>4. CASE Prompt(c, x, rec[c], granted)
    BY <2>1, <2>3, <2>4, <1>5, PromptStep
  <2>5. CASE Settle(c, x, rec[c], "interrupted", granted)
    BY <2>1, <2>3, <2>5, <1>5, <1>o, SettleStep
  <2> QED
    BY <2>2, <2>4, <2>5
<1>6. CASE RetryFires(c)
  <2> DEFINE x == [h[c] EXCEPT !.retry = "drain", !.abort = FALSE]
  <2>1. h[c] # Unstarted /\ UNCHANGED <<poolVars, listed, spent>>
    BY <1>6, <1>u DEF RetryFires
  <2>2. HandleOK(x) /\ x.gen = h[c].gen /\ x.slot = h[c].slot
    BY <1>h DEF HandleOK, Handle
  <2>3. \/ h' = [h EXCEPT ![c] = x] /\ UNCHANGED <<rec, echo, slotVars>>
        \/ Retry(c)
    BY <1>6 DEF RetryFires
  <2> HIDE DEF x
  <2>4. CASE h' = [h EXCEPT ![c] = x] /\ UNCHANGED <<rec, echo, slotVars>>
    BY <2>1, <2>2, <2>4, FieldStep
  <2> QED
    BY <2>1, <2>3, <2>4, <1>5
<1>7. CASE RetryDrained(c)
  <2>1. h[c] # Unstarted /\ UNCHANGED <<poolVars, listed, spent>>
    BY <1>7, <1>u DEF RetryDrained
  <2>2. CASE Retry(c)
    BY <2>1, <2>2, <1>5
  <2>3. CASE Settle(c, h[c], rec[c], "failed", granted)
    BY <2>1, <2>3, <1>h, <1>o, SettleStep
  <2> QED
    BY <1>7, <2>2, <2>3 DEF RetryDrained
<1>8. CASE Interrupt(c)
  <2>1. h[c] # Unstarted /\ UNCHANGED <<poolVars, listed, spent>>
    BY <1>8, <1>u DEF Interrupt, Reachable
  <2> QED
    BY <2>1, <1>8, <1>h, <1>o, SettleStep DEF Interrupt
<1>9. CASE Resume(c)
  <2> DEFINE x == [h[c] EXCEPT !.abort = FALSE]
             y == [x EXCEPT !.drains = @ + 1]
  <2>1. h[c] # Unstarted /\ UNCHANGED <<poolVars, listed, spent>>
    BY <1>9, <1>u DEF Resume, Reachable
  <2>2. h[c].settled /\ ~h[c].slot
    BY <1>9, <1>h DEF Resume, HandleOK
  <2>3. /\ x \in Handle /\ HandleOK(x) /\ x.gen = h[c].gen /\ x.slot = h[c].slot
    BY <1>h DEF Handle, HandleOK
  <2>y. HandleOK(y) /\ y.gen = h[c].gen /\ y.slot = h[c].slot
    <3> HIDE DEF x
    <3>1. x.drains + 1 \in Nat
      BY <2>3 DEF Handle
    <3> QED
      BY <2>3, <3>1 DEF HandleOK, Handle
  <2>4. \/ h' = [h EXCEPT ![c] = y] /\ UNCHANGED <<rec, echo, slotVars>>
        \/ NewTurn(c, x)
    BY <1>9 DEF Resume
  <2> HIDE DEF x, y
  <2>5. CASE h' = [h EXCEPT ![c] = y] /\ UNCHANGED <<rec, echo, slotVars>>
    BY <2>1, <2>y, <2>5, FieldStep
  <2>6. CASE NewTurn(c, x)
    BY <2>1, <2>2, <2>3, <2>6, NewTurnStep
  <2> QED
    BY <2>4, <2>5, <2>6
<1>10. CASE ResumeDrained(c)
  <2> DEFINE x == [h[c] EXCEPT !.drains = @ - 1]
  <2>1. h[c] # Unstarted /\ UNCHANGED <<poolVars, listed, spent>>
    BY <1>10, <1>u DEF ResumeDrained
  <2>2. /\ x \in Handle /\ HandleOK(x) /\ x.gen = h[c].gen /\ x.slot = h[c].slot
    <3>1. h[c].drains - 1 \in Nat
      BY <1>10, <1>h DEF ResumeDrained, Handle
    <3> QED
      BY <3>1, <1>h DEF HandleOK, Handle
  <2>3. \/ h' = [h EXCEPT ![c] = x] /\ UNCHANGED <<rec, echo, slotVars>>
        \/ NewTurn(c, x)
    BY <1>10 DEF ResumeDrained
  <2> HIDE DEF x
  <2>4. CASE h' = [h EXCEPT ![c] = x] /\ UNCHANGED <<rec, echo, slotVars>>
    BY <2>1, <2>2, <2>4, FieldStep
  <2>5. CASE NewTurn(c, x)
    <3>1. h'[c].replaced = (x.replaced \/ ~x.settled)
      BY <2>2, <2>5, HandleFacts DEF NewTurn, Handle
    <3>2. ~h'[c].replaced
      BY DEF Replaced
    <3>3. ~x.slot /\ ~h[c].slot
      BY <2>2, <3>1, <3>2 DEF HandleOK
    <3> QED
      BY <2>1, <2>2, <2>5, <3>3, NewTurnStep
  <2> QED
    BY <2>3, <2>4, <2>5
<1> QED
  BY <1>1, <1>2, <1>3, <1>4, <1>6, <1>7, <1>8, <1>9, <1>10
-----------------------------------------------------------------------------
(* The pool *)

(* A child that is submitted either fails at once or asks for a slot. *)
LEMMA SubmitEffects ==
  ASSUME Inv, NEW c \in Child, h[c] = Unstarted, Submit(c)
  PROVE  /\ Accounts(h', granted', queue', active', 0)
         /\ \A d \in Child \ {c} : h'[d] = h[d]
         /\ rec' \in [Child -> Status] /\ echo' \in Seq(Child) /\ spent' \in 0..Budget
<1>1. /\ h[c] \in Handle /\ Accounts(h, granted, queue, active, 0) /\ h \in [Child -> Handle]
      /\ h[c].gen = 0 /\ h[c].slot = FALSE /\ h[c].settled = FALSE
      /\ h[c].st = "pending"
  BY HandleFacts DEF Unstarted
<1>2. CASE spent = Budget
  <2> DEFINE x == [h[c] EXCEPT !.visible = TRUE, !.st = "failed", !.turn = 1, !.settled = TRUE]
  <2>1. /\ h' = [h EXCEPT ![c] = x] /\ rec' = [rec EXCEPT ![c] = "failed"]
        /\ echo' = Append(echo, c) /\ UNCHANGED <<spent, slotVars>>
    BY <1>2 DEF Submit
  <2>2. /\ x \in Handle /\ x.gen = 0 /\ x.slot = FALSE
        /\ x.settled = TRUE
    <3>1. "failed" \in Status /\ 1 \in Nat
      BY DEF Status, Over
    <3> QED
      BY <3>1, <1>1 DEF Handle
  <2> HIDE DEF x
  <2>3. HandleOK(x)
    BY <2>2 DEF HandleOK
  <2>4. 0 + (IF x.slot THEN 1 ELSE 0) = 0 + (IF h[c].slot THEN 1 ELSE 0) /\ x.gen >= h[c].gen
    BY <1>1, <2>2
  <2>5. Accounts([h EXCEPT ![c] = x], granted, queue, active, 0)
    BY <1>1, <2>2, <2>3, <2>4, SetHandle
  <2>6. Accounts(h', granted', queue', active', 0)
    BY <2>1, <2>5 DEF slotVars
  <2>7. rec' \in [Child -> Status] /\ echo' \in Seq(Child) /\ spent' \in 0..Budget
    BY <2>1, AppendProperties DEF Inv, Types, Status, Over
  <2> QED
    BY <1>1, <2>1, <2>6, <2>7
<1>3. CASE spent # Budget
  <2> DEFINE x == [h[c] EXCEPT !.gen = 1, !.turn = 1]
             new == [h EXCEPT ![c] = x]
  <2>1. h' = new /\ Acquire(c, 1) /\ spent' = spent + 1 /\ UNCHANGED <<rec, echo>>
    BY <1>3 DEF Submit
  <2>2. /\ x \in Handle /\ x.gen = 1 /\ x.slot = FALSE
        /\ x.settled = FALSE /\ x.st = "pending"
    BY <1>1 DEF Handle
  <2>3. new[c] = x /\ \A d \in Child \ {c} : new[d] = h[d]
    BY <1>1
  <2> HIDE DEF x
  <2>4. HandleOK(x)
    BY <2>2 DEF HandleOK, Over
  <2>5. 0 + (IF x.slot THEN 1 ELSE 0) = 0 + (IF h[c].slot THEN 1 ELSE 0) /\ x.gen >= h[c].gen
    BY <1>1, <2>2
  <2>6. Accounts(new, granted, queue, active, 0)
    <3>1. /\ Accounts(h, granted, queue, active, 0) /\ 0 \in Nat /\ ~x.slot
      BY <1>1, <2>2
    <3> QED
      BY <2>4, <2>5, <3>1, SetHandle
  <2>7. \A i \in 1..Len(granted \o queue) : (granted \o queue)[i] # <<c, 1>>
    <3>1. 1 \in Nat /\ 1 > h[c].gen
      BY <1>1
    <3> QED
      BY <1>1, <3>1, NoTicket
  <2> HIDE DEF new
  <2>8. 1 \in Nat \ {0} /\ 1 <= new[c].gen /\ ~new[c].slot
    BY <2>2, <2>3
  <2>9. Accounts(new, granted', queue', active', 0)
    BY <2>1, <2>6, <2>7, <2>8, Enter
  <2>10. rec' \in [Child -> Status] /\ echo' \in Seq(Child) /\ spent' \in 0..Budget
    BY <1>3, <2>1, SubagentsAssumption DEF Inv, Types
  <2> QED
    BY <2>1, <2>3, <2>9, <2>10
<1> QED
  BY <1>2, <1>3

LEMMA TakeTaskStep == Inv /\ TakeTask => Inv'
<1> SUFFICES ASSUME Inv, TakeTask PROVE Inv'
  OBVIOUS
<1>1. /\ Types /\ Unsubmitted /\ Accounts(h, granted, queue, active, 0)
      /\ UNCHANGED <<finalized, listed>>
      /\ next \in 1..NChildren + 1 /\ NChildren \in Nat \ {0}
  BY SubagentsAssumption DEF Inv, Types, TakeTask
<1>2. CASE /\ next' = NChildren + 1
           /\ failed' = (failed \/ (next <= NChildren /\ ~listed))
           /\ UNCHANGED <<waiting, echo, rec, spent, slotVars, h>>
  <2>1. Unsubmitted'
    BY <1>1, <1>2 DEF Unsubmitted, Child
  <2>2. Accounts(h', granted', queue', active', 0)
    BY <1>1, <1>2 DEF slotVars
  <2>3. failed' \in BOOLEAN
    BY <1>2
  <2>4. Types'
    BY <1>1, <1>2, <2>3 DEF Types, slotVars
  <2> QED
    BY <2>1, <2>2, <2>4 DEF Inv
<1>3. ASSUME NEW c, c = next, c <= NChildren, Submit(c) PROVE Inv'
  <2>1. c \in Child /\ c + 1 \in 1..NChildren + 1 /\ c \in Nat
    BY <1>1, <1>3 DEF Child
  <2>2. h[c] = Unstarted
    BY <1>1, <1>3, <2>1 DEF Unsubmitted, Child
  <2>3. next' = c + 1 /\ waiting' = waiting \cup {c} /\ UNCHANGED failed
    BY <1>3 DEF Submit
  <2>4. /\ Accounts(h', granted', queue', active', 0)
        /\ \A d \in Child \ {c} : h'[d] = h[d]
        /\ rec' \in [Child -> Status] /\ echo' \in Seq(Child) /\ spent' \in 0..Budget
    BY <1>3, <2>1, <2>2, SubmitEffects
  <2>5. ASSUME NEW d \in Child, d >= next' PROVE h'[d] = Unstarted
    <3>1. d # c /\ d >= next
      BY <1>3, <2>1, <2>3, <2>5 DEF Child
    <3> QED
      BY <3>1, <2>4, <1>1 DEF Unsubmitted
  <2>6. Unsubmitted'
    BY <2>5 DEF Unsubmitted
  <2>7. Types'
    BY <1>1, <2>1, <2>3, <2>4 DEF Types, Accounts, Ticket
  <2> QED
    BY <2>4, <2>6, <2>7 DEF Inv
<1> QED
  BY <1>2, <1>3 DEF TakeTask

(* The pool's own steps leave the handles and the slots alone. *)
LEMMA ReportStep == Inv /\ Report => Inv'
<1> SUFFICES ASSUME Inv, Report PROVE Inv'
  OBVIOUS
<1>1. failed' \in BOOLEAN /\ waiting' \subseteq Child
  BY DEF Report, Inv, Types
<1>2. echo' \in Seq(Child)
  BY HeadTailProperties DEF Report, Inv, Types
<1>3. Types'
  BY <1>1, <1>2 DEF Report, Inv, Types, slotVars
<1>4. Unsubmitted' /\ Accounts(h', granted', queue', active', 0)
  BY DEF Report, Inv, Unsubmitted, slotVars
<1> QED
  BY <1>3, <1>4 DEF Inv

LEMMA FinalizeStep == Inv /\ FinalizeRun => Inv'
<1> SUFFICES ASSUME Inv, FinalizeRun PROVE Inv'
  OBVIOUS
<1>1. rec' \in [Child -> Status]
  BY DEF FinalizeRun, FinalRecord, Inv, Types, Status, Over
<1>2. Types'
  BY <1>1 DEF FinalizeRun, Inv, Types, slotVars
<1>3. Unsubmitted' /\ Accounts(h', granted', queue', active', 0)
  BY DEF FinalizeRun, Inv, Unsubmitted, slotVars
<1> QED
  BY <1>2, <1>3 DEF Inv
-----------------------------------------------------------------------------
(* Admission *)

LEMMA AdmitStep == Inv /\ Admit => Inv'
<1> SUFFICES ASSUME Inv, Admit PROVE Inv'
  OBVIOUS
<1> DEFINE c == Head(granted)[1]
           g == Head(granted)[2]
           rest == Tail(granted)
           stale == h[c].gen # g \/ h[c].settled
           y == [h[c] EXCEPT !.slot = TRUE, !.st = "running"]
           v == [y EXCEPT !.visible = listed]
           w == [y EXCEPT !.session = "creating"]
<1>1. Accounts(h, granted, queue, active, 0) /\ granted # <<>> /\ UNCHANGED <<poolVars, listed, spent>>
  BY DEF Inv, Admit
<1>2. /\ Accounts(h, rest, queue, active, 1)
      /\ c \in Child /\ g \in 1..h[c].gen
      /\ h[c].slot => g # h[c].gen
      /\ \A i \in 1..Len(rest \o queue) : (rest \o queue)[i] # <<c, g>>
  <2> HIDE DEF y, v, w
  <2>1. /\ Accounts(h, Tail(granted), queue, active, 0 + 1)
        /\ Head(granted)[1] \in Child
        /\ Head(granted)[2] \in 1..h[Head(granted)[1]].gen
        /\ h[Head(granted)[1]].slot => Head(granted)[2] # h[Head(granted)[1]].gen
        /\ \A i \in 1..Len(Tail(granted) \o queue) :
             (Tail(granted) \o queue)[i] # <<Head(granted)[1], Head(granted)[2]>>
    <3> HIDE DEF c, g, rest
    <3> QED
      BY <1>1, TakeFront, Zenon
  <2>2. 0 + 1 = 1
    OBVIOUS
  <2> QED
    BY <2>1, <2>2, Zenon
<1>3. \/ stale /\ ReleaseSlots(1, rest) /\ UNCHANGED <<h, echo>>
         /\ rec' \in {rec, [rec EXCEPT ![c] = IF h[c].settled THEN h[c].st ELSE "running"]}
      \/ ~stale /\ Settle(c, v, rec[c], "interrupted", rest)
      \/ ~stale /\ h' = [h EXCEPT ![c] = w] /\ rec' = [rec EXCEPT ![c] = "running"]
         /\ granted' = rest /\ UNCHANGED <<echo, active, queue>>
      \/ ~stale /\ Prompt(c, y, "running", rest)
  BY DEF Admit
<1> HIDE DEF c, g, rest, v, w, y
<1>4. /\ h[c] \in Handle /\ HandleOK(h[c]) /\ h[c].gen \in Nat /\ h[c].slot \in BOOLEAN
      /\ rec[c] \in Status /\ h \in [Child -> Handle]
      /\ h[c] # Unstarted
  BY <1>2, HandleFacts DEF Unstarted
<1>5. "interrupted" \in Over /\ "running" \in Status
  BY DEF Over, Status
<1>6. CASE stale /\ ReleaseSlots(1, rest) /\ UNCHANGED <<h, echo>>
           /\ rec' \in {rec, [rec EXCEPT ![c] = IF h[c].settled THEN h[c].st ELSE "running"]}
  <2>1. Accounts(h', granted', queue', active', 0)
    BY <1>2, <1>6, Release
  <2>2. rec' \in [Child -> Status]
    <3>1. h[c].st \in Status
      BY <1>4 DEF Handle
    <3> QED
      BY <3>1, <1>5, <1>6 DEF Inv, Types
  <2>3. echo' \in Seq(Child) /\ \A d \in Child \ {c} : h'[d] = h[d]
    BY <1>6 DEF Inv, Types
  <2> QED
    BY <1>1, <1>2, <1>4, <2>1, <2>2, <2>3, HandleStep
<1>7. ASSUME ~stale
      PROVE  /\ y \in Handle /\ HandleOK(y) /\ y.slot = TRUE /\ y.gen = g
             /\ v \in Handle /\ v.slot = TRUE /\ v.gen = g
             /\ HandleOK(w) /\ w.slot = TRUE /\ w.gen = g
             /\ h[c].slot = FALSE /\ h[c].gen = g
  <2>1. h[c].slot = FALSE /\ h[c].gen = g /\ h[c].settled = FALSE
    <3>1. h[c].gen = g /\ ~h[c].settled
      BY <1>7
    <3>2. h[c].settled \in BOOLEAN
      BY <1>4 DEF Handle
    <3> QED
      BY <3>1, <3>2, <1>2, <1>4 DEF HandleOK
  <2>2. /\ y \in Handle /\ y.slot = TRUE /\ y.gen = g /\ y.settled = FALSE
        /\ y.st = "running"
    BY <1>4, <1>5, <2>1 DEF y, Handle
  <2>3. HandleOK(y)
    BY <2>2 DEF HandleOK, Over
  <2>4. /\ v \in Handle /\ v.slot = TRUE /\ v.gen = g
    BY <2>2 DEF v, Handle, Inv, Types
  <2>5. /\ w \in Handle /\ w.slot = TRUE /\ w.gen = g /\ w.settled = FALSE
        /\ w.st = "running"
    BY <2>2 DEF w, Handle
  <2>6. HandleOK(w)
    BY <2>5 DEF HandleOK, Over
  <2> QED
    BY <2>1, <2>2, <2>3, <2>4, <2>5, <2>6
<1>9. CASE ~stale /\ Settle(c, v, rec[c], "interrupted", rest)
  <2>f. /\ v \in Handle /\ v.slot = TRUE /\ v.gen = g
        /\ h[c].slot = FALSE /\ h[c].gen = g
    BY <1>7, <1>9
  <2>1. /\ v \in Handle /\ v.gen >= h[c].gen
        /\ 1 + (IF h[c].slot THEN 1 ELSE 0) = IF v.slot THEN 1 ELSE 0
    BY <1>4, <2>f
  <2>s. Settle(c, v, rec[c], "interrupted", rest)
    BY <1>9
  <2>2. Accounts(h', granted', queue', active', 0)
    BY <1>2, <1>5, <1>9, <2>1, SettleAccounts
  <2>3. /\ rec' \in [Child -> Status] /\ echo' \in Seq(Child)
        /\ \A d \in Child \ {c} : h'[d] = h[d]
    BY <1>2, <1>4, <1>5, <2>s, SettleEffects
  <2> QED
    BY <1>1, <1>2, <1>4, <2>2, <2>3, HandleStep
<1>10. CASE ~stale /\ h' = [h EXCEPT ![c] = w] /\ rec' = [rec EXCEPT ![c] = "running"]
            /\ granted' = rest /\ UNCHANGED <<echo, active, queue>>
  <2>f. /\ HandleOK(w) /\ w.slot = TRUE /\ w.gen = g
        /\ h[c].slot = FALSE /\ h[c].gen = g
    BY <1>7, <1>10
  <2>1. /\ HandleOK(w) /\ w.gen >= h[c].gen
        /\ 0 + (IF w.slot THEN 1 ELSE 0) = 1 + (IF h[c].slot THEN 1 ELSE 0)
    BY <1>4, <2>f
  <2>l. \A i \in 1..Len(rest \o queue) : (rest \o queue)[i] # <<c, w.gen>>
    BY <1>2, <2>f
  <2>2. Accounts([h EXCEPT ![c] = w], rest, queue, active, 0)
    BY <1>2, <2>1, <2>l, SetHandle
  <2>3. Accounts(h', granted', queue', active', 0)
    BY <1>10, <2>2
  <2>4. /\ rec' \in [Child -> Status] /\ echo' \in Seq(Child)
        /\ \A d \in Child \ {c} : h'[d] = h[d]
    BY <1>2, <1>4, <1>5, <1>10 DEF Inv, Types
  <2> QED
    BY <1>1, <1>2, <1>4, <2>3, <2>4, HandleStep
<1>11. CASE ~stale /\ Prompt(c, y, "running", rest)
  <2>f. /\ HandleOK(y) /\ y.slot = TRUE /\ y.gen = g
        /\ h[c].slot = FALSE /\ h[c].gen = g
    BY <1>7, <1>11
  <2>1. /\ HandleOK(y) /\ y.gen >= h[c].gen
        /\ 1 + (IF h[c].slot THEN 1 ELSE 0) = IF y.slot THEN 1 ELSE 0
    BY <1>4, <2>f
  <2>l. \A i \in 1..Len(rest \o queue) : (rest \o queue)[i] # <<c, y.gen>>
    BY <1>2, <2>f
  <2>2. Accounts(h', granted', queue', active', 0)
    BY <1>2, <1>11, <2>1, <2>l, PromptAccounts
  <2>3. /\ rec' \in [Child -> Status] /\ echo' \in Seq(Child)
        /\ \A d \in Child \ {c} : h'[d] = h[d]
    BY <1>2, <1>5, <1>11, PromptEffects
  <2> QED
    BY <1>1, <1>2, <1>4, <2>2, <2>3, HandleStep
<1> QED
  BY <1>3, <1>6, <1>9, <1>10, <1>11
-----------------------------------------------------------------------------
(* Disposal: several handles at once *)

LEMMA DisposedOK ==
  ASSUME NEW x, HandleOK(x)
  PROVE  HandleOK(Disposed(x)) /\ ~Disposed(x).slot /\ Disposed(x).gen = x.gen
<1> DEFINE y == [x EXCEPT !.disposed = TRUE, !.session = "closed", !.run = 0]
<1>1. /\ y \in Handle /\ y.slot = x.slot /\ y.settled = x.settled /\ y.st = x.st
      /\ y.drains = x.drains /\ y.gen = x.gen
  BY DEF HandleOK, Handle
<1>2. Disposed(x) = IF x.settled THEN y ELSE Settled(y, "interrupted")
  BY DEF Disposed
<1>3. "interrupted" \in Over
  BY DEF Over
<1> HIDE DEF y
<1>4. CASE x.settled
  BY <1>1, <1>2, <1>4 DEF HandleOK
<1>5. CASE ~x.settled
  BY <1>1, <1>2, <1>3, <1>5, SettledOK
<1> QED
  BY <1>4, <1>5

LEMMA DisposeStep == Inv /\ DisposeRun => Inv'
<1> SUFFICES ASSUME Inv, DisposeRun PROVE Inv'
  OBVIOUS
<1> DEFINE S == {c \in Child : h[c].visible /\ h[c].gen > 0}
           first == {c \in S : ~h[c].settled /\ h[c].turn = 1}
           new == [c \in Child |-> IF c \in S THEN Disposed(h[c]) ELSE h[c]]
           D == {c \in S : h[c].slot}
           n == Cardinality(D)
           line == granted \o queue
<1>1. /\ h' = new /\ ReleaseSlots(n, granted) /\ echo' \in [1..Cardinality(first) -> first]
      /\ rec' = [c \in Child |-> DisposedRecord(c)] /\ listed' = FALSE
      /\ UNCHANGED <<poolVars, spent>>
  BY DEF DisposeRun, HeldSlots
<1>2. S \subseteq Child /\ first \subseteq Child /\ Unsubmitted
      /\ Accounts(h, granted, queue, active, 0)
  BY DEF Inv
<1>3. \A c \in Child : /\ HandleOK(new[c]) /\ new[c] \in Handle /\ new[c].gen = h[c].gen
                       /\ c \in S => ~new[c].slot
                       /\ c \notin S => new[c] = h[c]
  BY HandleFacts, DisposedOK DEF HandleOK
<1>4. IsFiniteSet(Held(h)) /\ Cardinality(Held(h)) \in Nat /\ n \in Nat
  BY <1>2, HeldFinite DEF Held
<1>5. Held(new) = Held(h) \ D
  <2> HIDE DEF new, S
  <2> QED
    BY <1>3 DEF Held
<1>6. Cardinality(Held(new)) = Cardinality(Held(h)) - n
  <2>1. Cardinality(Held(h) \ D) = Cardinality(Held(h)) - Cardinality(Held(h) \cap D)
    BY <1>4, FS_Difference
  <2>2. Held(h) \cap D = D
    BY <1>2 DEF Held
  <2> QED
    BY <1>5, <2>1, <2>2
<1>7. echo' \in Seq(Child)
  <2>1. IsFiniteSet(first) /\ Cardinality(first) \in Nat
    BY <1>2, ChildFinite, FS_Subset, FS_CardinalityType
  <2> HIDE DEF first
  <2>2. echo' \in [1..Cardinality(first) -> Child]
    BY <1>1, <1>2
  <2> QED
    BY <2>1, <2>2, SeqDef
<1>8. Unsubmitted'
  <2>1. ASSUME NEW c \in Child, c >= next PROVE c \notin S
    BY <2>1, <1>2 DEF Unsubmitted, Unstarted
  <2> HIDE DEF S, new
  <2> QED
    BY <1>1, <1>2, <1>3, <2>1 DEF Unsubmitted, poolVars
<1>9. rec' \in [Child -> Status]
  BY <1>1 DEF DisposedRecord, Inv, Types, Status, Over
<1>10. new \in [Child -> Handle]
  <2>1. \A c \in Child : (IF c \in S THEN Disposed(h[c]) ELSE h[c]) \in Handle
    BY <1>3
  <2> HIDE DEF S
  <2> QED
    BY <2>1
<1> HIDE DEF new, D, n, S, first
<1>11. Tickets(line, new)
  <2>1. granted \in Seq(Ticket) /\ queue \in Seq(Ticket) /\ Tickets(line, h)
    BY <1>2 DEF Accounts
  <2>2. line \in Seq(Ticket)
    BY ONLY <2>1, ConcatProperties
  <2>3. \A i \in 1..Len(line) : line[i][1] \in Child
    BY <2>2, ElementOfSeq DEF Ticket
  <2> HIDE DEF line
  <2>4. ASSUME NEW i \in 1..Len(line)
        PROVE  /\ line[i][2] \in 1..new[line[i][1]].gen
               /\ new[line[i][1]].slot => line[i][2] # new[line[i][1]].gen
    <3>1. /\ line[i][2] \in 1..h[line[i][1]].gen
          /\ h[line[i][1]].slot => line[i][2] # h[line[i][1]].gen
      BY <2>1 DEF Tickets
    <3> QED
      BY <1>3, <2>3, <3>1
  <2> QED
    BY <2>1, <2>4 DEF Tickets
<1>12. Accounts(new, granted, queue, active, n)
  <2>1. /\ active = Len(granted) + 0 + Cardinality(Held(h)) /\ granted \in Seq(Ticket)
    BY <1>2 DEF Accounts
  <2>2. active = Len(granted) + n + Cardinality(Held(new))
    <3>1. Len(granted) \in Nat
      BY <2>1, LenProperties
    <3> QED
      BY <1>4, <1>6, <2>1, <3>1
  <2> QED
    BY <1>2, <1>3, <1>4, <1>10, <1>11, <2>2 DEF Accounts
<1>13. Accounts(h', granted', queue', active', 0)
  BY <1>1, <1>12, Release
<1>14. Types'
  BY <1>1, <1>7, <1>9, <1>13 DEF Inv, Types, Accounts, poolVars
<1> QED
  BY <1>8, <1>13, <1>14 DEF Inv

-----------------------------------------------------------------------------
(* Turns *)

TurnKept(c) == h'[c].turn = h[c].turn
TurnOver(c) == h[c].turn = 0 \/ h[c].settled
WaitOver(c) == h'[c].drains < h[c].drains

Turns == \A c \in Child : TurnKept(c) \/ TurnOver(c) \/ WaitOver(c)

(* That a turn was replaced is not forgotten. *)
Remembered == \A c \in Child : h[c].replaced => h'[c].replaced

(* The handle x is of the same turn as y. *)
SameTurn(x, y) == x.turn = y.turn /\ x.replaced = y.replaced

Submitted == {c \in Child : c < next}

(* A final status is that of a settled turn. *)
Calm(x) == x \in Handle /\ (x.st \in Over => x.settled)

(* What holds of the turns in every state.  Slots are not counted here:    *)
(* when a turn is replaced, one may be lost.                               *)
Tidy ==
  /\ h \in [Child -> Handle]
  /\ \A c \in Child : Calm(h[c])
  /\ Unsubmitted
  /\ next \in 1..NChildren + 1 /\ listed \in BOOLEAN
  /\ granted \in Seq(Submitted \X Nat)
  /\ queue \in Seq(Submitted \X Nat)

LEMMA AcquireTidy ==
  ASSUME NEW S, granted \in Seq(S), queue \in Seq(S), NEW c, NEW g, <<c, g>> \in S,
         Acquire(c, g)
  PROVE  granted' \in Seq(S) /\ queue' \in Seq(S)
<1>1. Append(granted, <<c, g>>) \in Seq(S) /\ Append(queue, <<c, g>>) \in Seq(S)
  BY AppendProperties
<1> QED
  BY <1>1 DEF Acquire

LEMMA ReleaseTidy ==
  ASSUME NEW S, queue \in Seq(S), NEW rest \in Seq(S), NEW n \in Nat, ReleaseSlots(n, rest)
  PROVE  granted' \in Seq(S) /\ queue' \in Seq(S)
<1> DEFINE k == IF n < Len(queue) THEN n ELSE Len(queue)
<1>1. Len(queue) \in Nat /\ k \in 0..Len(queue)
  BY LenProperties
<1>2. granted' = rest \o SubSeq(queue, 1, k) /\ queue' = SubSeq(queue, k + 1, Len(queue))
  BY DEF ReleaseSlots
<1> HIDE DEF k
<1>3. SubSeq(queue, 1, k) \in Seq(S) /\ SubSeq(queue, k + 1, Len(queue)) \in Seq(S)
  BY <1>1, SubSeqProperties
<1> QED
  BY <1>2, <1>3, ConcatProperties

LEMMA HandleStarted ==
  ASSUME Tidy, NEW c \in Child, h[c] # Unstarted
  PROVE  c \in Submitted
  BY DEF Tidy, Unsubmitted, Submitted, Child

(* A step that changes one handle of a submitted child. *)
LEMMA OneHandle ==
  ASSUME Tidy, NEW c \in Submitted, NEW y, Calm(y), h' = [h EXCEPT ![c] = y],
         y.turn = h[c].turn \/ TurnOver(c) \/ y.drains < h[c].drains,
         h[c].replaced => y.replaced,
         granted' \in Seq(Submitted \X Nat), queue' \in Seq(Submitted \X Nat),
         UNCHANGED <<poolVars, listed>>
  PROVE  Tidy' /\ Turns /\ Remembered
<1>1. /\ c \in Child /\ h'[c] = y /\ \A d \in Child \ {c} : h'[d] = h[d]
      /\ UNCHANGED <<next, listed>> /\ Submitted' = Submitted
  BY DEF Tidy, Submitted, poolVars
<1>2. h' \in [Child -> Handle] /\ \A d \in Child : Calm(h'[d])
  BY <1>1 DEF Tidy, Calm
<1>3. Unsubmitted'
  BY <1>1 DEF Tidy, Unsubmitted, Submitted, Child
<1>4. Turns /\ Remembered
  BY <1>1 DEF Turns, Remembered, TurnKept, WaitOver
<1> QED
  BY <1>1, <1>2, <1>3, <1>4 DEF Tidy

LEMMA SettleTidy ==
  ASSUME Tidy, NEW c \in Submitted, NEW x \in Handle, SameTurn(x, h[c]),
         NEW was, NEW how \in Over, NEW rest \in Seq(Submitted \X Nat),
         Settle(c, x, was, how, rest), UNCHANGED <<poolVars, listed>>
  PROVE  Tidy' /\ Turns /\ Remembered
<1> DEFINE y == Settled(x, how)
<1>1. Calm(y) /\ SameTurn(y, h[c])
  BY DEF Calm, Settled, Handle, Status, SameTurn
<1>2. h' = [h EXCEPT ![c] = y] /\ ReleaseSlots(IF x.slot THEN 1 ELSE 0, rest)
  BY DEF Settle
<1>3. (IF x.slot THEN 1 ELSE 0) \in Nat
  OBVIOUS
<1>4. granted' \in Seq(Submitted \X Nat) /\ queue' \in Seq(Submitted \X Nat)
  BY <1>2, <1>3, ReleaseTidy DEF Tidy
<1> HIDE DEF y
<1> QED
  BY <1>1, <1>2, <1>4, OneHandle DEF SameTurn

LEMMA PromptTidy ==
  ASSUME Tidy, NEW c \in Submitted, NEW x, Calm(x), SameTurn(x, h[c]),
         NEW was, NEW rest \in Seq(Submitted \X Nat),
         Prompt(c, x, was, rest), UNCHANGED <<poolVars, listed>>
  PROVE  Tidy' /\ Turns /\ Remembered
<1>1. CASE x.run # 0
  <2>1. Settle(c, x, was, "failed", rest) /\ "failed" \in Over /\ x \in Handle
    BY <1>1 DEF Prompt, Over, Calm
  <2> QED
    BY <2>1, SettleTidy
<1>2. CASE ~(x.run # 0)
  <2> DEFINE y == [x EXCEPT !.run = x.gen]
  <2>1. Calm(y) /\ SameTurn(y, h[c])
    BY DEF Calm, Handle, SameTurn
  <2>2. h' = [h EXCEPT ![c] = y] /\ granted' = rest /\ queue' = queue
    BY <1>2 DEF Prompt
  <2> HIDE DEF y
  <2> QED
    BY <2>1, <2>2, OneHandle DEF Tidy, SameTurn
<1> QED
  BY <1>1, <1>2

(* The fields of a handle change, its turn stays. *)
LEMMA FieldTidy ==
  ASSUME Tidy, NEW c \in Submitted, NEW y, Calm(y), SameTurn(y, h[c]),
         h' = [h EXCEPT ![c] = y], UNCHANGED <<granted, queue, poolVars, listed>>
  PROVE  Tidy' /\ Turns /\ Remembered
  BY OneHandle DEF Tidy, SameTurn

(* A turn begins where the last one is over, or for a call that waited. *)
LEMMA NewTurnTidy ==
  ASSUME Tidy, NEW c \in Submitted, NEW x \in Handle,
         TurnOver(c) \/ x.drains < h[c].drains, x.replaced = h[c].replaced,
         NewTurn(c, x), UNCHANGED <<poolVars, listed>>
  PROVE  Tidy' /\ Turns /\ Remembered
<1> DEFINE y == [x EXCEPT !.gen = @ + 1, !.turn = @ + 1, !.settled = FALSE, !.retry = "none",
                          !.retired = FALSE, !.stalls = 0, !.st = "pending",
                          !.replaced = @ \/ ~x.settled]
<1>1. x.gen + 1 \in Nat /\ x.turn + 1 \in Nat /\ "pending" \in Status /\ "pending" \notin Over
      /\ (x.replaced \/ ~x.settled) \in BOOLEAN
  BY DEF Handle, Status, Over
<1>2. Calm(y) /\ y.drains = x.drains /\ (x.replaced => y.replaced)
  <2>1. y \in Handle /\ y.drains = x.drains /\ y.st = "pending" /\ (x.replaced => y.replaced)
    BY <1>1 DEF Handle, SameTurn
  <2> HIDE DEF y
  <2> QED
    BY <2>1, <1>1 DEF Calm
<1>3. h' = [h EXCEPT ![c] = y] /\ Acquire(c, x.gen + 1)
  BY DEF NewTurn
<1>4. granted' \in Seq(Submitted \X Nat) /\ queue' \in Seq(Submitted \X Nat)
  <2>1. <<c, x.gen + 1>> \in Submitted \X Nat
    BY <1>1
  <2> QED
    BY <1>3, <2>1, AcquireTidy DEF Tidy
<1> HIDE DEF y
<1> QED
  BY <1>2, <1>3, <1>4, OneHandle

LEMMA SubmitTidy ==
  ASSUME Tidy, next <= NChildren, Submit(next), UNCHANGED <<finalized, listed>>
  PROVE  Tidy' /\ Turns /\ Remembered
<1> DEFINE c == next
           S == Submitted \cup {c}
<1>1. /\ c \in Child /\ c \in Nat /\ next' = c + 1 /\ h[c] = Unstarted /\ h[c] \in Handle
      /\ h[c].turn = 0 /\ ~h[c].replaced /\ NChildren \in Nat /\ h \in [Child -> Handle]
  BY SubagentsAssumption DEF Tidy, Calm, Unsubmitted, Child, Submit, Unstarted
<1>2. Submitted' = S
  BY <1>1 DEF Submitted, Child
<1>3. granted \in Seq(S \X Nat) /\ queue \in Seq(S \X Nat)
  BY DEF Tidy
<1>4. \E y : /\ Calm(y) /\ h' = [h EXCEPT ![c] = y]
             /\ granted' \in Seq(S \X Nat) /\ queue' \in Seq(S \X Nat)
  <2>1. CASE spent = Budget
    <3> DEFINE y == [h[c] EXCEPT !.visible = TRUE, !.st = "failed", !.turn = 1, !.settled = TRUE]
    <3>1. Calm(y)
      <4>1. "failed" \in Status /\ 1 \in Nat
        BY DEF Status, Over
      <4> QED
        BY <4>1, <1>1 DEF Calm, Handle, SameTurn
    <3>2. h' = [h EXCEPT ![c] = y] /\ UNCHANGED slotVars
      BY <2>1 DEF Submit
    <3> QED
      BY <1>3, <3>1, <3>2 DEF slotVars
  <2>2. CASE spent # Budget
    <3> DEFINE y == [h[c] EXCEPT !.gen = 1, !.turn = 1]
    <3>1. Calm(y)
      <4>0. h[c].st = "pending"
        BY <1>1 DEF Unstarted
      <4>1. y \in Handle /\ y.st = "pending"
        BY <1>1, <4>0 DEF Handle, SameTurn
      <4> HIDE DEF y
      <4> QED
        BY <4>1 DEF Calm, Over
    <3>2. h' = [h EXCEPT ![c] = y] /\ Acquire(c, 1)
      BY <2>2 DEF Submit
    <3>3. <<c, 1>> \in S \X Nat
      OBVIOUS
    <3> QED
      BY <1>3, <3>1, <3>2, <3>3, AcquireTidy
  <2> QED
    BY <2>1, <2>2
<1>5. PICK y : /\ Calm(y) /\ h' = [h EXCEPT ![c] = y]
               /\ granted' \in Seq(S \X Nat) /\ queue' \in Seq(S \X Nat)
  BY <1>4
<1> HIDE DEF S
<1>6. h' \in [Child -> Handle] /\ \A d \in Child : Calm(h'[d])
  BY <1>1, <1>5 DEF Tidy, Calm
<1>7. Unsubmitted'
  <2>1. ASSUME NEW d \in Child, d >= next' PROVE h'[d] = Unstarted
    BY <2>1, <1>1, <1>5 DEF Tidy, Unsubmitted, Child
  <2> QED
    BY <2>1 DEF Unsubmitted
<1>8. Turns /\ Remembered
  BY <1>1, <1>5 DEF Turns, Remembered, TurnKept, TurnOver
<1>9. next' \in 1..NChildren + 1
  BY <1>1
<1> QED
  BY <1>2, <1>5, <1>6, <1>7, <1>8, <1>9 DEF Tidy

LEMMA PoolTidy ==
  ASSUME Tidy, TakeTask \/ Report \/ FinalizeRun \/ UNCHANGED vars
  PROVE  Tidy' /\ Turns /\ Remembered
<1>1. CASE TakeTask /\ ~(next <= NChildren /\ Submit(next))
  <2>1. /\ next' = NChildren + 1 /\ UNCHANGED <<granted, queue, h, listed>>
        /\ next \in 1..NChildren + 1 /\ NChildren \in Nat
    BY <1>1, SubagentsAssumption DEF TakeTask, Tidy, slotVars
  <2>2. next' \in 1..NChildren + 1 /\ next <= next'
    BY <2>1
  <2>3. Submitted \X Nat \subseteq Submitted' \X Nat
    BY <2>1, <2>2 DEF Submitted, Child
  <2>4. granted' \in Seq(Submitted' \X Nat) /\ queue' \in Seq(Submitted' \X Nat)
    BY <2>1, <2>3 DEF Tidy
  <2>5. Unsubmitted'
    BY <2>1 DEF Tidy, Unsubmitted, Child
  <2> QED
    BY <2>1, <2>2, <2>4, <2>5 DEF Tidy, Turns, TurnKept, Remembered
<1>2. CASE TakeTask /\ next <= NChildren /\ Submit(next)
  BY <1>2, SubmitTidy DEF TakeTask
<1>3. CASE Report \/ FinalizeRun \/ UNCHANGED vars
  <2>1. UNCHANGED <<h, next, listed, granted, queue>>
    BY <1>3 DEF Report, FinalizeRun, vars, poolVars, slotVars
  <2>2. Submitted' = Submitted /\ Unsubmitted'
    BY <2>1 DEF Tidy, Unsubmitted, Submitted
  <2> QED
    BY <2>1, <2>2 DEF Tidy, Turns, TurnKept, Remembered
<1> QED
  BY <1>1, <1>2, <1>3

LEMMA AdmitTidy ==
  ASSUME Tidy, Admit
  PROVE  Tidy' /\ Turns /\ Remembered
<1> DEFINE c == Head(granted)[1]
           x == h[c]
           rest == Tail(granted)
           y == [x EXCEPT !.slot = TRUE, !.st = "running"]
           v == [y EXCEPT !.visible = listed]
           w == [y EXCEPT !.session = "creating"]
<1>1. /\ c \in Submitted /\ rest \in Seq(Submitted \X Nat)
      /\ UNCHANGED <<poolVars, listed>>
  <2>1. granted # <<>> /\ granted \in Seq(Submitted \X Nat)
    BY DEF Admit, Tidy
  <2>2. Head(granted) \in Submitted \X Nat /\ Tail(granted) \in Seq(Submitted \X Nat)
    BY <2>1, HeadTailProperties
  <2> QED
    BY <2>2 DEF Admit
<1>2. x \in Handle /\ Calm(x) /\ listed \in BOOLEAN
  BY <1>1 DEF Tidy, Calm, Submitted
<1>3. /\ y \in Handle /\ v \in Handle /\ w \in Handle
      /\ SameTurn(y, x) /\ SameTurn(v, x) /\ SameTurn(w, x)
      /\ y.st = "running" /\ w.st = "running"
  <2>1. "running" \in Status
    BY DEF Status
  <2> QED
    BY <1>2, <2>1 DEF Handle, SameTurn
<1>4. "running" \notin Over /\ "interrupted" \in Over
  BY DEF Over
<1>5. \/ ReleaseSlots(1, rest) /\ UNCHANGED h
      \/ Settle(c, v, rec[c], "interrupted", rest)
      \/ Prompt(c, y, "running", rest)
      \/ h' = [h EXCEPT ![c] = w] /\ granted' = rest /\ queue' = queue
  BY DEF Admit
<1> HIDE DEF c, rest, y, v, w
<1>6. CASE ReleaseSlots(1, rest) /\ UNCHANGED h
  <2>1. granted' \in Seq(Submitted \X Nat) /\ queue' \in Seq(Submitted \X Nat)
    BY <1>1, <1>6, ReleaseTidy DEF Tidy
  <2>2. Submitted' = Submitted /\ Unsubmitted' /\ UNCHANGED <<next, listed>>
    BY <1>1, <1>6 DEF Tidy, Unsubmitted, Submitted, poolVars
  <2> QED
    BY <1>6, <2>1, <2>2 DEF Tidy, Turns, TurnKept, Remembered
<1>7. CASE Settle(c, v, rec[c], "interrupted", rest)
  BY <1>1, <1>3, <1>4, <1>7, SettleTidy
<1>8. CASE Prompt(c, y, "running", rest)
  <2>1. Calm(y)
    BY <1>3, <1>4 DEF Calm
  <2> QED
    BY <1>1, <1>3, <1>8, <2>1, PromptTidy
<1>9. CASE h' = [h EXCEPT ![c] = w] /\ granted' = rest /\ queue' = queue
  <2>1. Calm(w)
    BY <1>3, <1>4 DEF Calm
  <2> QED
    BY <1>1, <1>3, <1>9, <2>1, OneHandle DEF Tidy, SameTurn
<1> QED
  BY <1>5, <1>6, <1>7, <1>8, <1>9

LEMMA DisposeTidy ==
  ASSUME Tidy, DisposeRun
  PROVE  Tidy' /\ Turns /\ Remembered
<1> DEFINE S == {c \in Child : h[c].visible /\ h[c].gen > 0}
           D == {c \in S : h[c].slot}
           n == Cardinality(D)
<1>1. /\ h' = [c \in Child |-> IF c \in S THEN Disposed(h[c]) ELSE h[c]]
      /\ ReleaseSlots(n, granted) /\ listed' = FALSE /\ UNCHANGED poolVars
  BY DEF DisposeRun, HeldSlots
<1>2. n \in Nat
  BY ChildFinite, FS_Subset, FS_CardinalityType
<1>3. ASSUME NEW x, Calm(x)
      PROVE  Calm(Disposed(x)) /\ SameTurn(Disposed(x), x)
  <2> DEFINE y == [x EXCEPT !.disposed = TRUE, !.session = "closed", !.run = 0]
  <2>1. Calm(y) /\ SameTurn(y, x) /\ y.settled = x.settled
    BY <1>3 DEF Calm, Handle, SameTurn
  <2>2. Disposed(x) = IF x.settled THEN y ELSE Settled(y, "interrupted")
    BY DEF Disposed
  <2> HIDE DEF y
  <2>3. Calm(Settled(y, "interrupted")) /\ SameTurn(Settled(y, "interrupted"), y)
    <3>1. "interrupted" \in Status
      BY DEF Status, Over
    <3> QED
      BY <2>1, <3>1 DEF Calm, Settled, Handle, SameTurn
  <2> QED
    BY <2>1, <2>2, <2>3 DEF SameTurn
<1>4. ASSUME NEW c \in Child
      PROVE  /\ Calm(h'[c]) /\ SameTurn(h'[c], h[c])
             /\ c >= next => h'[c] = Unstarted
  <2>1. Calm(h[c]) /\ (c >= next => h[c] = Unstarted)
    BY DEF Tidy, Unsubmitted
  <2>2. h[c] = Unstarted => c \notin S
    BY DEF Unstarted
  <2> HIDE DEF S
  <2> QED
    BY <1>1, <1>3, <2>1, <2>2 DEF SameTurn
<1>5. granted' \in Seq(Submitted \X Nat) /\ queue' \in Seq(Submitted \X Nat)
  BY <1>1, <1>2, ReleaseTidy DEF Tidy
<1>6. h' \in [Child -> Handle]
  <2>1. \A c \in Child : (IF c \in S THEN Disposed(h[c]) ELSE h[c]) \in Handle
    BY <1>1, <1>4 DEF Calm
  <2> HIDE DEF S
  <2> QED
    BY <1>1, <2>1
<1>7. Submitted' = Submitted /\ UNCHANGED next /\ listed' \in BOOLEAN
  BY <1>1 DEF Submitted, poolVars
<1> HIDE DEF S, D, n
<1>8. Turns /\ Remembered /\ Unsubmitted' /\ \A c \in Child : Calm(h'[c])
  BY <1>4, <1>7 DEF Turns, Remembered, TurnKept, Unsubmitted, SameTurn
<1> QED
  BY <1>5, <1>6, <1>7, <1>8 DEF Tidy

LEMMA ChildTidy ==
  ASSUME Tidy, NEW c \in Child,
         \/ SessionCreated(c) \/ RunEnds(c) \/ Timeout(c) \/ Stall(c)
         \/ RetryFires(c) \/ RetryDrained(c)
         \/ Interrupt(c) \/ Resume(c) \/ ResumeDrained(c)
  PROVE  Tidy' /\ Turns /\ Remembered
<1>u. Unstarted.session = "none" /\ Unstarted.run = 0 /\ Unstarted.retry = "none"
      /\ ~Unstarted.visible /\ Unstarted.drains = 0
  BY DEF Unstarted
<1>c. c \in Submitted /\ UNCHANGED <<poolVars, listed>>
  <2>1. h[c] # Unstarted
    BY <1>u DEF SessionCreated, RunEnds, Timeout, Stall, Prompted, RetryFires, RetryDrained,
                Interrupt, Resume, ResumeDrained, Reachable
  <2>2. UNCHANGED <<poolVars, listed>>
    BY DEF SessionCreated, RunEnds, Timeout, Stall, RetryFires, RetryDrained,
           Interrupt, Resume, ResumeDrained
  <2> QED
    BY <2>1, <2>2, HandleStarted
<1>h. /\ h[c] \in Handle /\ Calm(h[c]) /\ h[c].gen + 1 \in Nat /\ h[c].stalls + 1 \in Nat
      /\ h[c].drains \in Nat /\ granted \in Seq(Submitted \X Nat)
  BY DEF Tidy, Calm, Handle, SameTurn
<1>o. "failed" \in Over /\ "interrupted" \in Over /\ "completed" \in Over
  BY DEF Over
<1>1. CASE SessionCreated(c)
  <2> DEFINE x == [h[c] EXCEPT !.session = "open", !.visible = TRUE]
             y == [h[c] EXCEPT !.session = "none", !.visible = TRUE]
  <2>1. Calm(x) /\ SameTurn(x, h[c]) /\ y \in Handle /\ SameTurn(y, h[c])
    BY <1>h DEF Calm, Handle, SameTurn
  <2>2. Prompt(c, x, rec[c], granted) \/ Settle(c, y, rec[c], "failed", granted)
    BY <1>1 DEF SessionCreated
  <2> HIDE DEF x, y
  <2> QED
    BY <1>c, <1>h, <1>o, <2>1, <2>2, PromptTidy, SettleTidy
<1>2. CASE RunEnds(c)
  <2> DEFINE x == [h[c] EXCEPT !.run = 0]
  <2>1. Calm(x) /\ x \in Handle /\ SameTurn(x, h[c])
    BY <1>h DEF Calm, Handle, SameTurn
  <2>2. \/ \E how \in {"completed", "failed"} : Settle(c, x, rec[c], how, granted)
        \/ h' = [h EXCEPT ![c] = x] /\ UNCHANGED <<granted, queue>>
    BY <1>2 DEF RunEnds, slotVars
  <2> HIDE DEF x
  <2> QED
    BY <1>c, <1>h, <1>o, <2>1, <2>2, SettleTidy, FieldTidy
<1>3. CASE Timeout(c)
  <2> DEFINE x == [h[c] EXCEPT !.abort = TRUE]
  <2>1. x \in Handle /\ SameTurn(x, h[c])
    BY <1>h DEF Handle, SameTurn
  <2>2. Settle(c, x, rec[c], "interrupted", granted)
    BY <1>3 DEF Timeout
  <2> HIDE DEF x
  <2> QED
    BY <1>c, <1>h, <1>o, <2>1, <2>2, SettleTidy
<1>4. CASE Stall(c)
  <2> DEFINE x == [h[c] EXCEPT !.stalls = @ + 1, !.retired = TRUE, !.abort = TRUE]
             y == [x EXCEPT !.retry = "delay"]
  <2>1. x \in Handle /\ SameTurn(x, h[c]) /\ x.st = h[c].st /\ x.settled = h[c].settled
    BY <1>h DEF Handle, SameTurn
  <2>2. \/ Settle(c, x, rec[c], "failed", granted)
        \/ h' = [h EXCEPT ![c] = y] /\ UNCHANGED <<granted, queue>>
    BY <1>4 DEF Stall, slotVars
  <2> HIDE DEF x
  <2>3. Calm(y) /\ SameTurn(y, h[c])
    BY <1>h, <2>1 DEF Calm, Handle, SameTurn
  <2> HIDE DEF y
  <2> QED
    BY <1>c, <1>h, <1>o, <2>1, <2>2, <2>3, SettleTidy, FieldTidy
<1>5. ASSUME Retry(c) PROVE Tidy' /\ Turns /\ Remembered
  <2> DEFINE x == [h[c] EXCEPT !.gen = @ + 1, !.retired = FALSE, !.retry = "none", !.abort = FALSE]
  <2>1. x \in Handle /\ SameTurn(x, h[c]) /\ x.st = h[c].st /\ x.settled = h[c].settled
    BY <1>h DEF Handle, SameTurn
  <2>2. Prompt(c, x, rec[c], granted) \/ Settle(c, x, rec[c], "interrupted", granted)
    BY <1>5 DEF Retry
  <2> HIDE DEF x
  <2>3. Calm(x)
    BY <1>h, <2>1 DEF Calm
  <2> QED
    BY <1>c, <1>h, <1>o, <2>1, <2>2, <2>3, PromptTidy, SettleTidy
<1>6. CASE RetryFires(c)
  <2> DEFINE x == [h[c] EXCEPT !.retry = "drain", !.abort = FALSE]
  <2>1. Calm(x) /\ SameTurn(x, h[c])
    BY <1>h DEF Calm, Handle, SameTurn
  <2>2. \/ h' = [h EXCEPT ![c] = x] /\ UNCHANGED <<granted, queue>>
        \/ Retry(c)
    BY <1>6 DEF RetryFires, slotVars
  <2> HIDE DEF x
  <2> QED
    BY <1>c, <1>5, <2>1, <2>2, FieldTidy
<1>7. CASE RetryDrained(c) \/ Interrupt(c)
  <2>1. Retry(c) \/ \E how \in Over : Settle(c, h[c], rec[c], how, granted)
    BY <1>7, <1>o DEF RetryDrained, Interrupt
  <2> QED
    BY <1>c, <1>5, <1>h, <2>1, SettleTidy DEF SameTurn
<1>8. CASE Resume(c)
  <2> DEFINE x == [h[c] EXCEPT !.abort = FALSE]
             y == [x EXCEPT !.drains = @ + 1]
  <2>1. TurnOver(c)
    BY <1>8, <1>h DEF Resume, TurnOver, Calm
  <2>2. x \in Handle /\ SameTurn(x, h[c]) /\ x.st = h[c].st /\ x.settled = h[c].settled
    BY <1>h DEF Handle, SameTurn
  <2>3. \/ h' = [h EXCEPT ![c] = y] /\ UNCHANGED <<granted, queue>>
        \/ NewTurn(c, x)
    BY <1>8 DEF Resume, slotVars
  <2> HIDE DEF x
  <2>4. Calm(y) /\ SameTurn(y, h[c])
    <3>1. x.drains + 1 \in Nat
      BY <2>2 DEF Handle, SameTurn
    <3> QED
      BY <1>h, <2>2, <3>1 DEF Calm, Handle, SameTurn
  <2> HIDE DEF y
  <2> QED
    BY <1>c, <2>1, <2>2, <2>3, <2>4, FieldTidy, NewTurnTidy DEF SameTurn
<1>9. CASE ResumeDrained(c)
  <2> DEFINE x == [h[c] EXCEPT !.drains = @ - 1]
  <2>1. h[c].drains - 1 \in Nat /\ h[c].drains - 1 < h[c].drains
    BY <1>9, <1>h DEF ResumeDrained
  <2>2. /\ x \in Handle /\ SameTurn(x, h[c]) /\ x.drains = h[c].drains - 1
        /\ x.st = h[c].st /\ x.settled = h[c].settled
    BY <1>h, <2>1 DEF Handle, SameTurn
  <2>3. \/ h' = [h EXCEPT ![c] = x] /\ UNCHANGED <<granted, queue>>
        \/ NewTurn(c, x)
    BY <1>9 DEF ResumeDrained, slotVars
  <2> HIDE DEF x
  <2>4. Calm(x) /\ x.drains < h[c].drains
    BY <1>h, <2>1, <2>2 DEF Calm
  <2> QED
    BY <1>c, <2>2, <2>3, <2>4, FieldTidy, NewTurnTidy DEF SameTurn
<1> QED
  BY <1>1, <1>2, <1>3, <1>4, <1>6, <1>7, <1>8, <1>9

LEMMA TidyStep == Tidy /\ [Next]_vars => Tidy' /\ Turns /\ Remembered
<1> SUFFICES ASSUME Tidy, [Next]_vars PROVE Tidy' /\ Turns /\ Remembered
  OBVIOUS
<1> QED
  BY PoolTidy, AdmitTidy, DisposeTidy, ChildTidy DEF Next

-----------------------------------------------------------------------------
(* The theorems *)

LEMMA InitTidy == Init => Tidy
<1> SUFFICES ASSUME Init PROVE Tidy
  OBVIOUS
<1>1. Unstarted \in Handle /\ Calm(Unstarted)
  BY DEF Unstarted, Handle, Calm, Over, Status
<1>2. h \in [Child -> Handle] /\ \A c \in Child : h[c] = Unstarted
  BY <1>1 DEF Init
<1>3. granted \in Seq(Submitted \X Nat) /\ queue \in Seq(Submitted \X Nat)
  BY EmptySeq DEF Init
<1>4. next \in 1..NChildren + 1 /\ listed \in BOOLEAN
  BY SubagentsAssumption DEF Init
<1> QED
  BY <1>1, <1>2, <1>3, <1>4 DEF Tidy, Unsubmitted

(* A result that was promised is given before another is promised          *)
(* (resume(), runner.ts): whatever calls of resume overlap, with each      *)
(* other or with stalls, retries, timeouts and the end of the run, a turn  *)
(* begins while its predecessor's result is open only for a resume() that  *)
(* had to wait for an abort.                                               *)
THEOREM TurnsAlwaysAnswered == Spec => TurnsAnswered
<1> DEFINE Answered ==
             \A c \in Child : h'[c].turn # h[c].turn =>
               h[c].turn = 0 \/ h[c].settled \/ h'[c].drains < h[c].drains
<1>1. Tidy /\ [Next]_vars => Tidy' /\ [Answered]_vars
  <2>1. Turns => Answered
    BY DEF Turns, Remembered, TurnKept, TurnOver, WaitOver
  <2> QED
    BY <2>1, TidyStep
<1> QED
  BY InitTidy, <1>1, PTL DEF Spec, TurnsAnswered

LEMMA InvStep == Inv /\ [Next]_vars => Inv' \/ Replaced'
<1> SUFFICES ASSUME Inv, [Next]_vars, ~Replaced' PROVE Inv'
  OBVIOUS
<1>1. CASE TakeTask \/ Report \/ FinalizeRun
  BY <1>1, TakeTaskStep, ReportStep, FinalizeStep
<1>2. CASE Admit
  BY <1>2, AdmitStep
<1>3. CASE DisposeRun
  BY <1>3, DisposeStep
<1>4. ASSUME NEW c \in Child,
             \/ SessionCreated(c) \/ RunEnds(c) \/ Timeout(c) \/ Stall(c)
             \/ RetryFires(c) \/ RetryDrained(c)
             \/ Interrupt(c) \/ Resume(c) \/ ResumeDrained(c)
      PROVE  Inv'
  BY <1>4, ChildSteps
<1>5. CASE UNCHANGED vars
  <2>1. Types' /\ Unsubmitted' /\ Accounts(h', granted', queue', active', 0)
    BY <1>5 DEF vars, poolVars, slotVars, Inv, Types, Unsubmitted
  <2> QED
    BY <2>1 DEF Inv
<1> QED
  BY <1>1, <1>2, <1>3, <1>4, <1>5 DEF Next

(* Slots are conserved (registry.ts:545): in every reachable state the     *)
(* counter of active slots is the number of turns that hold one and of     *)
(* grants that have not run yet, at most maxConcurrentChildren, a turn     *)
(* that has ended holds none, and no child waits for a slot (acquireSlot,  *)
(* releaseSlot) while one is free; until a resume() that waited for an     *)
(* abort begins a turn over an open one (runner.ts:261-279).               *)
THEOREM SlotsAlwaysAccounted == Spec => []SlotsAccounted
<1> DEFINE Counted == Tidy /\ (Inv \/ Replaced)
<1>1. Init => Counted
  BY InitInv, InitTidy
<1>2. Counted /\ [Next]_vars => Counted'
  <2>1. Tidy /\ [Next]_vars /\ Replaced => Replaced'
    BY TidyStep DEF Remembered, Replaced
  <2> QED
    BY <2>1, TidyStep, InvStep
<1>3. Counted => SlotsAccounted
  <2> SUFFICES ASSUME Inv PROVE SlotsAccounted
    BY DEF SlotsAccounted
  <2>1. HeldSlots(Child) = Cardinality(Held(h))
    BY DEF HeldSlots, Held
  <2>2. /\ active = Len(granted) + 0 + Cardinality(Held(h)) /\ active \in 0..MaxSlots
        /\ granted \in Seq(Ticket) /\ \A c \in Child : HandleOK(h[c])
        /\ queue # <<>> => active = MaxSlots
    BY DEF Inv, Accounts
  <2>3. Len(granted) \in Nat /\ Cardinality(Held(h)) \in Nat
    BY <2>2, LenProperties, HeldFinite DEF Held
  <2> QED
    BY <2>1, <2>2, <2>3, SubagentsAssumption DEF SlotsAccounted, HandleOK
<1> QED
  BY <1>1, <1>2, <1>3, PTL DEF Spec
=============================================================================
