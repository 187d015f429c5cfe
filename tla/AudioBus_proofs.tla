--------------------------- MODULE AudioBus_proofs ---------------------------
(***************************************************************************)
(* Theorems about AudioBus, for every number of connections, sessions and  *)
(* plugins and every length of the queues.                                 *)
(*                                                                         *)
(* The invariant speaks of a plugin only through its own record and the    *)
(* status and the last number of the sessions, so that each part of an     *)
(* operation is a lemma about one record, whoever calls it.                *)
(***************************************************************************)
EXTENDS AudioBus, FiniteSetTheorems, SequenceTheorems, TLAPS

USE AudioAssumption DEF AudioAssumption

(* The inductive invariant.  x is a client record, ss the sessions.         *)

(* The loop of drain is waited for once, or not at all.                    *)
Ready(x) == x.running + x.scheduled = IF x.draining THEN 1 ELSE 0

(* What is to come of an event: EventOrder, and that a session has none    *)
(* before it began and its end only after it ended.                        *)
InOrder(x, ss) ==
  /\ \A i \in DOMAIN x.queue :
       LET item == x.queue[i]
           h == x.heard[item.session]
       IN /\ ss[item.session].status # "new" /\ item.seq <= ss[item.session].seq
          /\ item.kind = "ended" => ss[item.session].status = "ended"
          /\ ~h.ended
          /\ item.kind = "started" => ~h.started /\ h.last = 0
          /\ \A j \in 1..(i - 1) :
               x.queue[j].session = item.session =>
                 /\ x.queue[j].kind # "ended" /\ item.kind # "started"
                 /\ x.queue[j].seq <= item.seq
  /\ \A s \in Sessions :
       /\ ss[s].status = "new" => /\ ~x.heard[s].started /\ ~x.heard[s].ended
                                  /\ x.heard[s].last = 0
       /\ x.heard[s].ended => ss[s].status = "ended"

(* Every frame of s follows the one before it.                             *)
Followed(x, s) ==
  \A i \in Frames(x, s), j \in Frames(x, s) \cup {0} :
    j < i /\ (\A k \in Frames(x, s) : k <= j \/ k >= i)
      => x.queue[i].seq = Number(x, s, j) + 1 + x.queue[i].droppedBefore

(* The last frame of s the plugin knows of, and what it misses since: once  *)
(* the session has ended, what Forget deleted.                             *)
Untold(x, s) == x.gaps[s] + x.forgotten[s]

Missing(x, s, seq) ==
  \A j \in Frames(x, s) \cup {0} :
    (\A k \in Frames(x, s) : k <= j) => seq = Number(x, s, j) + Untold(x, s)

Listening(x) == x.whole /\ x.state # "closed"

Lossless(x, ss) ==
  /\ \A s \in Sessions : /\ x.gaps[s] <= ss[s].seq
                         /\ ss[s].status # "active" => x.gaps[s] = 0
                         /\ ss[s].status # "ended" => x.forgotten[s] = 0
  /\ Listening(x) =>
       /\ \A s \in Sessions : Followed(x, s) /\ Missing(x, s, ss[s].seq)
       /\ \A i \in DOMAIN x.queue : IsInput(x.queue[i]) => "input" \in x.handlers

ClientInv(x, ss) ==
  x \in ClientType /\ Counted(x) /\ Ready(x) /\ InOrder(x, ss) /\ Lossless(x, ss)

(* Bus and server.                                                         *)
BusInv ==
  /\ conn \in [Connections -> ConnectionType]
  /\ session \in [Sessions -> SessionType]
  /\ \A s \in Sessions :
       /\ session[s].status = "new" => session[s].seq = 0 /\ ~session[s].told
       /\ session[s].status = "active" => session[s].conn \in Connections
       /\ session[s].seq <= limit.frames
  /\ \A k \in Connections : conn[k].open => conn[k].state = "up"
  /\ IsFiniteSet(Active)
  /\ OutputAgrees
  /\ closed \in BOOLEAN /\ limit \in Limits

IInv ==
  /\ BusInv
  /\ client \in [Clients -> ClientType] /\ \A c \in Clients : ClientInv(client[c], session)

-----------------------------------------------------------------------------
(* Queues and their frames.                                                *)
Inputs(q) == {i \in DOMAIN q : IsInput(q[i])}
Before(q, n) == {i \in 1..n : IsInput(q[i])}

LEMMA InputsFinite ==
  ASSUME NEW q \in Seq(ItemType)
  PROVE  IsFiniteSet(Inputs(q)) /\ Cardinality(Inputs(q)) \in Nat
<1>1. Inputs(q) \in SUBSET (1..Len(q)) BY DEF Inputs
<1>2. IsFiniteSet(1..Len(q)) BY FS_Interval, LenProperties
<1>3. IsFiniteSet(Inputs(q)) BY <1>1, <1>2, FS_Subset
<1> QED BY <1>3, FS_CardinalityType

LEMMA BeforeFinite ==
  ASSUME NEW q, NEW n \in Nat
  PROVE  IsFiniteSet(Before(q, n)) /\ Cardinality(Before(q, n)) \in 0..n
<1>1. Before(q, n) \in SUBSET (1..n) BY DEF Before
<1>2. IsFiniteSet(1..n) /\ Cardinality(1..n) = n BY FS_Interval
<1>3. IsFiniteSet(Before(q, n)) /\ Cardinality(Before(q, n)) <= n
  BY <1>1, <1>2, FS_Subset
<1> QED BY <1>3, FS_CardinalityType

LEMMA AppendedInput ==
  ASSUME NEW q \in Seq(ItemType), NEW item \in ItemType, IsInput(item)
  PROVE  Cardinality(Inputs(Append(q, item))) = Cardinality(Inputs(q)) + 1
<1>1. Inputs(Append(q, item)) = Inputs(q) \cup {Len(q) + 1}
  BY AppendProperties, LenProperties DEF Inputs
<1>2. Len(q) + 1 \notin Inputs(q) BY LenProperties DEF Inputs
<1> QED BY <1>1, <1>2, InputsFinite, FS_AddElement

LEMMA AppendedEvents ==
  ASSUME NEW q \in Seq(ItemType), NEW items \in Seq(ItemType),
         \A i \in DOMAIN items : ~IsInput(items[i])
  PROVE  Inputs(q \o items) = Inputs(q)
<1>1. DOMAIN q = 1..Len(q) /\ DOMAIN items = 1..Len(items) /\ Len(q) \in Nat /\ Len(items) \in Nat
  BY LenProperties
<1>2. DOMAIN (q \o items) = 1..(Len(q) + Len(items)) BY ConcatProperties, LenProperties
<1>3. \A i \in 1..(Len(q) + Len(items)) :
        (q \o items)[i] = IF i <= Len(q) THEN q[i] ELSE items[i - Len(q)]
  BY ConcatProperties
<1>4. \A i \in 1..(Len(q) + Len(items)) : ~(i <= Len(q)) => i - Len(q) \in DOMAIN items
  BY <1>1
<1> QED BY <1>1, <1>2, <1>3, <1>4 DEF Inputs

LEMMA RestLength ==
  \A m, n \in Nat : n <= m => (IF n + 1 <= m THEN m - (n + 1) + 1 ELSE 0) = m - n
OBVIOUS

LEMMA Rest ==
  ASSUME NEW q \in Seq(ItemType), NEW n \in 0..Len(q),
         NEW r, r = SubSeq(q, n + 1, Len(q))
  PROVE  /\ r \in Seq(ItemType) /\ Len(r) = Len(q) - n /\ DOMAIN r = 1..(Len(q) - n)
         /\ \A i \in 1..(Len(q) - n) : n + i \in DOMAIN q /\ r[i] = q[n + i]
<1>1. Len(q) \in Nat /\ DOMAIN q = 1..Len(q) /\ \A i \in 1..Len(q) : q[i] \in ItemType
  BY LenProperties, ElementOfSeq
<1>2. n \in Nat /\ n <= Len(q) BY <1>1
<1>3. /\ r \in Seq(ItemType)
      /\ Len(r) = IF n + 1 <= Len(q) THEN Len(q) - (n + 1) + 1 ELSE 0
      /\ \A i \in 1..(Len(q) - (n + 1) + 1) : r[i] = q[(n + 1) + i - 1]
  <2>1. \A i \in (n + 1)..Len(q) : q[i] \in ItemType BY <1>1, <1>2
  <2> QED BY <1>1, <1>2, <2>1, SubSeqProperties
<1>4. Len(r) = Len(q) - n BY <1>1, <1>2, <1>3, RestLength
<1>5. DOMAIN r = 1..(Len(q) - n) BY <1>3, <1>4, LenProperties
<1>6. ASSUME NEW i \in 1..(Len(q) - n) PROVE n + i \in DOMAIN q /\ r[i] = q[n + i]
  <2>1. i \in 1..(Len(q) - (n + 1) + 1) /\ (n + 1) + i - 1 = n + i /\ n + i \in 1..Len(q)
    BY <1>1, <1>2
  <2> QED BY <1>1, <1>3, <2>1
<1> QED BY <1>3, <1>4, <1>5, <1>6

LEMMA Transitive == \A a, b, c \in Nat : a <= b /\ b <= c => a <= c
OBVIOUS

LEMMA ShiftedInputs ==
  ASSUME NEW q \in Seq(ItemType), NEW n \in 0..Len(q)
  PROVE  Cardinality(Inputs(SubSeq(q, n + 1, Len(q))))
           = Cardinality(Inputs(q)) - Cardinality(Before(q, n))
<1> DEFINE r == SubSeq(q, n + 1, Len(q))
           After == {i \in (n + 1)..Len(q) : IsInput(q[i])}
           f == [i \in After |-> i - n]
<1>1. Len(q) \in Nat /\ DOMAIN q = 1..Len(q) BY LenProperties
<1>2. Inputs(q) = Before(q, n) \cup After BY <1>1 DEF Inputs, Before
<1>3. Before(q, n) \cap After = {} BY <1>1 DEF Before
<1>4. IsFiniteSet(Before(q, n)) /\ Cardinality(Before(q, n)) \in Nat BY BeforeFinite, <1>1
<1>5. IsFiniteSet(After) BY <1>2, InputsFinite, FS_Subset
<1>6. Cardinality(After) \in Nat BY <1>5, FS_CardinalityType
<1>7. Cardinality(Inputs(q)) = Cardinality(Before(q, n)) + Cardinality(After)
  <2>1. Cardinality(Before(q, n) \cup After)
          = Cardinality(Before(q, n)) + Cardinality(After) - Cardinality(Before(q, n) \cap After)
    BY <1>4, <1>5, FS_Union
  <2>2. Cardinality(Before(q, n) \cap After) = 0 BY <1>3, FS_EmptySet
  <2> HIDE DEF After
  <2> QED BY <1>2, <1>4, <1>6, <2>1, <2>2
<1>8. f \in Bijection(After, Inputs(r))
  <2>1. r \in Seq(ItemType) /\ DOMAIN r = 1..(Len(q) - n)
        /\ \A i \in 1..(Len(q) - n) : r[i] = q[n + i]
    BY Rest
  <2>2. \A i \in After : i - n \in 1..(Len(q) - n) /\ n + (i - n) = i BY <1>1
  <2>3. f \in [After -> Inputs(r)] BY <2>1, <2>2 DEF Inputs
  <2>4. \A i, j \in After : f[i] = f[j] => i = j BY <1>1
  <2>5. ASSUME NEW j \in Inputs(r) PROVE \E i \in After : f[i] = j
    <3>1. j \in 1..(Len(q) - n) /\ IsInput(q[n + j]) BY <2>1 DEF Inputs
    <3>2. n + j \in After /\ (n + j) - n = j BY <1>1, <3>1
    <3> QED BY <3>2
  <2> HIDE DEF f, After, r
  <2>6. f \in Injection(After, Inputs(r)) BY <2>3, <2>4 DEF Injection, IsInjective
  <2>7. f \in Surjection(After, Inputs(r)) BY <2>3, <2>5 DEF Surjection
  <2> QED BY <2>6, <2>7 DEF Bijection
<1>9. Cardinality(Inputs(r)) = Cardinality(After)
  BY <1>5, <1>8, FS_Bijection DEF ExistsBijection
<1> HIDE DEF After, r
<1>10. Cardinality(Inputs(r)) = Cardinality(Inputs(q)) - Cardinality(Before(q, n))
  BY <1>4, <1>6, <1>7, <1>9
<1> QED BY <1>10 DEF r

-----------------------------------------------------------------------------
(* The order of the events of a session.                                   *)

(* What becomes of the sessions.                                           *)
Onward(ss, tt) ==
  \A s \in Sessions : /\ ss[s].seq <= tt[s].seq
                      /\ ss[s].status # "new" => tt[s].status # "new"
                      /\ ss[s].status = "ended" => tt[s].status = "ended"

(* Events that come as the sessions go from ss to tt.                      *)
News(items, ss, tt) ==
  \A i \in DOMAIN items :
    LET s == items[i].session
    IN /\ items[i].seq = tt[s].seq /\ tt[s].status # "new"
       /\ items[i].kind = "started" => ss[s].status = "new"
       /\ items[i].kind # "started" => ss[s].status = "active"
       /\ items[i].kind = "ended" => tt[s].status = "ended"
       /\ \A j \in DOMAIN items : items[j].session = s => i = j

SessionsType == [Sessions -> SessionType]

LEMMA QueueFacts ==
  ASSUME NEW x \in ClientType
  PROVE  /\ x.queue \in Seq(ItemType) /\ Len(x.queue) \in Nat
         /\ DOMAIN x.queue = 1..Len(x.queue)
         /\ \A i \in DOMAIN x.queue :
              /\ x.queue[i] \in ItemType /\ x.queue[i].session \in Sessions
              /\ x.queue[i].seq \in Nat /\ x.queue[i].droppedBefore \in Nat
              /\ x.queue[i].kind \in Kinds
         /\ \A s \in Sessions : /\ x.heard[s].last \in Nat /\ x.gaps[s] \in Nat
                                /\ x.forgotten[s] \in Nat /\ Untold(x, s) \in Nat
                                /\ x.heard[s].started \in BOOLEAN
                                /\ x.heard[s].ended \in BOOLEAN
<1>1. x.queue \in Seq(ItemType) BY DEF ClientType
<1>2. /\ Len(x.queue) \in Nat /\ DOMAIN x.queue = 1..Len(x.queue)
      /\ \A i \in DOMAIN x.queue : x.queue[i] \in ItemType
  BY <1>1, LenProperties, ElementOfSeq
<1>3. \A item \in ItemType : /\ item.session \in Sessions /\ item.seq \in Nat
                             /\ item.droppedBefore \in Nat /\ item.kind \in Kinds
  BY DEF ItemType
<1>4. /\ x.gaps \in [Sessions -> 0..MaxSeq] /\ x.forgotten \in [Sessions -> 0..MaxSeq]
      /\ x.heard \in [Sessions -> [started : BOOLEAN, last : 0..MaxSeq, ended : BOOLEAN]]
  BY DEF ClientType
<1>5. \A s \in Sessions : /\ x.heard[s].last \in Nat /\ x.gaps[s] \in Nat
                          /\ x.forgotten[s] \in Nat
                          /\ x.heard[s].started \in BOOLEAN /\ x.heard[s].ended \in BOOLEAN
  BY <1>4
<1>6. \A s \in Sessions : Untold(x, s) \in Nat BY <1>5 DEF Untold
<1> QED BY <1>1, <1>2, <1>3, <1>5, <1>6

(* One counter of a plugin is set.                                         *)
LEMMA InputItemsSet ==
  ASSUME NEW x \in ClientType, NEW v \in Nat, NEW y, y = [x EXCEPT !.inputItems = v]
  PROVE  /\ y \in ClientType /\ y.queue = x.queue /\ y.heard = x.heard
      /\ y.gaps = x.gaps /\ y.forgotten = x.forgotten
         /\ y.inputItems = v /\ y.whole = x.whole /\ y.handlers = x.handlers
         /\ y.running = x.running /\ y.scheduled = x.scheduled
         /\ y.draining = x.draining /\ y.outputs = x.outputs /\ y.state = x.state
BY DEF ClientType

LEMMA ScheduledSet ==
  ASSUME NEW x \in ClientType, NEW v \in Nat, NEW y, y = [x EXCEPT !.scheduled = v]
  PROVE  /\ y \in ClientType /\ y.queue = x.queue /\ y.heard = x.heard
      /\ y.gaps = x.gaps /\ y.forgotten = x.forgotten
         /\ y.inputItems = x.inputItems /\ y.whole = x.whole /\ y.handlers = x.handlers
         /\ y.running = x.running /\ y.scheduled = v
         /\ y.draining = x.draining /\ y.outputs = x.outputs /\ y.state = x.state
BY DEF ClientType

LEMMA RunningSet ==
  ASSUME NEW x \in ClientType, NEW v \in Nat, NEW y, y = [x EXCEPT !.running = v]
  PROVE  /\ y \in ClientType /\ y.queue = x.queue /\ y.heard = x.heard
      /\ y.gaps = x.gaps /\ y.forgotten = x.forgotten
         /\ y.inputItems = x.inputItems /\ y.whole = x.whole /\ y.handlers = x.handlers
         /\ y.running = v /\ y.scheduled = x.scheduled
         /\ y.draining = x.draining /\ y.outputs = x.outputs /\ y.state = x.state
BY DEF ClientType

LEMMA SessionFacts ==
  ASSUME NEW ss \in SessionsType, NEW s \in Sessions
  PROVE  ss[s].seq \in 0..MaxSeq /\ ss[s].status \in {"new", "active", "ended"}
BY DEF SessionsType, SessionType

LEMMA OrderKept ==
  ASSUME NEW ss \in SessionsType, NEW tt \in SessionsType, Onward(ss, tt),
         NEW x \in ClientType, NEW y \in ClientType, InOrder(x, ss),
         y.queue = x.queue, y.heard = x.heard
  PROVE  InOrder(y, tt)
<1>1. \A s \in Sessions : ss[s].seq \in Nat /\ tt[s].seq \in Nat BY SessionFacts
<1>2. ASSUME NEW i \in DOMAIN y.queue
      PROVE  LET item == y.queue[i]
                 h == y.heard[item.session]
             IN /\ tt[item.session].status # "new" /\ item.seq <= tt[item.session].seq
                /\ item.kind = "ended" => tt[item.session].status = "ended"
                /\ ~h.ended
                /\ item.kind = "started" => ~h.started /\ h.last = 0
                /\ \A j \in 1..(i - 1) :
                     y.queue[j].session = item.session =>
                       /\ y.queue[j].kind # "ended" /\ item.kind # "started"
                       /\ y.queue[j].seq <= item.seq
  <2> DEFINE s == x.queue[i].session
  <2>1. s \in Sessions /\ x.queue[i].seq \in Nat BY <1>2, QueueFacts
  <2>2. /\ ss[s].status # "new" /\ x.queue[i].seq <= ss[s].seq
        /\ x.queue[i].kind = "ended" => ss[s].status = "ended"
    BY <1>2 DEF InOrder
  <2>3. /\ tt[s].status # "new" /\ ss[s].seq <= tt[s].seq
        /\ ss[s].status = "ended" => tt[s].status = "ended"
    BY <2>1, <2>2 DEF Onward
  <2>4. x.queue[i].seq <= tt[s].seq BY <1>1, <2>1, <2>2, <2>3
  <2> QED BY <1>2, <2>2, <2>3, <2>4 DEF InOrder
<1>3. ASSUME NEW s \in Sessions
      PROVE  /\ tt[s].status = "new" => /\ ~y.heard[s].started /\ ~y.heard[s].ended
                                        /\ y.heard[s].last = 0
             /\ y.heard[s].ended => tt[s].status = "ended"
  BY <1>3 DEF InOrder, Onward
<1> QED BY <1>2, <1>3 DEF InOrder

LEMMA OrderExtended ==
  ASSUME NEW ss \in SessionsType, NEW tt \in SessionsType, Onward(ss, tt),
         NEW x \in ClientType, NEW y \in ClientType, InOrder(x, ss),
         NEW items \in Seq(ItemType), News(items, ss, tt),
         y.queue = x.queue \o items, y.heard = x.heard
  PROVE  InOrder(y, tt)
<1> DEFINE n == Len(x.queue)
<1>1. \A s \in Sessions : ss[s].seq \in Nat /\ tt[s].seq \in Nat BY SessionFacts
<1>2. n \in Nat /\ DOMAIN x.queue = 1..n BY QueueFacts
<1>3. Len(items) \in Nat /\ DOMAIN items = 1..Len(items) BY LenProperties
<1>4. DOMAIN y.queue = 1..(n + Len(items))
  BY ConcatProperties, LenProperties DEF ClientType
<1>5. \A i \in DOMAIN y.queue : y.queue[i] = IF i <= n THEN x.queue[i] ELSE items[i - n]
  BY <1>4, ConcatProperties DEF ClientType
<1>6. \A i \in DOMAIN y.queue : y.queue[i].session \in Sessions /\ y.queue[i].seq \in Nat
  BY QueueFacts
<1> HIDE DEF n
<1>7. ASSUME NEW i \in DOMAIN y.queue
      PROVE  LET item == y.queue[i]
                 h == y.heard[item.session]
             IN /\ tt[item.session].status # "new" /\ item.seq <= tt[item.session].seq
                /\ item.kind = "ended" => tt[item.session].status = "ended"
                /\ ~h.ended
                /\ item.kind = "started" => ~h.started /\ h.last = 0
                /\ \A j \in 1..(i - 1) :
                     y.queue[j].session = item.session =>
                       /\ y.queue[j].kind # "ended" /\ item.kind # "started"
                       /\ y.queue[j].seq <= item.seq
  <2> DEFINE item == y.queue[i]
             s == item.session
  <2>1. s \in Sessions /\ item.seq \in Nat BY <1>6
  <2>2. CASE i <= n
    <3>1. i \in DOMAIN x.queue /\ item = x.queue[i] BY <1>2, <1>4, <1>5, <2>2
    <3>2. /\ ss[s].status # "new" /\ item.seq <= ss[s].seq
          /\ item.kind = "ended" => ss[s].status = "ended"
      BY <3>1 DEF InOrder
    <3>3. /\ tt[s].status # "new" /\ ss[s].seq <= tt[s].seq
          /\ ss[s].status = "ended" => tt[s].status = "ended"
      BY <2>1, <3>2 DEF Onward
    <3>4. item.seq <= tt[s].seq
      <4>1. ss[s].seq \in Nat /\ tt[s].seq \in Nat BY <1>1, <2>1
      <4> QED BY <2>1, <3>2, <3>3, <4>1, Transitive
    <3>5. \A j \in 1..(i - 1) : y.queue[j] = x.queue[j] BY <1>2, <1>4, <1>5, <2>2
    <3>6. /\ ~x.heard[s].ended
          /\ item.kind = "started" => ~x.heard[s].started /\ x.heard[s].last = 0
          /\ \A j \in 1..(i - 1) :
               x.queue[j].session = s => /\ x.queue[j].kind # "ended" /\ item.kind # "started"
                                         /\ x.queue[j].seq <= item.seq
      BY <3>1 DEF InOrder
    <3> QED BY <3>2, <3>3, <3>4, <3>5, <3>6
  <2>3. CASE ~(i <= n)
    <3>1. i - n \in DOMAIN items /\ item = items[i - n] BY <1>2, <1>3, <1>4, <1>5, <2>3
    <3>2. /\ item.seq = tt[s].seq /\ tt[s].status # "new"
          /\ item.kind = "started" => ss[s].status = "new"
          /\ item.kind # "started" => ss[s].status = "active"
          /\ item.kind = "ended" => tt[s].status = "ended"
          /\ \A j \in DOMAIN items : items[j].session = s => i - n = j
      BY <3>1 DEF News
    <3>3. ss[s].status # "ended" BY <3>2
    <3>4. ~x.heard[s].ended /\ (item.kind = "started" => ~x.heard[s].started /\ x.heard[s].last = 0)
      BY <2>1, <3>2, <3>3 DEF InOrder
    <3>5. ASSUME NEW j \in 1..(i - 1), y.queue[j].session = s
          PROVE  /\ y.queue[j].kind # "ended" /\ item.kind # "started"
                 /\ y.queue[j].seq <= item.seq
      <4>1. j \in DOMAIN y.queue /\ j < i BY <1>2, <1>3, <1>4
      <4>2. j <= n
        <5>1. SUFFICES ASSUME ~(j <= n) PROVE FALSE OBVIOUS
        <5>2. j - n \in DOMAIN items /\ y.queue[j] = items[j - n]
          BY <1>2, <1>3, <1>4, <1>5, <4>1, <5>1
        <5>3. i - n = j - n BY <3>2, <3>5, <5>2
        <5> QED BY <1>2, <1>4, <4>1, <5>3
      <4>3. j \in DOMAIN x.queue /\ y.queue[j] = x.queue[j] BY <1>2, <1>4, <1>5, <4>1, <4>2
      <4>4. /\ ss[s].status # "new" /\ y.queue[j].seq <= ss[s].seq
            /\ y.queue[j].kind = "ended" => ss[s].status = "ended"
        BY <3>5, <4>3 DEF InOrder
      <4>5. ss[s].seq <= tt[s].seq BY <2>1 DEF Onward
      <4>6. y.queue[j].seq <= item.seq
        <5>1. ss[s].seq \in Nat /\ tt[s].seq \in Nat /\ y.queue[j].seq \in Nat
          BY <1>1, <1>6, <2>1, <4>1
        <5>2. y.queue[j].seq <= tt[s].seq BY <4>4, <4>5, <5>1, Transitive
        <5> QED BY <3>2, <5>2
      <4> QED BY <3>2, <3>3, <4>4, <4>6
    <3>6. item.seq <= tt[s].seq BY <1>1, <2>1, <3>2
    <3> QED BY <3>2, <3>4, <3>5, <3>6
  <2> QED BY <2>2, <2>3
<1>8. ASSUME NEW s \in Sessions
      PROVE  /\ tt[s].status = "new" => /\ ~y.heard[s].started /\ ~y.heard[s].ended
                                        /\ y.heard[s].last = 0
             /\ y.heard[s].ended => tt[s].status = "ended"
  BY <1>8 DEF InOrder, Onward
<1> QED BY <1>7, <1>8 DEF InOrder

(* The first n items are gone; `item` was one of them and is heard.        *)
Heard(x, n, y) ==
  LET item == x.queue[n]
  IN /\ \A s \in Sessions \ {item.session} : y.heard[s] = x.heard[s]
     /\ y.heard[item.session] = Hear(x.heard[item.session], item)

LEMMA HearFacts ==
  ASSUME NEW h \in [started : BOOLEAN, last : 0..MaxSeq, ended : BOOLEAN],
         NEW item \in ItemType
  PROVE  /\ Hear(h, item) \in [started : BOOLEAN, last : 0..MaxSeq, ended : BOOLEAN]
         /\ Hear(h, item).ended = (h.ended \/ item.kind = "ended")
         /\ Hear(h, item).last = IF IsInput(item) THEN item.seq ELSE h.last
         /\ Hear(h, item).started = (h.started \/ item.kind = "started")
<1>1. item.kind \in {"started", "input", "ended"} /\ item.seq \in 0..MaxSeq
  BY DEF ItemType, Kinds
<1>2. CASE item.kind = "started"
  <2>1. Hear(h, item) = [h EXCEPT !.started = TRUE] BY <1>2 DEF Hear
  <2> QED BY <1>2, <2>1 DEF IsInput
<1>3. CASE item.kind = "input"
  <2>1. Hear(h, item) = [h EXCEPT !.last = item.seq] BY <1>3 DEF Hear
  <2> QED BY <1>1, <1>3, <2>1 DEF IsInput
<1>4. CASE item.kind = "ended"
  <2>1. Hear(h, item) = [h EXCEPT !.ended = TRUE] BY <1>4 DEF Hear
  <2> QED BY <1>4, <2>1 DEF IsInput
<1> QED BY <1>1, <1>2, <1>3, <1>4

LEMMA OrderShifted ==
  ASSUME NEW ss \in SessionsType, NEW x \in ClientType, NEW y \in ClientType,
         InOrder(x, ss), NEW n \in 0..Len(x.queue),
         y.queue = SubSeq(x.queue, n + 1, Len(x.queue)),
         y.heard = x.heard \/ (n # 0 /\ Heard(x, n, y))
  PROVE  InOrder(y, ss)
<1> DEFINE m == Len(x.queue) - n
<1>1. Len(x.queue) \in Nat /\ DOMAIN x.queue = 1..Len(x.queue) BY QueueFacts
<1>2. DOMAIN y.queue = 1..m /\ \A i \in 1..m : n + i \in DOMAIN x.queue /\ y.queue[i] = x.queue[n + i]
  BY QueueFacts, Rest
<1>3. \A i \in DOMAIN x.queue : x.queue[i].session \in Sessions /\ x.queue[i] \in ItemType
  BY QueueFacts
<1>4. \A s \in Sessions : x.heard[s] \in [started : BOOLEAN, last : 0..MaxSeq, ended : BOOLEAN]
  BY DEF ClientType
<1>5. CASE n # 0 /\ Heard(x, n, y)
  <2> DEFINE it == x.queue[n]
             t == it.session
  <2>1. n \in DOMAIN x.queue BY <1>1, <1>5
  <2>2. it \in ItemType /\ t \in Sessions BY <1>3, <2>1
  <2>3. /\ y.heard[t].ended = (x.heard[t].ended \/ it.kind = "ended")
        /\ y.heard[t].last = IF IsInput(it) THEN it.seq ELSE x.heard[t].last
        /\ y.heard[t].started = (x.heard[t].started \/ it.kind = "started")
    BY <1>4, <1>5, <2>2, HearFacts DEF Heard
  <2>4. \A s \in Sessions \ {t} : y.heard[s] = x.heard[s] BY <1>5 DEF Heard
  <2>5. /\ ss[t].status # "new" /\ (it.kind = "ended" => ss[t].status = "ended")
        /\ ~x.heard[t].ended
    BY <2>1 DEF InOrder
  <2>6. ASSUME NEW i \in DOMAIN y.queue
        PROVE  LET item == y.queue[i]
                   h == y.heard[item.session]
               IN /\ ss[item.session].status # "new" /\ item.seq <= ss[item.session].seq
                  /\ item.kind = "ended" => ss[item.session].status = "ended"
                  /\ ~h.ended
                  /\ item.kind = "started" => ~h.started /\ h.last = 0
                  /\ \A j \in 1..(i - 1) :
                       y.queue[j].session = item.session =>
                         /\ y.queue[j].kind # "ended" /\ item.kind # "started"
                         /\ y.queue[j].seq <= item.seq
    <3> DEFINE item == x.queue[n + i]
               s == item.session
    <3>1. /\ n + i \in DOMAIN x.queue /\ y.queue[i] = item /\ n \in 1..((n + i) - 1)
          /\ \A j \in 1..(i - 1) : n + j \in 1..((n + i) - 1) /\ y.queue[j] = x.queue[n + j]
      <4>1. i \in 1..m /\ n \in Nat /\ n > 0 /\ m \in Nat BY <1>1, <1>2, <1>5
      <4>2. n + i \in DOMAIN x.queue /\ y.queue[i] = item BY <1>2, <4>1
      <4>3. n \in 1..((n + i) - 1)
        <5> HIDE DEF m
        <5> QED BY <4>1
      <4>4. \A j \in 1..(i - 1) : j \in 1..m /\ n + j \in 1..((n + i) - 1)
        <5> HIDE DEF m
        <5> QED BY <4>1
      <4> QED BY <1>2, <4>2, <4>3, <4>4
    <3>2. /\ ss[s].status # "new" /\ item.seq <= ss[s].seq
          /\ item.kind = "ended" => ss[s].status = "ended"
          /\ ~x.heard[s].ended
          /\ item.kind = "started" => ~x.heard[s].started /\ x.heard[s].last = 0
          /\ \A j \in 1..((n + i) - 1) :
               x.queue[j].session = s => /\ x.queue[j].kind # "ended" /\ item.kind # "started"
                                         /\ x.queue[j].seq <= item.seq
      BY <3>1 DEF InOrder
    <3>3. s \in Sessions BY <1>3, <3>1
    <3>4. ~y.heard[s].ended
          /\ (item.kind = "started" => ~y.heard[s].started /\ y.heard[s].last = 0)
      <4>1. CASE s # t BY <2>4, <3>2, <3>3, <4>1
      <4>2. CASE s = t
        <5>1. it.kind # "ended" /\ item.kind # "started" BY <3>1, <3>2, <4>2
        <5>2. ~y.heard[t].ended BY <2>3, <2>5, <5>1
        <5> QED BY <4>2, <5>1, <5>2
      <4> QED BY <4>1, <4>2
    <3> QED BY <3>1, <3>2, <3>4
  <2>7. ASSUME NEW s \in Sessions
        PROVE  /\ ss[s].status = "new" => /\ ~y.heard[s].started /\ ~y.heard[s].ended
                                          /\ y.heard[s].last = 0
               /\ y.heard[s].ended => ss[s].status = "ended"
    <3>1. CASE s # t BY <2>4, <3>1 DEF InOrder
    <3>2. CASE s = t BY <2>3, <2>5, <3>2
    <3> QED BY <3>1, <3>2
  <2> QED BY <2>6, <2>7 DEF InOrder
<1>6. CASE y.heard = x.heard
  <2>1. ASSUME NEW i \in DOMAIN y.queue
        PROVE  LET item == y.queue[i]
                   h == y.heard[item.session]
               IN /\ ss[item.session].status # "new" /\ item.seq <= ss[item.session].seq
                  /\ item.kind = "ended" => ss[item.session].status = "ended"
                  /\ ~h.ended
                  /\ item.kind = "started" => ~h.started /\ h.last = 0
                  /\ \A j \in 1..(i - 1) :
                       y.queue[j].session = item.session =>
                         /\ y.queue[j].kind # "ended" /\ item.kind # "started"
                         /\ y.queue[j].seq <= item.seq
    <3>1. /\ n + i \in DOMAIN x.queue /\ y.queue[i] = x.queue[n + i]
          /\ \A j \in 1..(i - 1) : n + j \in 1..((n + i) - 1) /\ y.queue[j] = x.queue[n + j]
      BY <1>1, <1>2
    <3> QED BY <1>6, <3>1 DEF InOrder
  <2> QED BY <1>6, <2>1 DEF InOrder
<1> QED BY <1>5, <1>6

-----------------------------------------------------------------------------
(* The frames of a session and their numbers.                              *)
LEMMA FrameFacts ==
  ASSUME NEW x \in ClientType, NEW s \in Sessions
  PROVE  /\ Frames(x, s) \subseteq 1..Len(x.queue) /\ 0 \notin Frames(x, s)
         /\ Frames(x, s) \subseteq Nat
         /\ \A j \in Frames(x, s) \cup {0} : Number(x, s, j) \in Nat
<1>1. Frames(x, s) \subseteq DOMAIN x.queue BY DEF Frames
<1>2. Frames(x, s) \subseteq 1..Len(x.queue) /\ Len(x.queue) \in Nat BY <1>1, QueueFacts
<1>3. \A j \in Frames(x, s) \cup {0} : Number(x, s, j) \in Nat BY <1>1, QueueFacts DEF Number
<1> QED BY <1>2, <1>3

(* The frames of s are where they were.                                    *)
SameFrames(x, y, s) ==
  /\ Frames(y, s) = Frames(x, s) /\ y.heard[s].last = x.heard[s].last
  /\ \A i \in Frames(x, s) : y.queue[i] = x.queue[i]

LEMMA SameNumbers ==
  ASSUME NEW x, NEW y, NEW s, SameFrames(x, y, s), 0 \notin Frames(x, s)
  PROVE  /\ Followed(x, s) => Followed(y, s)
         /\ \A n : Untold(y, s) = Untold(x, s) /\ Missing(x, s, n) => Missing(y, s, n)
<1>1. \A j \in Frames(x, s) \cup {0} : Number(y, s, j) = Number(x, s, j)
  BY DEF SameFrames, Number
<1>2. Followed(x, s) => Followed(y, s) BY <1>1 DEF SameFrames, Followed
<1>3. \A n : Untold(y, s) = Untold(x, s) /\ Missing(x, s, n) => Missing(y, s, n)
  BY <1>1 DEF SameFrames, Missing
<1> QED BY <1>2, <1>3

LEMMA FramesAppended ==
  ASSUME NEW x \in ClientType, NEW y \in ClientType, NEW s \in Sessions,
         NEW items \in Seq(ItemType), y.queue = x.queue \o items, y.heard = x.heard,
         \A i \in DOMAIN items : ~(IsInput(items[i]) /\ items[i].session = s)
  PROVE  SameFrames(x, y, s)
<1> DEFINE n == Len(x.queue)
<1>1. n \in Nat /\ DOMAIN x.queue = 1..n /\ x.queue \in Seq(ItemType) BY QueueFacts
<1>2. Len(items) \in Nat /\ DOMAIN items = 1..Len(items) BY LenProperties
<1>3. DOMAIN y.queue = 1..(n + Len(items)) BY <1>1, ConcatProperties, LenProperties
<1>4. \A i \in DOMAIN y.queue : y.queue[i] = IF i <= n THEN x.queue[i] ELSE items[i - n]
  BY <1>1, <1>3, ConcatProperties
<1> HIDE DEF n
<1>5. \A i \in DOMAIN y.queue : ~(i <= n) => i - n \in DOMAIN items BY <1>1, <1>2, <1>3
<1>6. \A i \in DOMAIN x.queue : i \in DOMAIN y.queue /\ i <= n BY <1>1, <1>2, <1>3
<1>7. ASSUME NEW i PROVE i \in Frames(y, s) <=> i \in Frames(x, s)
  <2>1. CASE i \in DOMAIN x.queue BY <1>4, <1>6, <2>1 DEF Frames
  <2>2. CASE i \in DOMAIN y.queue /\ i \notin DOMAIN x.queue
    <3>1. ~(i <= n) BY <1>1, <1>3, <2>2
    <3> QED BY <1>4, <1>5, <2>2, <3>1 DEF Frames
  <2>3. CASE i \notin DOMAIN y.queue BY <1>6, <2>3 DEF Frames
  <2> QED BY <2>1, <2>2, <2>3
<1>8. \A i \in Frames(x, s) : y.queue[i] = x.queue[i] BY <1>4, <1>6 DEF Frames
<1> QED BY <1>7, <1>8 DEF SameFrames

LEMMA FramesKept ==
  ASSUME NEW x, NEW y, NEW s, y.queue = x.queue, y.heard = x.heard
  PROVE  SameFrames(x, y, s)
BY DEF SameFrames, Frames

LEMMA NextNumber == \A a, b, c \in Nat : a = b + c => a + 1 = b + 1 + c
OBVIOUS

(* A new frame of s is the last one; what it follows is in droppedBefore.  *)
LEMMA FrameAccepted ==
  ASSUME NEW x \in ClientType, NEW y \in ClientType, NEW s \in Sessions,
         NEW item \in ItemType, IsInput(item), item.session = s,
         y.queue = Append(x.queue, item), y.heard = x.heard, Untold(y, s) = 0,
         NEW n \in Nat, item.seq = n + 1, item.droppedBefore = Untold(x, s),
         Followed(x, s), Missing(x, s, n)
  PROVE  Followed(y, s) /\ Missing(y, s, n + 1)
<1> DEFINE m == Len(x.queue) + 1
<1>1. Len(x.queue) \in Nat /\ DOMAIN x.queue = 1..Len(x.queue) /\ x.queue \in Seq(ItemType)
  BY QueueFacts
<1>2. /\ DOMAIN y.queue = 1..m /\ y.queue[m] = item
      /\ \A i \in 1..Len(x.queue) : y.queue[i] = x.queue[i]
  BY <1>1, AppendProperties, LenProperties
<1>3. m \in Nat /\ m \in 1..m /\ m \notin 1..Len(x.queue) /\ 1..m = 1..Len(x.queue) \cup {m}
  BY <1>1
<1> HIDE DEF m
<1>4. Frames(y, s) = Frames(x, s) \cup {m} BY <1>1, <1>2, <1>3 DEF Frames
<1>5. Frames(x, s) \subseteq 1..Len(x.queue) /\ 0 \notin Frames(x, s) BY FrameFacts
<1>6. \A i \in Frames(x, s) : i \in Nat /\ i < m BY <1>1, <1>3, <1>5 DEF m
<1>7. 0 < m /\ m # 0 BY <1>1 DEF m
<1>8. \A j \in Frames(x, s) \cup {0} : Number(y, s, j) = Number(x, s, j)
  BY <1>2, <1>5 DEF Number
<1>9. Number(y, s, m) = n + 1 BY <1>2, <1>7 DEF Number
<1>10. ASSUME NEW i \in Frames(y, s), NEW j \in Frames(y, s) \cup {0}, j < i,
              \A k \in Frames(y, s) : k <= j \/ k >= i
       PROVE  y.queue[i].seq = Number(y, s, j) + 1 + y.queue[i].droppedBefore
  <2>1. CASE i \in Frames(x, s)
    <3>1. j \in Frames(x, s) \cup {0} BY <1>3, <1>4, <1>6, <1>10, <2>1
    <3>2. x.queue[i].seq = Number(x, s, j) + 1 + x.queue[i].droppedBefore
      BY <1>4, <1>10, <2>1, <3>1 DEF Followed
    <3> QED BY <1>2, <1>5, <1>8, <2>1, <3>1, <3>2
  <2>2. CASE i = m
    <3>1. j \in Frames(x, s) \cup {0} BY <1>3, <1>4, <1>10, <2>2
    <3>2. \A k \in Frames(x, s) : k <= j
      BY <1>3, <1>4, <1>6, <1>10, <2>2
    <3>3. n = Number(x, s, j) + Untold(x, s) BY <3>1, <3>2 DEF Missing
    <3>4. Number(x, s, j) \in Nat /\ Untold(x, s) \in Nat BY <3>1, FrameFacts, QueueFacts
    <3>5. y.queue[i].seq = n + 1 /\ y.queue[i].droppedBefore = Untold(x, s) BY <1>2, <2>2
    <3>6. n + 1 = Number(x, s, j) + 1 + Untold(x, s)
      BY ONLY n \in Nat, <3>3, <3>4, NextNumber, Zenon
    <3>7. Number(y, s, j) = Number(x, s, j) BY <1>8, <3>1
    <3> QED BY <3>5, <3>6, <3>7
  <2> QED BY <1>4, <2>1, <2>2
<1>11. Followed(y, s) BY ONLY <1>10 DEF Followed
<1>12. Missing(y, s, n + 1)
  <2> SUFFICES ASSUME NEW j \in Frames(y, s) \cup {0}, \A k \in Frames(y, s) : k <= j
               PROVE  n + 1 = Number(y, s, j) + Untold(y, s)
    BY DEF Missing
  <2>1. j = m
    <3>1. m <= j BY <1>4
    <3> QED BY <1>3, <1>4, <1>6, <1>7, <3>1
  <2> QED BY <1>9, <2>1
<1> QED BY <1>11, <1>12

LEMMA FrameDropped ==
  ASSUME NEW x \in ClientType, NEW y \in ClientType, NEW s \in Sessions,
         y.queue = x.queue, y.heard = x.heard, Untold(y, s) = Untold(x, s) + 1,
         NEW n \in Nat, Followed(x, s), Missing(x, s, n)
  PROVE  Followed(y, s) /\ Missing(y, s, n + 1)
<1>1. Frames(y, s) = Frames(x, s) BY DEF Frames
<1>2. \A j \in Frames(x, s) \cup {0} : Number(y, s, j) = Number(x, s, j) /\ Number(x, s, j) \in Nat
  BY FrameFacts DEF Number
<1>3. Followed(y, s) BY <1>1, <1>2 DEF Followed
<1>4. Untold(x, s) \in Nat BY QueueFacts
<1>5. Missing(y, s, n + 1)
  <2> SUFFICES ASSUME NEW j \in Frames(y, s) \cup {0}, \A k \in Frames(y, s) : k <= j
               PROVE  n + 1 = Number(y, s, j) + Untold(y, s)
    BY DEF Missing
  <2>1. n = Number(x, s, j) + Untold(x, s) BY <1>1 DEF Missing
  <2> QED BY <1>1, <1>2, <1>4, <2>1
<1> QED BY <1>3, <1>5

(* The first n items are gone; those before the n-th were no frames.       *)
LEMMA FramesShifted ==
  ASSUME NEW x \in ClientType, NEW y \in ClientType, NEW s \in Sessions,
         NEW n \in 0..Len(x.queue), y.queue = SubSeq(x.queue, n + 1, Len(x.queue)),
         \/ y.heard = x.heard /\ (n = 0 \/ ~IsInput(x.queue[n]))
         \/ n # 0 /\ Heard(x, n, y),
         \A i \in 1..(n - 1) : ~IsInput(x.queue[i]),
         Untold(y, s) = Untold(x, s)
  PROVE  /\ Followed(x, s) => Followed(y, s)
         /\ \A q : Missing(x, s, q) => Missing(y, s, q)
<1> DEFINE m == Len(x.queue) - n
           At(j) == IF j # 0 THEN j + n ELSE IF n \in Frames(x, s) THEN n ELSE 0
<1>1. /\ Len(x.queue) \in Nat /\ DOMAIN x.queue = 1..Len(x.queue)
      /\ \A i \in DOMAIN x.queue : x.queue[i].session \in Sessions /\ x.queue[i] \in ItemType
  BY QueueFacts
<1>2. DOMAIN y.queue = 1..m /\ \A i \in 1..m : n + i \in DOMAIN x.queue /\ y.queue[i] = x.queue[n + i]
  BY QueueFacts, Rest
<1>3. m \in Nat /\ n \in Nat BY <1>1
<1>4. Frames(x, s) \subseteq 1..Len(x.queue) /\ Frames(y, s) \subseteq 1..m
  BY <1>1, <1>2 DEF Frames
<1>5. ASSUME NEW i \in Frames(y, s) PROVE i \in Nat /\ i # 0 /\ i + n \in Frames(x, s)
                                           /\ y.queue[i] = x.queue[i + n]
  <2>1. i \in 1..m /\ IsInput(y.queue[i]) /\ y.queue[i].session = s BY <1>2 DEF Frames
  <2>2. n + i = i + n BY <1>3, <2>1
  <2> QED BY <1>2, <1>3, <2>1, <2>2 DEF Frames
<1>6. ASSUME NEW k \in Frames(x, s) PROVE k = n \/ (k - n \in Frames(y, s) /\ k > n)
  <2>1. k \in 1..Len(x.queue) /\ IsInput(x.queue[k]) /\ x.queue[k].session = s
    BY <1>1 DEF Frames
  <2>2. ~(k < n)
    <3>1. SUFFICES ASSUME k < n PROVE FALSE OBVIOUS
    <3>2. k \in 1..(n - 1) BY <1>3, <2>1, <3>1
    <3> QED BY <2>1, <3>2
  <2>3. k # n => k - n \in 1..m /\ n + (k - n) = k /\ k > n BY <1>1, <1>3, <2>1, <2>2
  <2> QED BY <1>2, <2>1, <2>3 DEF Frames
<1> HIDE DEF m
<1>7. \A j \in Frames(y, s) \cup {0} : At(j) \in Frames(x, s) \cup {0} BY <1>3, <1>5
<1>8. \A j \in Frames(y, s) \cup {0} : Number(y, s, j) = Number(x, s, At(j))
  <2>1. ASSUME NEW j \in Frames(y, s) PROVE Number(y, s, j) = Number(x, s, At(j))
    <3>1. j \in Nat /\ j # 0 /\ y.queue[j] = x.queue[j + n] BY <1>5
    <3>2. j + n # 0 BY <1>3, <3>1
    <3> QED BY <3>1, <3>2 DEF Number
  <2>2. y.heard[s].last = Number(x, s, At(0))
    <3>1. CASE n \in Frames(x, s)
      <4>1. n # 0 /\ IsInput(x.queue[n]) /\ x.queue[n].session = s /\ n \in DOMAIN x.queue
        BY <1>4, <3>1 DEF Frames
      <4>2. Heard(x, n, y) BY <4>1
      <4>3. y.heard[s] = Hear(x.heard[s], x.queue[n]) BY <4>1, <4>2 DEF Heard
      <4>4. x.heard[s] \in [started : BOOLEAN, last : 0..MaxSeq, ended : BOOLEAN]
        BY DEF ClientType
      <4>5. y.heard[s].last = x.queue[n].seq BY <1>1, <4>1, <4>3, <4>4, HearFacts
      <4> QED BY <3>1, <4>1, <4>5 DEF Number
    <3>2. CASE n \notin Frames(x, s)
      <4>1. CASE y.heard = x.heard BY <3>2, <4>1 DEF Number
      <4>2. CASE n # 0 /\ Heard(x, n, y)
        <5>1. n \in DOMAIN x.queue BY <1>1, <4>2
        <5>2. CASE x.queue[n].session # s BY <3>2, <4>2, <5>2 DEF Heard, Number
        <5>3. CASE x.queue[n].session = s
          <6>1. ~IsInput(x.queue[n]) BY <3>2, <5>1, <5>3 DEF Frames
          <6>2. x.heard[s] \in [started : BOOLEAN, last : 0..MaxSeq, ended : BOOLEAN]
            BY DEF ClientType
          <6>3. y.heard[s] = Hear(x.heard[s], x.queue[n]) BY <4>2, <5>3 DEF Heard
          <6>4. y.heard[s].last = x.heard[s].last BY <1>1, <5>1, <6>1, <6>2, <6>3, HearFacts
          <6> QED BY <3>2, <6>4 DEF Number
        <5> QED BY <5>2, <5>3
      <4> QED BY <4>1, <4>2
    <3> QED BY <3>1, <3>2
  <2>3. Number(y, s, 0) = y.heard[s].last BY DEF Number
  <2> QED BY <2>1, <2>2, <2>3
<1>9. ASSUME NEW j \in Frames(y, s) \cup {0}, NEW k \in Frames(x, s),
             k # n => k - n <= j
      PROVE  k <= At(j)
  <2>1. k \in Nat /\ j \in Nat BY <1>1, <1>4, <1>5
  <2>2. CASE k = n
    <3>1. CASE j = 0 BY <1>3, <2>2, <3>1
    <3>2. CASE j # 0 BY <1>3, <2>1, <2>2, <3>2
    <3> QED BY <3>1, <3>2
  <2>3. CASE k # n
    <3>1. k - n <= j /\ k > n BY <1>6, <1>9, <2>3
    <3>2. j # 0 BY <1>3, <2>1, <3>1
    <3> QED BY <1>3, <2>1, <3>1, <3>2
  <2> QED BY <2>2, <2>3
<1>10. ASSUME Followed(x, s) PROVE Followed(y, s)
  <2> SUFFICES ASSUME NEW i \in Frames(y, s), NEW j \in Frames(y, s) \cup {0}, j < i,
                      \A k \in Frames(y, s) : k <= j \/ k >= i
               PROVE  y.queue[i].seq = Number(y, s, j) + 1 + y.queue[i].droppedBefore
    BY DEF Followed
  <2>1. i + n \in Frames(x, s) /\ At(j) \in Frames(x, s) \cup {0} /\ i \in Nat /\ j \in Nat
    BY <1>5, <1>7
  <2>2. At(j) < i + n
    <3>1. i > 0 BY <1>5, <2>1
    <3> QED BY <1>3, <2>1, <3>1
  <2>3. ASSUME NEW k \in Frames(x, s) PROVE k <= At(j) \/ k >= i + n
    <3>1. CASE k = n \/ k - n <= j BY <1>9, <3>1
    <3>2. CASE k # n /\ ~(k - n <= j)
      <4>1. k - n \in Frames(y, s) /\ k \in Nat BY <1>1, <1>4, <1>6, <3>2
      <4>2. k - n >= i BY <3>2, <4>1
      <4> QED BY <1>3, <2>1, <4>1, <4>2
    <3> QED BY <3>1, <3>2
  <2>4. x.queue[i + n].seq = Number(x, s, At(j)) + 1 + x.queue[i + n].droppedBefore
    BY <1>10, <2>1, <2>2, <2>3 DEF Followed
  <2> QED BY <1>5, <1>8, <2>4
<1>11. ASSUME NEW q, Missing(x, s, q) PROVE Missing(y, s, q)
  <2> SUFFICES ASSUME NEW j \in Frames(y, s) \cup {0}, \A k \in Frames(y, s) : k <= j
               PROVE  q = Number(y, s, j) + Untold(y, s)
    BY DEF Missing
  <2>1. \A k \in Frames(x, s) : k <= At(j) BY <1>6, <1>9
  <2>2. q = Number(x, s, At(j)) + Untold(x, s) BY <1>7, <1>11, <2>1 DEF Missing
  <2> QED BY <1>8, <2>2
<1> QED BY <1>10, <1>11

-----------------------------------------------------------------------------
(* The operations on one plugin.  Every one leaves its outputs alone.      *)
Fitted(x) == x \in ClientType /\ Counted(x)
Beside(x, y) == y.outputs = x.outputs /\ y.state = x.state

LEMMA MinOfTwo ==
  ASSUME NEW a \in Int, NEW b \in Int
  PROVE  Min({a, b}) = IF a <= b THEN a ELSE b
<1>1. \E x \in {a, b} : \A y \in {a, b} : x =< y
  OBVIOUS
<1>2. \A x \in {a, b} : (\A y \in {a, b} : x =< y) => x = (IF a <= b THEN a ELSE b)
  OBVIOUS
<1> QED
  BY <1>1, <1>2 DEF Min

LEMMA CountedInputs ==
  ASSUME NEW x
  PROVE  Counted(x) <=> /\ x.inputItems = Cardinality(Inputs(x.queue))
                        /\ x.inputItems <= QueueMax
                        /\ Len(x.queue) - x.inputItems <= LifecycleMax
BY DEF Counted, Inputs, Waiting

LEMMA WakeFacts ==
  ASSUME NEW x \in ClientType, Ready(x)
  PROVE  LET y == Wake(x)
         IN /\ y \in ClientType /\ Ready(y) /\ Beside(x, y)
            /\ y.queue = x.queue /\ y.heard = x.heard /\ y.whole = x.whole
            /\ y.gaps = x.gaps /\ y.forgotten = x.forgotten
            /\ y.handlers = x.handlers /\ y.inputItems = x.inputItems
<1>1. CASE x.draining BY <1>1 DEF Wake, Beside
<1>2. CASE ~x.draining
  <2>1. Wake(x) = [[x EXCEPT !.draining = TRUE] EXCEPT !.scheduled = x.scheduled + 1]
    BY <1>2 DEF Wake, ClientType
  <2>2. x.scheduled \in Nat /\ x.running \in Nat BY DEF ClientType
  <2>3. Wake(x) \in ClientType
    <3> DEFINE z == [x EXCEPT !.draining = TRUE]
    <3>1. z \in ClientType BY DEF ClientType
    <3>2. x.scheduled + 1 \in Nat BY <2>2
    <3>3. Wake(x) = [z EXCEPT !.scheduled = x.scheduled + 1] BY <2>1
    <3> HIDE DEF z
    <3> QED BY <3>1, <3>2, <3>3 DEF ClientType
  <2>4. /\ Wake(x).scheduled = x.scheduled + 1 /\ Wake(x).draining = TRUE
        /\ Wake(x).running = x.running
    BY <2>1 DEF ClientType
  <2>5. x.running + x.scheduled = 0 BY <1>2 DEF Ready
  <2>6. Ready(Wake(x)) BY <2>2, <2>4, <2>5 DEF Ready
  <2> QED BY <2>1, <2>3, <2>6 DEF Beside, ClientType
<1> QED BY <1>1, <1>2

(* Being woken is no matter of the events.                                 *)
LEMMA WokenKeeps ==
  ASSUME NEW ss \in SessionsType, NEW x \in ClientType, Ready(x), InOrder(x, ss),
         Lossless(x, ss)
  PROVE  InOrder(Wake(x), ss) /\ Lossless(Wake(x), ss)
<1> DEFINE y == Wake(x)
<1>1. /\ y \in ClientType /\ y.queue = x.queue /\ y.heard = x.heard
      /\ y.gaps = x.gaps /\ y.forgotten = x.forgotten
      /\ y.whole = x.whole /\ y.handlers = x.handlers /\ y.state = x.state
  BY WakeFacts DEF Beside
<1> HIDE DEF y
<1>2. InOrder(y, ss) BY <1>1 DEF InOrder
<1>3. \A s \in Sessions : SameFrames(x, y, s) /\ 0 \notin Frames(x, s)
  BY <1>1, FramesKept, FrameFacts
<1>4. Listening(y) <=> Listening(x) BY <1>1 DEF Listening
<1>5. ASSUME Listening(y), NEW s \in Sessions
      PROVE  Followed(y, s) /\ Missing(y, s, ss[s].seq)
  BY <1>1, <1>3, <1>4, <1>5, SameNumbers DEF Lossless, Untold
<1>6. Lossless(y, ss) BY <1>1, <1>4, <1>5 DEF Lossless
<1> QED BY <1>2, <1>6 DEF y

(* A plugin that is not touched while the sessions go on.                  *)
LEMMA LosslessKept ==
  ASSUME NEW ss \in SessionsType, NEW tt \in SessionsType,
         NEW x \in ClientType, NEW y \in ClientType, Lossless(x, ss), InOrder(x, ss),
         y.queue = x.queue, y.heard = x.heard,
         Listening(y) => Listening(x) /\ ("input" \in x.handlers => "input" \in y.handlers),
         \A s \in Sessions :
           /\ tt[s].seq = ss[s].seq
           /\ tt[s].status = "active" => y.gaps[s] = x.gaps[s]
           /\ tt[s].status # "active" => y.gaps[s] = 0
           /\ tt[s].status # "ended" => y.forgotten[s] = 0
           /\ Untold(y, s) = Untold(x, s)
  PROVE  Lossless(y, tt)
<1>1. \A s \in Sessions : /\ y.gaps[s] <= tt[s].seq
                          /\ tt[s].status # "active" => y.gaps[s] = 0
                          /\ tt[s].status # "ended" => y.forgotten[s] = 0
  BY SessionFacts DEF Lossless
<1>2. ASSUME Listening(y), NEW s \in Sessions
      PROVE  Followed(y, s) /\ Missing(y, s, tt[s].seq)
  <2>1. Listening(x) BY <1>2
  <2>2. SameFrames(x, y, s) /\ 0 \notin Frames(x, s) BY FramesKept, FrameFacts
  <2>3. Followed(x, s) /\ Missing(x, s, tt[s].seq) BY <2>1 DEF Lossless
  <2> QED BY <2>2, <2>3, SameNumbers
<1>3. ASSUME Listening(y), NEW i \in DOMAIN y.queue, IsInput(y.queue[i])
      PROVE  "input" \in y.handlers
  BY <1>3 DEF Lossless
<1> QED BY <1>1, <1>2, <1>3 DEF Lossless

(* A start, or ends one after the other.                                   *)
LEMMA EventsKeep ==
  ASSUME NEW ss \in SessionsType, NEW tt \in SessionsType, Onward(ss, tt),
         NEW x \in ClientType, Counted(x), Ready(x), InOrder(x, ss), Lossless(x, tt),
         NEW items \in Seq(ItemType), News(items, ss, tt),
         \A i \in DOMAIN items : ~IsInput(items[i])
  PROVE  ClientInv(EnqueueEvents(x, items), tt) /\ Beside(x, EnqueueEvents(x, items))
<1> DEFINE room == LifecycleMax - Waiting(x)
           n == Min({room, Len(items)})
           fitting == SubSeq(items, 1, n)
           y == AppendEvents(x, fitting)
<1>1. CASE room <= 0 \/ items = <<>>
  <2>1. EnqueueEvents(x, items) = x BY <1>1 DEF EnqueueEvents
  <2>2. InOrder(x, tt) BY OrderKept
  <2> QED BY <2>1, <2>2 DEF ClientInv, Beside
<1>2. CASE ~(room <= 0 \/ items = <<>>)
  <2>1. EnqueueEvents(x, items) = Wake(y) BY <1>2 DEF EnqueueEvents
  <2>2. /\ x.queue \in Seq(ItemType) /\ Len(x.queue) \in Nat /\ x.inputItems \in Nat
        /\ Len(items) \in Nat /\ DOMAIN items = 1..Len(items)
    BY QueueFacts, LenProperties DEF ClientType
  <2>3. room \in Int /\ room > 0 BY <1>2, <2>2 DEF Waiting
  <2>4. n = IF room <= Len(items) THEN room ELSE Len(items)
    <3> HIDE DEF room
    <3> QED BY <2>2, <2>3, MinOfTwo
  <2>5. n \in Nat /\ n <= room /\ n <= Len(items)
    <3> HIDE DEF room, n
    <3> QED BY <2>2, <2>3, <2>4
  <2>6. /\ fitting \in Seq(ItemType) /\ Len(fitting) = n
        /\ \A i \in 1..n : fitting[i] = items[i]
    <3> HIDE DEF n
    <3>1. \A i \in 1..n : items[i] \in ItemType BY <2>2, <2>5, ElementOfSeq
    <3>2. /\ SubSeq(items, 1, n) \in Seq(ItemType)
          /\ Len(SubSeq(items, 1, n)) = IF 1 <= n THEN n - 1 + 1 ELSE 0
          /\ \A i \in 1..(n - 1 + 1) : SubSeq(items, 1, n)[i] = items[1 + i - 1]
      BY <2>5, <3>1, SubSeqProperties
    <3>3. Len(SubSeq(items, 1, n)) = n BY <2>5, <3>2
    <3>4. \A i \in 1..n : SubSeq(items, 1, n)[i] = items[i]
      <4>1. \A i \in 1..n : i \in 1..(n - 1 + 1) /\ 1 + i - 1 = i BY <2>5
      <4> QED BY <3>2, <4>1
    <3> QED BY <3>2, <3>3, <3>4
  <2>7. DOMAIN fitting = 1..n /\ DOMAIN fitting \subseteq DOMAIN items
    <3>1. DOMAIN fitting = 1..n BY <2>6, LenProperties
    <3> HIDE DEF n, fitting
    <3> QED BY <2>2, <2>5, <3>1
  <2>8. \A i \in DOMAIN fitting : fitting[i] = items[i] BY <2>6, <2>7
  <2> HIDE DEF fitting, n
  <2>9. News(fitting, ss, tt) /\ \A i \in DOMAIN fitting : ~IsInput(fitting[i])
    BY <2>7, <2>8 DEF News
  <2>10. x.queue \o fitting \in Seq(ItemType) /\ Len(x.queue \o fitting) = Len(x.queue) + n
    BY <2>2, <2>6, ConcatProperties
  <2>11. /\ y \in ClientType /\ y.queue = x.queue \o fitting /\ y.heard = x.heard
         /\ y.gaps = x.gaps /\ y.forgotten = x.forgotten
         /\ y.inputItems = x.inputItems /\ y.whole = x.whole
         /\ y.handlers = x.handlers /\ Beside(x, y) /\ y.running = x.running
         /\ y.scheduled = x.scheduled /\ y.draining = x.draining
    BY <2>10 DEF AppendEvents, ClientType, Beside
  <2> HIDE DEF y
  <2>12. InOrder(y, tt) BY <2>6, <2>9, <2>11, OrderExtended
  <2>13. Counted(y)
    <3>1. Cardinality(Inputs(y.queue)) = Cardinality(Inputs(x.queue))
      BY <2>2, <2>6, <2>9, <2>11, AppendedEvents
    <3>2. Len(y.queue) - y.inputItems <= LifecycleMax
      <4>1. Len(y.queue) = Len(x.queue) + n BY <2>10, <2>11
      <4>2. n <= LifecycleMax - (Len(x.queue) - x.inputItems) BY <2>5 DEF Waiting
      <4> QED BY <2>2, <2>5, <2>11, <4>1, <4>2
    <3> QED BY <2>11, <3>1, <3>2, CountedInputs
  <2>14. Ready(y) BY <2>11 DEF Ready
  <2>15. Lossless(y, tt)
    <3>1. \A s \in Sessions : SameFrames(x, y, s) /\ 0 \notin Frames(x, s)
      BY <2>6, <2>9, <2>11, FramesAppended, FrameFacts
    <3>2. Listening(y) <=> Listening(x) BY <2>11 DEF Listening, Beside
    <3>3. \A s \in Sessions : /\ y.gaps[s] <= tt[s].seq
                              /\ tt[s].status # "active" => y.gaps[s] = 0
                              /\ tt[s].status # "ended" => y.forgotten[s] = 0
      BY <2>11 DEF Lossless
    <3>4. ASSUME Listening(y), NEW s \in Sessions
          PROVE  Followed(y, s) /\ Missing(y, s, tt[s].seq)
      BY <2>11, <3>1, <3>2, <3>4, SameNumbers DEF Lossless, Untold
    <3>5. ASSUME Listening(y), NEW i \in DOMAIN y.queue, IsInput(y.queue[i])
          PROVE  "input" \in y.handlers
      <4>1. i \in Inputs(y.queue) BY <3>5 DEF Inputs
      <4>2. i \in Inputs(x.queue) BY <2>2, <2>6, <2>9, <2>11, <4>1, AppendedEvents
      <4> QED BY <2>11, <3>2, <3>5, <4>2 DEF Lossless, Inputs
    <3> QED BY <3>3, <3>4, <3>5 DEF Lossless
  <2>16. ClientInv(Wake(y), tt)
    <3>1. /\ Wake(y) \in ClientType /\ Ready(Wake(y))
          /\ Wake(y).queue = y.queue /\ Wake(y).inputItems = y.inputItems
      BY <2>11, <2>14, WakeFacts
    <3>2. Counted(Wake(y)) BY <2>13, <3>1, CountedInputs
    <3>3. InOrder(Wake(y), tt) /\ Lossless(Wake(y), tt) BY <2>11, <2>12, <2>14, <2>15, WokenKeeps
    <3> QED BY <3>1, <3>2, <3>3 DEF ClientInv
  <2>17. Beside(x, Wake(y)) BY <2>11, <2>14, WakeFacts DEF Beside
  <2> QED BY <2>1, <2>16, <2>17
<1> QED BY <1>1, <1>2

(* A frame of s.                                                           *)
Pushed(ss, tt, s, item) ==
  /\ s \in Sessions /\ ss[s].status = "active" /\ tt[s].seq = ss[s].seq + 1
  /\ \A t \in Sessions : /\ tt[t].status = ss[t].status
                         /\ t # s => tt[t].seq = ss[t].seq
  /\ IsInput(item) /\ item.session = s /\ item.seq = tt[s].seq

LEMMA PushedOnward ==
  ASSUME NEW ss \in SessionsType, NEW tt \in SessionsType, NEW s, NEW item,
         Pushed(ss, tt, s, item)
  PROVE  Onward(ss, tt)
<1>1. \A t \in Sessions : ss[t].seq \in Nat /\ tt[t].seq \in Nat BY SessionFacts
<1>2. \A t \in Sessions : ss[t].seq <= tt[t].seq BY <1>1 DEF Pushed
<1> QED BY <1>2 DEF Onward, Pushed

LEMMA FrameMissed ==
  ASSUME NEW ss \in SessionsType, NEW tt \in SessionsType, NEW s, NEW item,
         Pushed(ss, tt, s, item), NEW x, ClientInv(x, ss)
  PROVE  LET y == [x EXCEPT !.whole = FALSE] IN ClientInv(y, tt) /\ Beside(x, y)
<1> DEFINE y == [x EXCEPT !.whole = FALSE]
<1>1. x \in ClientType /\ Counted(x) /\ Ready(x) /\ InOrder(x, ss) /\ Lossless(x, ss)
  BY DEF ClientInv
<1>2. /\ y \in ClientType /\ y.queue = x.queue /\ y.heard = x.heard
      /\ y.gaps = x.gaps /\ y.forgotten = x.forgotten
      /\ y.inputItems = x.inputItems /\ y.whole = FALSE /\ Beside(x, y)
      /\ y.running = x.running /\ y.scheduled = x.scheduled /\ y.draining = x.draining
  BY <1>1 DEF ClientType, Beside
<1> HIDE DEF y
<1>3. InOrder(y, tt) BY <1>1, <1>2, PushedOnward, OrderKept
<1>4. Counted(y) BY <1>1, <1>2, CountedInputs
<1>5. Ready(y) BY <1>1, <1>2 DEF Ready
<1>6. \A t \in Sessions : /\ y.gaps[t] <= tt[t].seq
                          /\ tt[t].status # "active" => y.gaps[t] = 0
                          /\ tt[t].status # "ended" => y.forgotten[t] = 0
  <2>1. \A t \in Sessions : ss[t].seq <= tt[t].seq BY PushedOnward DEF Onward
  <2>2. \A t \in Sessions : ss[t].seq \in Nat /\ tt[t].seq \in Nat /\ x.gaps[t] \in Nat
    BY <1>1, SessionFacts, QueueFacts
  <2> QED BY <1>1, <1>2, <2>1, <2>2 DEF Lossless, Pushed
<1>7. ~Listening(y) BY <1>2 DEF Listening
<1>8. Lossless(y, tt) BY <1>6, <1>7 DEF Lossless
<1> QED BY <1>2, <1>3, <1>4, <1>5, <1>8 DEF ClientInv, y

(* The parts of Lossless that are about the other sessions.                *)
LEMMA FrameElsewhere ==
  ASSUME NEW ss \in SessionsType, NEW tt \in SessionsType, NEW s, NEW item,
         Pushed(ss, tt, s, item), NEW x \in ClientType, NEW y \in ClientType,
         Lossless(x, ss), Listening(x), NEW t \in Sessions, t # s,
         SameFrames(x, y, t), Untold(y, t) = Untold(x, t)
  PROVE  Followed(y, t) /\ Missing(y, t, tt[t].seq)
<1>1. tt[t].status = ss[t].status /\ tt[t].seq = ss[t].seq BY DEF Pushed
<1>2. 0 \notin Frames(x, t) BY FrameFacts
<1> QED BY <1>1, <1>2, SameNumbers DEF Lossless

LEMMA FrameDroppedKeeps ==
  ASSUME NEW ss \in SessionsType, NEW tt \in SessionsType, NEW s, NEW item,
         Pushed(ss, tt, s, item), NEW x, ClientInv(x, ss)
  PROVE  LET y == [x EXCEPT !.gaps[s] = @ + 1] IN ClientInv(y, tt) /\ Beside(x, y)
<1> DEFINE y == [x EXCEPT !.gaps[s] = @ + 1]
<1>1. x \in ClientType /\ Counted(x) /\ Ready(x) /\ InOrder(x, ss) /\ Lossless(x, ss)
  BY DEF ClientInv
<1>2. s \in Sessions /\ x.gaps \in [Sessions -> 0..MaxSeq] BY <1>1 DEF Pushed, ClientType
<1>3. \A t \in Sessions : /\ ss[t].seq \in Nat /\ tt[t].seq \in 0..MaxSeq /\ x.gaps[t] \in Nat
                          /\ x.gaps[t] <= ss[t].seq /\ ss[t].seq <= tt[t].seq
  BY <1>1, SessionFacts, QueueFacts, PushedOnward DEF Lossless, Onward
<1>4. x.gaps[s] + 1 <= tt[s].seq /\ x.gaps[s] + 1 \in 0..MaxSeq
  <2>1. tt[s].seq = ss[s].seq + 1 BY DEF Pushed
  <2> QED BY <1>2, <1>3, <2>1
<1> DEFINE g == [x.gaps EXCEPT ![s] = x.gaps[s] + 1]
<1>5. /\ g \in [Sessions -> 0..MaxSeq] /\ g[s] = x.gaps[s] + 1
      /\ \A t \in Sessions : t # s => g[t] = x.gaps[t]
  BY <1>2, <1>4
<1>6. y = [x EXCEPT !.gaps = g] BY <1>1 DEF ClientType
<1> HIDE DEF g, y
<1>7. /\ y \in ClientType /\ y.queue = x.queue /\ y.heard = x.heard
      /\ y.gaps = g /\ y.forgotten = x.forgotten
      /\ y.inputItems = x.inputItems /\ y.whole = x.whole /\ y.handlers = x.handlers
      /\ Beside(x, y)
      /\ y.running = x.running /\ y.scheduled = x.scheduled /\ y.draining = x.draining
  BY <1>1, <1>5, <1>6 DEF ClientType, Beside
<1>8. InOrder(y, tt) BY <1>1, <1>7, PushedOnward, OrderKept
<1>9. Counted(y) BY <1>1, <1>7, CountedInputs
<1>10. Ready(y) BY <1>1, <1>7 DEF Ready
<1>11. \A t \in Sessions : /\ y.gaps[t] <= tt[t].seq
                           /\ tt[t].status # "active" => y.gaps[t] = 0
                           /\ tt[t].status # "ended" => y.forgotten[t] = 0
  <2> SUFFICES ASSUME NEW t \in Sessions
               PROVE  y.gaps[t] <= tt[t].seq /\ (tt[t].status # "active" => y.gaps[t] = 0)
    BY <1>1, <1>7 DEF Lossless, Pushed
  <2>1. CASE t = s BY <1>4, <1>5, <1>7, <2>1 DEF Pushed
  <2>2. CASE t # s
    <3>1. y.gaps[t] = x.gaps[t] BY <1>5, <1>7, <2>2
    <3>2. tt[t].status = ss[t].status BY DEF Pushed
    <3> QED BY <1>1, <1>3, <3>1, <3>2 DEF Lossless
  <2> QED BY <2>1, <2>2
<1>12. ASSUME Listening(y), NEW t \in Sessions
       PROVE  Followed(y, t) /\ Missing(y, t, tt[t].seq)
  <2>1. Listening(x) BY <1>7, <1>12 DEF Listening, Beside
  <2>2. CASE t = s
    <3>1. Followed(x, s) /\ Missing(x, s, ss[s].seq) BY <1>1, <1>2, <2>1 DEF Lossless, Pushed
    <3>2. Followed(y, s) /\ Missing(y, s, ss[s].seq + 1)
      <4>1. x.forgotten[s] \in Nat BY <1>1, <1>2, QueueFacts
      <4>2. Untold(y, s) = Untold(x, s) + 1 BY <1>2, <1>3, <1>5, <1>7, <4>1 DEF Untold
      <4> QED BY <1>1, <1>2, <1>3, <1>7, <3>1, <4>2, FrameDropped
    <3> QED BY <2>2, <3>2 DEF Pushed
  <2>3. CASE t # s
    <3>1. SameFrames(x, y, t) BY <1>7, FramesKept
    <3> QED BY <1>1, <1>5, <1>7, <2>1, <2>3, <3>1, FrameElsewhere DEF Untold
  <2> QED BY <2>2, <2>3
<1>13. ASSUME Listening(y), NEW i \in DOMAIN y.queue, IsInput(y.queue[i])
       PROVE  "input" \in y.handlers
  BY <1>1, <1>7, <1>13 DEF Listening, Beside, Lossless
<1>14. Lossless(y, tt) BY <1>11, <1>12, <1>13 DEF Lossless
<1> QED BY <1>7, <1>8, <1>9, <1>10, <1>14 DEF ClientInv, y

LEMMA FrameAcceptedKeeps ==
  ASSUME NEW ss \in SessionsType, NEW tt \in SessionsType, NEW s, NEW item \in ItemType,
         Pushed(ss, tt, s, item), NEW x, ClientInv(x, ss), "input" \in x.handlers,
         x.inputItems < QueueMax
  PROVE  LET y == Wake(Accept(x, item)) IN ClientInv(y, tt) /\ Beside(x, y)
<1> DEFINE y == Accept(x, item)
           it == [item EXCEPT !.droppedBefore = x.gaps[s]]
           g == [x.gaps EXCEPT ![s] = 0]
<1>1. x \in ClientType /\ Counted(x) /\ Ready(x) /\ InOrder(x, ss) /\ Lossless(x, ss)
  BY DEF ClientInv
<1>2. s \in Sessions /\ x.gaps \in [Sessions -> 0..MaxSeq] /\ item.session = s
  BY <1>1 DEF Pushed, ClientType
<1>3. /\ it \in ItemType /\ IsInput(it) /\ it.session = s /\ it.seq = ss[s].seq + 1
      /\ it.droppedBefore = x.gaps[s] /\ it.kind = "input" /\ it.seq = tt[s].seq
  BY <1>2 DEF Pushed, ItemType, IsInput
<1>4. /\ g \in [Sessions -> 0..MaxSeq] /\ g[s] = 0
      /\ \A t \in Sessions : t # s => g[t] = x.gaps[t]
  BY <1>2
<1>5. y = [[[x EXCEPT !.queue = Append(x.queue, it)] EXCEPT !.inputItems = x.inputItems + 1]
             EXCEPT !.gaps = g]
  BY <1>1, <1>2 DEF Accept, ClientType
<1> HIDE DEF it, g, y
<1>6. x.queue \in Seq(ItemType) /\ Len(x.queue) \in Nat /\ x.inputItems \in Nat
      /\ DOMAIN x.queue = 1..Len(x.queue)
  BY <1>1, QueueFacts DEF ClientType
<1>7. /\ Append(x.queue, it) \in Seq(ItemType)
      /\ Len(Append(x.queue, it)) = Len(x.queue) + 1
      /\ Append(x.queue, it) = x.queue \o <<it>>
  BY <1>3, <1>6, AppendProperties, AppendIsConcat
<1>8. /\ y \in ClientType /\ y.queue = Append(x.queue, it) /\ y.heard = x.heard
      /\ y.gaps = g /\ y.forgotten = x.forgotten
      /\ y.inputItems = x.inputItems + 1 /\ y.whole = x.whole /\ y.handlers = x.handlers
      /\ Beside(x, y)
      /\ y.running = x.running /\ y.scheduled = x.scheduled /\ y.draining = x.draining
  <2> DEFINE y1 == [x EXCEPT !.queue = Append(x.queue, it)]
             v == x.inputItems + 1
             y2 == [y1 EXCEPT !.inputItems = v]
  <2>1. /\ y1 \in ClientType /\ y1.queue = Append(x.queue, it) /\ y1.heard = x.heard
        /\ y1.forgotten = x.forgotten
        /\ y1.inputItems = x.inputItems /\ y1.whole = x.whole /\ y1.handlers = x.handlers
        /\ Beside(x, y1)
        /\ y1.running = x.running /\ y1.scheduled = x.scheduled /\ y1.draining = x.draining
    BY <1>1, <1>7 DEF ClientType, Beside
  <2>2. y = [y2 EXCEPT !.gaps = g] BY <1>5
  <2>4. v \in Nat BY <1>6
  <2>5. v = x.inputItems + 1 OBVIOUS
  <2> HIDE DEF y1, v
  <2>3. /\ y2 \in ClientType /\ y2.queue = y1.queue /\ y2.heard = x.heard
        /\ y2.forgotten = x.forgotten
        /\ y2.inputItems = v /\ y2.whole = x.whole /\ y2.handlers = x.handlers
        /\ Beside(x, y2)
        /\ y2.running = x.running /\ y2.scheduled = x.scheduled /\ y2.draining = x.draining
    BY <2>1, <2>4, InputItemsSet DEF Beside
  <2> HIDE DEF y2
  <2> QED BY <1>4, <2>1, <2>2, <2>3, <2>5 DEF ClientType, Beside
<1>9. Counted(y)
  <2>1. Cardinality(Inputs(y.queue)) = Cardinality(Inputs(x.queue)) + 1
    BY <1>3, <1>6, <1>8, AppendedInput
  <2>2. x.inputItems = Cardinality(Inputs(x.queue)) /\ Len(x.queue) - x.inputItems <= LifecycleMax
    BY <1>1, CountedInputs
  <2>3. Len(y.queue) - y.inputItems <= LifecycleMax BY <1>6, <1>7, <1>8, <2>2
  <2>4. y.inputItems <= QueueMax BY <1>6, <1>8
  <2> QED BY <1>8, <2>1, <2>2, <2>3, <2>4, CountedInputs
<1>10. Ready(y) BY <1>1, <1>8 DEF Ready
<1>11. InOrder(y, tt)
  <2>1. <<it>> \in Seq(ItemType) /\ DOMAIN <<it>> = {1} /\ <<it>>[1] = it BY <1>3
  <2>2. tt[s].status = "active" /\ ss[s].status = "active" BY <1>2 DEF Pushed
  <2>3. News(<<it>>, ss, tt) BY <1>3, <2>1, <2>2 DEF News
  <2> QED BY <1>1, <1>7, <1>8, <2>1, <2>3, PushedOnward, OrderExtended
<1>12. \A t \in Sessions : /\ y.gaps[t] <= tt[t].seq
                           /\ tt[t].status # "active" => y.gaps[t] = 0
                           /\ tt[t].status # "ended" => y.forgotten[t] = 0
  <2> SUFFICES ASSUME NEW t \in Sessions
               PROVE  y.gaps[t] <= tt[t].seq /\ (tt[t].status # "active" => y.gaps[t] = 0)
    BY <1>1, <1>8 DEF Lossless, Pushed
  <2>1. tt[t].seq \in Nat BY SessionFacts
  <2>2. CASE t = s BY <1>4, <1>8, <2>1, <2>2
  <2>3. CASE t # s BY <1>1, <1>4, <1>8, <2>3 DEF Lossless, Pushed
  <2> QED BY <2>2, <2>3
<1>13. ASSUME Listening(y), NEW t \in Sessions
       PROVE  Followed(y, t) /\ Missing(y, t, tt[t].seq)
  <2>1. Listening(x) BY <1>8, <1>13 DEF Listening, Beside
  <2>2. CASE t = s
    <3>1. Followed(x, s) /\ Missing(x, s, ss[s].seq) BY <1>1, <1>2, <2>1 DEF Lossless, Pushed
    <3>2. ss[s].seq \in Nat BY <1>2, SessionFacts
    <3>4. x.forgotten[s] = 0 BY <1>1, <1>2 DEF Lossless, Pushed
    <3>5. Untold(y, s) = 0 BY <1>4, <1>8, <3>4 DEF Untold
    <3>6. Untold(x, s) = x.gaps[s] BY <1>1, <1>2, <3>4, QueueFacts DEF Untold
    <3>3. Followed(y, s) /\ Missing(y, s, ss[s].seq + 1)
      BY <1>1, <1>2, <1>3, <1>8, <3>1, <3>2, <3>5, <3>6, FrameAccepted
    <3> QED BY <2>2, <3>3 DEF Pushed
  <2>3. CASE t # s
    <3>1. <<it>> \in Seq(ItemType) /\ DOMAIN <<it>> = {1} /\ <<it>>[1] = it BY <1>3
    <3>2. \A i \in DOMAIN <<it>> : ~(IsInput(<<it>>[i]) /\ <<it>>[i].session = t)
      BY <1>3, <2>3, <3>1
    <3>3. SameFrames(x, y, t) BY <1>1, <1>7, <1>8, <3>1, <3>2, FramesAppended
    <3> QED BY <1>1, <1>4, <1>8, <2>1, <2>3, <3>3, FrameElsewhere DEF Untold
  <2> QED BY <2>2, <2>3
<1>14. Lossless(y, tt) BY <1>8, <1>12, <1>13 DEF Lossless
<1>15. ClientInv(Wake(y), tt) /\ Beside(y, Wake(y))
  <2>1. /\ Wake(y) \in ClientType /\ Ready(Wake(y)) /\ Beside(y, Wake(y))
        /\ Wake(y).queue = y.queue /\ Wake(y).inputItems = y.inputItems
    BY <1>8, <1>10, WakeFacts
  <2>2. Counted(Wake(y)) BY <1>9, <2>1, CountedInputs
  <2>3. InOrder(Wake(y), tt) /\ Lossless(Wake(y), tt) BY <1>8, <1>10, <1>11, <1>14, WokenKeeps
  <2> QED BY <2>1, <2>2, <2>3 DEF ClientInv
<1> QED BY <1>8, <1>15 DEF Beside, y

LEMMA FrameKeeps ==
  ASSUME NEW ss \in SessionsType, NEW tt \in SessionsType, NEW s, NEW item \in ItemType,
         Pushed(ss, tt, s, item), NEW x, ClientInv(x, ss), "input" \in x.handlers
  PROVE  ClientInv(EnqueueFrame(x, item), tt) /\ Beside(x, EnqueueFrame(x, item))
<1>1. x.inputItems \in Nat /\ item.session = s BY DEF ClientInv, ClientType, Pushed
<1>2. CASE x.inputItems >= QueueMax
  BY <1>1, <1>2, FrameDroppedKeeps DEF EnqueueFrame
<1>3. CASE ~(x.inputItems >= QueueMax)
  <2>1. x.inputItems < QueueMax BY <1>1, <1>3
  <2> QED BY <1>3, <2>1, FrameAcceptedKeeps DEF EnqueueFrame
<1> QED BY <1>2, <1>3

-----------------------------------------------------------------------------
(* The loop of drain.                                                      *)
LEMMA ShiftedFacts ==
  ASSUME NEW x \in ClientType, Counted(x), NEW n \in 0..Len(x.queue)
  PROVE  LET y == Shifted(x, n)
         IN /\ y \in ClientType /\ Counted(y) /\ y.queue = SubSeq(x.queue, n + 1, Len(x.queue))
            /\ y.heard = x.heard /\ y.gaps = x.gaps /\ y.forgotten = x.forgotten /\ y.whole = x.whole
            /\ y.handlers = x.handlers /\ Beside(x, y) /\ y.running = x.running
            /\ y.scheduled = x.scheduled /\ y.draining = x.draining
<1> DEFINE y == Shifted(x, n)
           b == Cardinality(Before(x.queue, n))
           r == SubSeq(x.queue, n + 1, Len(x.queue))
<1>1. x.queue \in Seq(ItemType) /\ Len(x.queue) \in Nat /\ x.inputItems \in Nat
  BY QueueFacts DEF ClientType
<1>2. n \in Nat /\ n <= Len(x.queue) BY <1>1
<1>3. b \in 0..n BY <1>2, BeforeFinite
<1>4. r \in Seq(ItemType) /\ Len(r) = Len(x.queue) - n BY <1>1, Rest
<1>5. Cardinality(Inputs(r)) = x.inputItems - b
  BY <1>1, ShiftedInputs, CountedInputs
<1>6. Cardinality(Inputs(r)) \in Nat BY <1>4, InputsFinite
<1>7. y = [[x EXCEPT !.queue = r] EXCEPT !.inputItems = x.inputItems - b]
  BY DEF Shifted, ClientType, Before
<1> HIDE DEF y, b, r
<1>8. /\ y \in ClientType /\ y.queue = r /\ y.inputItems = x.inputItems - b
      /\ y.heard = x.heard /\ y.gaps = x.gaps /\ y.forgotten = x.forgotten /\ y.whole = x.whole
      /\ y.handlers = x.handlers /\ Beside(x, y) /\ y.running = x.running
      /\ y.scheduled = x.scheduled /\ y.draining = x.draining
  BY <1>4, <1>5, <1>6, <1>7 DEF ClientType, Beside
<1>9. Counted(y)
  <2>1. x.inputItems <= QueueMax /\ Len(x.queue) - x.inputItems <= LifecycleMax
    BY CountedInputs
  <2>2. y.inputItems <= QueueMax BY <1>1, <1>3, <1>8, <2>1, <1>2
  <2>3. Len(y.queue) - y.inputItems <= LifecycleMax BY <1>1, <1>2, <1>3, <1>4, <1>8, <2>1
  <2> QED BY <1>5, <1>8, <2>2, <2>3, CountedInputs
<1> QED BY <1>8, <1>9 DEF y, r

(* What is shifted unheard is no frame, as long as a plugin listens.       *)
LEMMA LosslessShifted ==
  ASSUME NEW ss \in SessionsType, NEW x \in ClientType, NEW y \in ClientType,
         Lossless(x, ss), NEW n \in 0..Len(x.queue),
         y.queue = SubSeq(x.queue, n + 1, Len(x.queue)),
         \/ y.heard = x.heard /\ (n = 0 \/ x.queue[n].kind \notin x.handlers)
         \/ n # 0 /\ Heard(x, n, y),
         \A i \in 1..(n - 1) : x.queue[i].kind \notin x.handlers,
         y.gaps = x.gaps, y.forgotten = x.forgotten, y.whole = x.whole,
         y.state = x.state, y.handlers = x.handlers
  PROVE  Lossless(y, ss)
<1>1. \A s \in Sessions : /\ y.gaps[s] <= ss[s].seq
                          /\ ss[s].status # "active" => y.gaps[s] = 0
                          /\ ss[s].status # "ended" => y.forgotten[s] = 0
  BY DEF Lossless
<1>2. /\ Len(x.queue) \in Nat /\ DOMAIN x.queue = 1..Len(x.queue) /\ n \in Nat
      /\ n <= Len(x.queue)
  BY QueueFacts
<1>3. DOMAIN y.queue = 1..(Len(x.queue) - n)
      /\ \A i \in 1..(Len(x.queue) - n) : n + i \in DOMAIN x.queue /\ y.queue[i] = x.queue[n + i]
  BY QueueFacts, Rest
<1>4. ASSUME Listening(y)
      PROVE  /\ \A s \in Sessions : Followed(y, s) /\ Missing(y, s, ss[s].seq)
             /\ \A i \in DOMAIN y.queue : IsInput(y.queue[i]) => "input" \in y.handlers
  <2>1. Listening(x) BY <1>4 DEF Listening
  <2>2. \A i \in DOMAIN x.queue : IsInput(x.queue[i]) => x.queue[i].kind \in x.handlers
    BY <2>1 DEF Lossless, IsInput
  <2>3. \A i \in 1..(n - 1) : ~IsInput(x.queue[i])
    <3>1. \A i \in 1..(n - 1) : i \in DOMAIN x.queue BY <1>2
    <3> QED BY <2>2, <3>1
  <2>4. \/ y.heard = x.heard /\ (n = 0 \/ ~IsInput(x.queue[n]))
        \/ n # 0 /\ Heard(x, n, y)
    <3>1. n # 0 => n \in DOMAIN x.queue BY <1>2
    <3> QED BY <2>2, <3>1
  <2>5. ASSUME NEW s \in Sessions
        PROVE  Followed(y, s) /\ Missing(y, s, ss[s].seq)
    <3>1. Followed(x, s) /\ Missing(x, s, ss[s].seq)
      BY <2>1 DEF Lossless
    <3>2. Untold(y, s) = Untold(x, s) BY DEF Untold
    <3>3. /\ Followed(x, s) => Followed(y, s)
          /\ \A q : Missing(x, s, q) => Missing(y, s, q)
      BY <2>3, <2>4, <3>2, FramesShifted
    <3> QED BY <3>1, <3>3
  <2>6. \A i \in DOMAIN y.queue : IsInput(y.queue[i]) => "input" \in y.handlers
    BY <1>3, <2>1 DEF Lossless
  <2> QED BY <2>5, <2>6
<1> QED BY <1>1, <1>4 DEF Lossless

(* From the loop's condition to the next await.                            *)
Paused(x) == x.running = 0 /\ x.scheduled = 0 /\ x.draining

LEMMA LoopEnds ==
  ASSUME NEW ss \in SessionsType, NEW x \in ClientType, Counted(x), InOrder(x, ss),
         Lossless(x, ss), Paused(x)
  PROVE  LET y == [x EXCEPT !.draining = FALSE] IN ClientInv(y, ss) /\ Beside(x, y)
<1> DEFINE y == [x EXCEPT !.draining = FALSE]
<1>1. /\ y \in ClientType /\ y.queue = x.queue /\ y.heard = x.heard
      /\ y.gaps = x.gaps /\ y.forgotten = x.forgotten
      /\ y.inputItems = x.inputItems /\ y.whole = x.whole /\ y.handlers = x.handlers
      /\ Beside(x, y) /\ y.running = 0 /\ y.scheduled = 0 /\ y.draining = FALSE
  BY DEF ClientType, Beside, Paused
<1> HIDE DEF y
<1>2. Onward(ss, ss) BY SessionFacts DEF Onward
<1>3. InOrder(y, ss) BY <1>1, <1>2, OrderKept
<1>4. Counted(y) BY <1>1, CountedInputs
<1>5. Ready(y) BY <1>1 DEF Ready
<1>6. Lossless(y, ss)
  <2>1. y.state = x.state BY <1>1 DEF Beside
  <2>2. 0 \in 0..Len(x.queue) BY QueueFacts
  <2>3. Listening(y) => Listening(x) BY <1>1, <2>1 DEF Listening
  <2>4. \A s \in Sessions : /\ ss[s].status # "active" => y.gaps[s] = 0
                            /\ ss[s].status # "ended" => y.forgotten[s] = 0
                            /\ Untold(y, s) = Untold(x, s)
    BY <1>1 DEF Lossless, Untold
  <2> QED BY <1>1, <2>3, <2>4, LosslessKept
<1> QED BY <1>1, <1>3, <1>4, <1>5, <1>6 DEF ClientInv, y

LEMMA AllSkipped ==
  ASSUME NEW ss \in SessionsType, NEW x \in ClientType, Counted(x), InOrder(x, ss),
         Lossless(x, ss), Paused(x), \A i \in DOMAIN x.queue : ~Handled(x, i)
  PROVE  LET y == [Shifted(x, Len(x.queue)) EXCEPT !.draining = FALSE]
         IN ClientInv(y, ss) /\ Beside(x, y)
<1> DEFINE n == Len(x.queue)
           y == Shifted(x, n)
<1>1. n \in Nat /\ n \in 0..n /\ DOMAIN x.queue = 1..n BY QueueFacts
<1>2. /\ y \in ClientType /\ Counted(y) /\ y.queue = SubSeq(x.queue, n + 1, n)
      /\ y.heard = x.heard /\ y.gaps = x.gaps /\ y.forgotten = x.forgotten /\ y.whole = x.whole
      /\ y.handlers = x.handlers /\ Beside(x, y) /\ y.running = x.running
      /\ y.scheduled = x.scheduled /\ y.draining = x.draining
  BY <1>1, ShiftedFacts
<1> HIDE DEF y
<1>3. InOrder(y, ss) BY <1>1, <1>2, OrderShifted
<1>4. \A i \in 1..(n - 1) : x.queue[i].kind \notin x.handlers
  <2>1. \A i \in 1..(n - 1) : i \in DOMAIN x.queue BY <1>1
  <2> QED BY <2>1 DEF Handled
<1>5. n = 0 \/ x.queue[n].kind \notin x.handlers BY <1>1 DEF Handled
<1>6. Lossless(y, ss) BY <1>1, <1>2, <1>4, <1>5, LosslessShifted DEF Beside
<1>7. Paused(y) BY <1>2 DEF Paused
<1>8. LET z == [y EXCEPT !.draining = FALSE] IN ClientInv(z, ss) /\ Beside(y, z)
  BY <1>2, <1>3, <1>6, <1>7, LoopEnds
<1> QED BY <1>2, <1>8 DEF Beside, y

LEMMA FirstDelivered ==
  ASSUME NEW ss \in SessionsType, NEW x \in ClientType, Counted(x), InOrder(x, ss),
         Lossless(x, ss), Paused(x), NEW n \in DOMAIN x.queue,
         \A i \in 1..(n - 1) : ~Handled(x, i)
  PROVE  ClientInv(Delivered(x, n), ss) /\ Beside(x, Delivered(x, n))
<1> DEFINE y == Shifted(x, n)
           item == x.queue[n]
           s == item.session
           h == [x.heard EXCEPT ![s] = Hear(x.heard[s], item)]
           z == Delivered(x, n)
           heardType == [started : BOOLEAN, last : 0..MaxSeq, ended : BOOLEAN]
<1>1. /\ Len(x.queue) \in Nat /\ DOMAIN x.queue = 1..Len(x.queue) /\ n \in 0..Len(x.queue)
      /\ n # 0 /\ item \in ItemType /\ s \in Sessions
  BY QueueFacts
<1>2. /\ y \in ClientType /\ Counted(y) /\ y.queue = SubSeq(x.queue, n + 1, Len(x.queue))
      /\ y.heard = x.heard /\ y.gaps = x.gaps /\ y.forgotten = x.forgotten /\ y.whole = x.whole
      /\ y.handlers = x.handlers /\ Beside(x, y) /\ y.running = x.running
      /\ y.scheduled = x.scheduled /\ y.draining = x.draining
  BY <1>1, ShiftedFacts
<1>3. x.heard \in [Sessions -> heardType] BY DEF ClientType
<1>4. Hear(x.heard[s], item) \in heardType BY <1>1, <1>3, HearFacts
<1>5. /\ h \in [Sessions -> heardType] /\ h[s] = Hear(x.heard[s], item)
      /\ \A t \in Sessions \ {s} : h[t] = x.heard[t]
  BY <1>1, <1>3, <1>4
<1>6. z = [[y EXCEPT !.running = x.running + 1] EXCEPT !.heard = h]
  BY <1>2 DEF Delivered, ClientType
<1> HIDE DEF y, h, z
<1>7. /\ z \in ClientType /\ z.queue = y.queue /\ z.heard = h
      /\ z.gaps = x.gaps /\ z.forgotten = x.forgotten
      /\ z.inputItems = y.inputItems /\ z.whole = x.whole /\ z.handlers = x.handlers
      /\ z.outputs = y.outputs /\ z.state = y.state
      /\ z.running = 1 /\ z.scheduled = 0 /\ z.draining = TRUE
  <2> DEFINE v == x.running + 1
             z1 == [y EXCEPT !.running = v]
  <2>1. v \in Nat BY DEF Paused
  <2>5. v = 1 BY DEF Paused
  <2> HIDE DEF v
  <2>2. /\ z1 \in ClientType /\ z1.queue = y.queue /\ z1.gaps = x.gaps /\ z1.forgotten = x.forgotten
        /\ z1.inputItems = y.inputItems /\ z1.whole = x.whole /\ z1.handlers = x.handlers
        /\ z1.outputs = y.outputs /\ z1.state = y.state
        /\ z1.running = v /\ z1.scheduled = x.scheduled /\ z1.draining = x.draining
    BY <1>2, <2>1, RunningSet
  <2>3. z = [z1 EXCEPT !.heard = h] BY <1>6 DEF v
  <2> HIDE DEF z1
  <2>4. x.scheduled = 0 /\ x.draining = TRUE BY DEF Paused, ClientType
  <2> QED BY <1>5, <2>2, <2>3, <2>4, <2>5 DEF ClientType
<1>8. Heard(x, n, z) BY <1>5, <1>7 DEF Heard
<1>9. InOrder(z, ss) BY <1>1, <1>2, <1>7, <1>8, OrderShifted
<1>10. Counted(z) BY <1>2, <1>7, CountedInputs
<1>11. Ready(z) BY <1>7 DEF Ready
<1>12. Lossless(z, ss)
  <2>1. \A i \in 1..(n - 1) : x.queue[i].kind \notin x.handlers BY DEF Handled
  <2>2. /\ z.queue = SubSeq(x.queue, n + 1, Len(x.queue))
        /\ z.gaps = x.gaps /\ z.forgotten = x.forgotten
        /\ z.whole = x.whole /\ z.state = x.state /\ z.handlers = x.handlers
        /\ z \in ClientType
    BY <1>2, <1>7 DEF Beside
  <2>3. n # 0 /\ Heard(x, n, z) /\ n \in 0..Len(x.queue) BY <1>1, <1>8
  <2> QED BY <2>1, <2>2, <2>3, LosslessShifted
<1> QED BY <1>2, <1>7, <1>9, <1>10, <1>11, <1>12 DEF ClientInv, Beside, z

-----------------------------------------------------------------------------
(* The calls of a plugin.                                                  *)
Progress(ss, tt) ==
  \A s \in Sessions : tt[s].seq = ss[s].seq /\ tt[s].status = ss[s].status

LEMMA ProgressSelf == \A ss : Progress(ss, ss)
BY DEF Progress

LEMMA PluginKept ==
  ASSUME NEW ss \in SessionsType, NEW tt \in SessionsType, Progress(ss, tt),
         NEW x, ClientInv(x, ss), NEW y \in ClientType,
         y.queue = x.queue, y.heard = x.heard, y.gaps = x.gaps,
         y.forgotten = x.forgotten, y.inputItems = x.inputItems,
         y.running = x.running, y.scheduled = x.scheduled, y.draining = x.draining,
         Listening(y) => Listening(x) /\ ("input" \in x.handlers => "input" \in y.handlers)
  PROVE  ClientInv(y, tt)
<1>1. x \in ClientType /\ Counted(x) /\ Ready(x) /\ InOrder(x, ss) /\ Lossless(x, ss)
  BY DEF ClientInv
<1>2. Onward(ss, tt) BY SessionFacts DEF Onward, Progress
<1>3. InOrder(y, tt) BY <1>1, <1>2, OrderKept
<1>4. Counted(y) BY <1>1, CountedInputs
<1>5. Ready(y) BY <1>1 DEF Ready
<1>6. \A s \in Sessions : /\ tt[s].status # "active" => y.gaps[s] = 0
                          /\ tt[s].status # "ended" => y.forgotten[s] = 0
                          /\ Untold(y, s) = Untold(x, s)
  BY <1>1 DEF Lossless, Progress, Untold
<1>7. Lossless(y, tt) BY <1>1, <1>6, LosslessKept DEF Progress
<1> QED BY <1>3, <1>4, <1>5, <1>7 DEF ClientInv

(* The calls of its handlers are no matter of the events.                  *)
LEMMA OnlyCalls ==
  ASSUME NEW ss \in SessionsType, NEW x, ClientInv(x, ss), NEW y \in ClientType,
         y.queue = x.queue, y.heard = x.heard, y.gaps = x.gaps,
         y.forgotten = x.forgotten, y.inputItems = x.inputItems,
         y.whole = x.whole, y.state = x.state, y.handlers = x.handlers
  PROVE  Counted(y) /\ InOrder(y, ss) /\ Lossless(y, ss)
<1>1. x \in ClientType /\ Counted(x) /\ InOrder(x, ss) /\ Lossless(x, ss) BY DEF ClientInv
<1>2. Onward(ss, ss) BY SessionFacts DEF Onward
<1>3. InOrder(y, ss) BY <1>1, <1>2, OrderKept
<1>4. Listening(y) => Listening(x) BY DEF Listening
<1>5. \A s \in Sessions : /\ ss[s].status # "active" => y.gaps[s] = 0
                          /\ ss[s].status # "ended" => y.forgotten[s] = 0
                          /\ Untold(y, s) = Untold(x, s)
  BY <1>1 DEF Lossless, Untold
<1>6. Lossless(y, ss) BY <1>1, <1>4, <1>5, LosslessKept
<1> QED BY <1>1, <1>3, <1>6, CountedInputs

LEMMA EmptiedKept ==
  ASSUME NEW ss \in SessionsType, NEW tt \in SessionsType, Progress(ss, tt),
         NEW x, ClientInv(x, ss)
  PROVE  ClientInv(Emptied(x), tt) /\ Emptied(x).outputs = {} /\ Emptied(x).state = "closed"
<1> DEFINE y == Emptied(x)
<1>1. x \in ClientType /\ Ready(x) /\ InOrder(x, ss) /\ Lossless(x, ss) BY DEF ClientInv
<1>2. <<>> \in Seq(ItemType) /\ Len(<<>>) = 0 /\ DOMAIN <<>> = {} BY EmptySeq, LenProperties
<1>3. y = [[[[[x EXCEPT !.state = "closed"] EXCEPT !.outputs = {}] EXCEPT !.queue = <<>>]
               EXCEPT !.inputItems = 0] EXCEPT !.handlers = {}]
  BY <1>1 DEF Emptied, ClientType
<1>4. /\ y \in ClientType /\ y.queue = <<>> /\ y.inputItems = 0 /\ y.heard = x.heard
      /\ y.gaps = x.gaps /\ y.forgotten = x.forgotten /\ y.state = "closed" /\ y.outputs = {}
      /\ y.running = x.running /\ y.scheduled = x.scheduled /\ y.draining = x.draining
  <2> DEFINE z == [[x EXCEPT !.state = "closed"] EXCEPT !.outputs = {}]
             w == [z EXCEPT !.queue = <<>>]
             none == 0
             v == [w EXCEPT !.inputItems = none]
  <2>1. /\ z \in ClientType /\ z.heard = x.heard
        /\ z.gaps = x.gaps /\ z.forgotten = x.forgotten /\ z.state = "closed" /\ z.outputs = {}
        /\ z.running = x.running /\ z.scheduled = x.scheduled /\ z.draining = x.draining
    BY <1>1 DEF ClientType
  <2>2. y = [v EXCEPT !.handlers = {}] BY <1>3
  <2> HIDE DEF z
  <2>3. /\ w \in ClientType /\ w.queue = <<>> /\ w.heard = x.heard
        /\ w.gaps = x.gaps /\ w.forgotten = x.forgotten /\ w.state = "closed" /\ w.outputs = {}
        /\ w.running = x.running /\ w.scheduled = x.scheduled /\ w.draining = x.draining
    BY <1>2, <2>1 DEF ClientType
  <2>5. none \in Nat OBVIOUS
  <2>6. none = 0 OBVIOUS
  <2> HIDE DEF w, none
  <2>4. /\ v \in ClientType /\ v.queue = <<>> /\ v.heard = x.heard /\ v.inputItems = none
        /\ v.gaps = x.gaps /\ v.forgotten = x.forgotten /\ v.state = "closed" /\ v.outputs = {}
        /\ v.running = x.running /\ v.scheduled = x.scheduled /\ v.draining = x.draining
    BY <2>3, <2>5, InputItemsSet
  <2> HIDE DEF v
  <2> QED BY <2>2, <2>4, <2>6 DEF ClientType
<1> HIDE DEF y
<1>5. Inputs(y.queue) = {} BY <1>2, <1>4 DEF Inputs
<1>6. Counted(y)
  <2>1. Cardinality(Inputs(y.queue)) = 0 BY <1>5, FS_EmptySet
  <2>2. Len(y.queue) = 0 BY <1>2, <1>4
  <2>3. y.inputItems = 0 /\ 0 <= QueueMax /\ 0 - 0 <= LifecycleMax BY <1>4
  <2> QED BY <2>1, <2>2, <2>3, CountedInputs
<1>7. Ready(y) BY <1>1, <1>4 DEF Ready
<1>8. InOrder(y, tt)
  <2>1. \A i \in DOMAIN y.queue : FALSE BY <1>2, <1>4
  <2>2. \A s \in Sessions :
          /\ tt[s].status = "new" => /\ ~y.heard[s].started /\ ~y.heard[s].ended
                                     /\ y.heard[s].last = 0
          /\ y.heard[s].ended => tt[s].status = "ended"
    BY <1>1, <1>4 DEF InOrder, Progress
  <2> QED BY <2>1, <2>2 DEF InOrder
<1>9. ~Listening(y) BY <1>4 DEF Listening
<1>10. Lossless(y, tt) BY <1>1, <1>4, <1>9 DEF Lossless, Progress
<1> QED BY <1>4, <1>6, <1>7, <1>8, <1>10 DEF ClientInv, y

-----------------------------------------------------------------------------
(* What bus, server and plugins agree on.                                  *)
OutputOf(s) ==
  /\ \A c \in Clients : s \in client[c].outputs <=> session[s].output = c
  /\ session[s].output # None =>
       session[s].status = "active" /\ client[session[s].output].state = "open"
  /\ session[s].status = "active" /\ conn[session[s].conn].open =>
       (session[s].told <=> session[s].output # None)
  /\ \A k \in Connections :
       conn[k].session = s <=> session[s].status = "active" /\ session[s].conn = k

LEMMA Agreement ==
  OutputAgrees <=> /\ \A s \in Sessions : OutputOf(s)
                   /\ \A k \in Connections : conn[k].session # None => conn[k].state = "up"
BY DEF OutputAgrees, OutputOf, Active

LEMMA SessionsTyped ==
  ASSUME IInv
  PROVE  session \in SessionsType /\ \A c \in Clients : ClientInv(client[c], session)
BY DEF IInv, BusInv, SessionsType

(* A plugin's own step.                                                    *)
LEMMA PluginStep ==
  ASSUME IInv, NEW c \in Clients, NEW y, client' = [client EXCEPT ![c] = y],
         ClientInv(y, session), y.outputs = client[c].outputs,
         y.state = client[c].state \/ y.state = "open",
         UNCHANGED <<conn, session, closed, limit>>
  PROVE  IInv'
<1>1. client \in [Clients -> ClientType] /\ y \in ClientType BY DEF IInv, ClientInv
<1>2. /\ client' \in [Clients -> ClientType] /\ client'[c] = y
      /\ \A d \in Clients : d # c => client'[d] = client[d]
  BY <1>1
<1>3. \A d \in Clients : /\ client'[d].outputs = client[d].outputs
                         /\ client'[d].state = client[d].state \/ client'[d].state = "open"
  BY <1>2
<1>4. \A d \in Clients : ClientInv(client'[d], session)
  BY <1>2, SessionsTyped
<1>5. \A d \in Clients : ClientInv(client'[d], session')
  BY <1>4
<1>6. BusInv'
  <2>1. BusInv BY DEF IInv
  <2>2. ASSUME NEW s \in Sessions PROVE OutputOf(s)'
    <3>1. OutputOf(s) BY <2>1, Agreement DEF BusInv
    <3>2. session[s].output \in Clients \cup {None} BY <2>1 DEF BusInv, SessionType
    <3> QED BY <1>3, <3>1, <3>2 DEF OutputOf
  <2>3. OutputAgrees'
    <3>1. \A k \in Connections : conn'[k].session # None => conn'[k].state = "up"
      BY <2>1, Agreement DEF BusInv
    <3> QED BY <2>2, <3>1 DEF OutputAgrees, OutputOf, Active
  <2>4. Active' = Active BY DEF Active
  <2> QED BY <2>1, <2>3, <2>4 DEF BusInv
<1> QED BY <1>2, <1>5, <1>6 DEF IInv

LEMMA CreateKeeps ==
  ASSUME IInv, NEW c \in Clients, CreateClient(c)
  PROVE  IInv'
<1> DEFINE x == client[c]
           y == [x EXCEPT !.state = "open"]
<1>1. x \in ClientType /\ ClientInv(x, session) /\ session \in SessionsType
  BY SessionsTyped DEF IInv
<1>2. /\ y \in ClientType /\ y.queue = x.queue /\ y.heard = x.heard
      /\ y.gaps = x.gaps /\ y.forgotten = x.forgotten
      /\ y.inputItems = x.inputItems /\ y.running = x.running /\ y.scheduled = x.scheduled
      /\ y.draining = x.draining /\ y.whole = x.whole /\ y.handlers = x.handlers
      /\ y.outputs = x.outputs /\ y.state = "open"
  BY <1>1 DEF ClientType
<1>3. x.state = "new" BY DEF CreateClient
<1>4. Listening(y) => Listening(x) /\ ("input" \in x.handlers => "input" \in y.handlers)
  BY <1>2, <1>3 DEF Listening
<1>6. client' = [client EXCEPT ![c] = y] BY DEF CreateClient
<1> HIDE DEF y
<1>5. ClientInv(y, session) BY <1>1, <1>2, <1>4, ProgressSelf, PluginKept
<1> QED BY <1>2, <1>5, <1>6, PluginStep DEF CreateClient

LEMMA SubscribeKeeps ==
  ASSUME IInv, NEW c \in Clients, NEW kind \in limit.kinds, Subscribe(c, kind)
  PROVE  IInv'
<1> DEFINE x == client[c]
           y == [x EXCEPT !.handlers = x.handlers \cup {kind}]
<1>1. x \in ClientType /\ ClientInv(x, session) /\ session \in SessionsType
  BY SessionsTyped DEF IInv
<1>2. kind \in Kinds BY DEF IInv, BusInv
<1>3. /\ y \in ClientType /\ y.queue = x.queue /\ y.heard = x.heard
      /\ y.gaps = x.gaps /\ y.forgotten = x.forgotten
      /\ y.inputItems = x.inputItems /\ y.running = x.running /\ y.scheduled = x.scheduled
      /\ y.draining = x.draining /\ y.whole = x.whole /\ y.handlers = x.handlers \cup {kind}
      /\ y.outputs = x.outputs /\ y.state = x.state
  BY <1>1, <1>2 DEF ClientType
<1>4. Listening(y) => Listening(x) /\ ("input" \in x.handlers => "input" \in y.handlers)
  BY <1>3 DEF Listening
<1>6. client' = [client EXCEPT ![c] = y] BY DEF Subscribe
<1> HIDE DEF y
<1>5. ClientInv(y, session) BY <1>1, <1>3, <1>4, ProgressSelf, PluginKept
<1> QED BY <1>3, <1>5, <1>6, PluginStep DEF Subscribe

LEMMA UnsubscribeKeeps ==
  ASSUME IInv, NEW c \in Clients, NEW kind \in limit.kinds, Unsubscribe(c, kind)
  PROVE  IInv'
<1> DEFINE x == client[c]
           w == x.whole /\ kind # "input"
           y == [[x EXCEPT !.handlers = x.handlers \ {kind}] EXCEPT !.whole = w]
<1>1. x \in ClientType /\ ClientInv(x, session) /\ session \in SessionsType
  BY SessionsTyped DEF IInv
<1>2. w \in BOOLEAN OBVIOUS
<1>3. client' = [client EXCEPT ![c] = y]
  BY <1>1 DEF Unsubscribe, ClientType, IInv
<1> HIDE DEF w
<1>4. /\ y \in ClientType /\ y.queue = x.queue /\ y.heard = x.heard
      /\ y.gaps = x.gaps /\ y.forgotten = x.forgotten
      /\ y.inputItems = x.inputItems /\ y.running = x.running /\ y.scheduled = x.scheduled
      /\ y.draining = x.draining /\ y.whole = w /\ y.handlers = x.handlers \ {kind}
      /\ y.outputs = x.outputs /\ y.state = x.state
  BY <1>1, <1>2 DEF ClientType
<1>5. Listening(y) => Listening(x) /\ ("input" \in x.handlers => "input" \in y.handlers)
  BY <1>4 DEF Listening, w
<1> HIDE DEF y
<1>6. ClientInv(y, session) BY <1>1, <1>4, <1>5, ProgressSelf, PluginKept
<1> QED BY <1>3, <1>4, <1>6, PluginStep DEF Unsubscribe

LEMMA ContinueKeeps ==
  ASSUME IInv, NEW c \in Clients, NEW x \in ClientType, Paused(x), Counted(x),
         InOrder(x, session), Lossless(x, session), Beside(client[c], x), Continue(c, x),
         UNCHANGED <<conn, session, closed, limit>>
  PROVE  IInv'
<1>1. session \in SessionsType BY SessionsTyped
<1>2. PICK y : /\ ClientInv(y, session) /\ Beside(x, y)
               /\ client' = [client EXCEPT ![c] = y]
  <2>1. CASE client' = [client EXCEPT ![c] = [x EXCEPT !.draining = FALSE]]
    BY <1>1, <2>1, LoopEnds
  <2>2. CASE /\ \A i \in DOMAIN x.queue : ~Handled(x, i)
             /\ client' = [client EXCEPT ![c] = [Shifted(x, Len(x.queue)) EXCEPT !.draining = FALSE]]
    BY <1>1, <2>2, AllSkipped
  <2>3. ASSUME NEW n \in DOMAIN x.queue, \A i \in 1..(n - 1) : ~Handled(x, i),
               client' = [client EXCEPT ![c] = Delivered(x, n)]
        PROVE  \E y : /\ ClientInv(y, session) /\ Beside(x, y)
                      /\ client' = [client EXCEPT ![c] = y]
    BY <1>1, <2>3, FirstDelivered
  <2> QED BY <2>1, <2>2, <2>3 DEF Continue
<1> QED BY <1>2, PluginStep DEF Beside

LEMMA DrainKeeps ==
  ASSUME IInv, NEW c \in Clients, Drain(c)
  PROVE  IInv'
<1> DEFINE x == client[c]
           v == x.scheduled - 1
           y == [x EXCEPT !.scheduled = v]
<1>1. x \in ClientType /\ ClientInv(x, session) /\ session \in SessionsType
  BY SessionsTyped DEF IInv
<1>2. x.scheduled \in Nat /\ x.running \in Nat /\ x.draining \in BOOLEAN BY <1>1 DEF ClientType
<1>3. x.scheduled = 1 /\ x.running = 0 /\ x.draining
  BY <1>1, <1>2 DEF ClientInv, Ready, Drain
<1>4. /\ y \in ClientType /\ y.queue = x.queue /\ y.heard = x.heard
      /\ y.gaps = x.gaps /\ y.forgotten = x.forgotten
      /\ y.inputItems = x.inputItems /\ y.running = 0 /\ y.scheduled = 0
      /\ y.draining = x.draining /\ y.whole = x.whole /\ y.handlers = x.handlers
      /\ y.outputs = x.outputs /\ y.state = x.state
  <2>1. v \in Nat BY <1>3
  <2>2. v = 0 BY <1>3
  <2> HIDE DEF v
  <2>3. /\ y \in ClientType /\ y.queue = x.queue /\ y.heard = x.heard
      /\ y.gaps = x.gaps /\ y.forgotten = x.forgotten
        /\ y.inputItems = x.inputItems /\ y.running = x.running /\ y.scheduled = v
        /\ y.draining = x.draining /\ y.whole = x.whole /\ y.handlers = x.handlers
        /\ y.outputs = x.outputs /\ y.state = x.state
    BY <1>1, <2>1, ScheduledSet
  <2> HIDE DEF y
  <2> QED BY <1>3, <2>2, <2>3
<1>5. Continue(c, y) /\ UNCHANGED <<conn, session, closed, limit>> BY DEF Drain
<1> HIDE DEF y
<1>6. Paused(y) /\ Beside(x, y) BY <1>3, <1>4 DEF Paused, Beside
<1>7. Counted(y) /\ InOrder(y, session) /\ Lossless(y, session)
  BY <1>1, <1>4, OnlyCalls
<1> QED BY <1>4, <1>5, <1>6, <1>7, ContinueKeeps

LEMMA SettledKeeps ==
  ASSUME IInv, NEW c \in Clients, HandlerSettled(c)
  PROVE  IInv'
<1> DEFINE x == client[c]
           v == x.running - 1
           y == [x EXCEPT !.running = v]
<1>1. x \in ClientType /\ ClientInv(x, session) /\ session \in SessionsType
  BY SessionsTyped DEF IInv
<1>2. x.scheduled \in Nat /\ x.running \in Nat /\ x.draining \in BOOLEAN BY <1>1 DEF ClientType
<1>3. x.scheduled = 0 /\ x.running = 1 /\ x.draining
  BY <1>1, <1>2 DEF ClientInv, Ready, HandlerSettled
<1>4. /\ y \in ClientType /\ y.queue = x.queue /\ y.heard = x.heard
      /\ y.gaps = x.gaps /\ y.forgotten = x.forgotten
      /\ y.inputItems = x.inputItems /\ y.running = 0 /\ y.scheduled = 0
      /\ y.draining = x.draining /\ y.whole = x.whole /\ y.handlers = x.handlers
      /\ y.outputs = x.outputs /\ y.state = x.state
  <2>1. v \in Nat BY <1>3
  <2>2. v = 0 BY <1>3
  <2> HIDE DEF v
  <2>3. /\ y \in ClientType /\ y.queue = x.queue /\ y.heard = x.heard
      /\ y.gaps = x.gaps /\ y.forgotten = x.forgotten
        /\ y.inputItems = x.inputItems /\ y.scheduled = x.scheduled /\ y.running = v
        /\ y.draining = x.draining /\ y.whole = x.whole /\ y.handlers = x.handlers
        /\ y.outputs = x.outputs /\ y.state = x.state
    BY <1>1, <2>1, RunningSet
  <2> HIDE DEF y
  <2> QED BY <1>3, <2>2, <2>3
<1>5. Continue(c, y) /\ UNCHANGED <<conn, session, closed, limit>> BY DEF HandlerSettled
<1> HIDE DEF y
<1>6. Paused(y) /\ Beside(x, y) BY <1>3, <1>4 DEF Paused, Beside
<1>7. Counted(y) /\ InOrder(y, session) /\ Lossless(y, session)
  BY <1>1, <1>4, OnlyCalls
<1> QED BY <1>4, <1>5, <1>6, <1>7, ContinueKeeps

-----------------------------------------------------------------------------
(* The end of sessions, ss, and what the server does to its connections.   *)
Served(ss) ==
  /\ conn' \in [Connections -> ConnectionType]
  /\ \A k \in Connections :
       /\ conn'[k].session = IF conn[k].session \in ss THEN None ELSE conn[k].session
       /\ conn'[k].open => /\ conn'[k].state = "up"
                           /\ conn[k].open \/ conn[k].session = None
       /\ conn'[k].session # None => conn'[k].state = "up"

LEMMA NoneIsNothing == None \notin Connections /\ None \notin Sessions /\ None \notin Clients
OBVIOUS

(* A session that goes on, whatever becomes of others.                     *)
LEMMA OthersAgree ==
  ASSUME BusInv, NEW ss \in SUBSET Sessions, Served(ss), NEW s \in Sessions, s \notin ss,
         session'[s] = session[s],
         \A c \in Clients : s \in client'[c].outputs <=> s \in client[c].outputs,
         \A c \in Clients : client'[c].state = client[c].state
  PROVE  OutputOf(s)'
<1>1. OutputOf(s) BY Agreement DEF BusInv
<1>2. session[s].output \in Clients \cup {None} BY DEF BusInv, SessionType
<1>3. \A k \in Connections : conn'[k].session = s <=> conn[k].session = s
  BY NoneIsNothing DEF Served
<1>4. ASSUME session[s].status = "active", conn'[session[s].conn].open
      PROVE  conn[session[s].conn].open
  <2>1. session[s].conn \in Connections BY <1>4 DEF BusInv
  <2>2. conn[session[s].conn].session = s BY <1>1, <1>4, <2>1 DEF OutputOf
  <2> QED BY <1>4, <2>1, <2>2, NoneIsNothing DEF Served
<1> QED BY <1>1, <1>2, <1>3, <1>4 DEF OutputOf

LEMMA ServerStep ==
  ASSUME IInv, Served({}), UNCHANGED <<session, client, limit>>, closed' \in BOOLEAN
  PROVE  IInv'
<1>1. BusInv BY DEF IInv
<1>2. \A s \in Sessions : OutputOf(s)' BY <1>1, OthersAgree
<1>3. OutputAgrees' BY <1>2 DEF OutputAgrees, OutputOf, Active, Served
<1>4. Active' = Active BY DEF Active
<1>5. \A k \in Connections : conn'[k].open => conn'[k].state = "up" BY DEF Served
<1>6. BusInv' BY <1>1, <1>3, <1>4, <1>5 DEF BusInv, Served
<1>7. \A c \in Clients : ClientInv(client'[c], session') BY DEF IInv
<1> QED BY <1>6, <1>7 DEF IInv

LEMMA OverFacts ==
  ASSUME NEW x \in SessionType, NEW cn
  PROVE  /\ Over(x, cn) \in SessionType /\ Over(x, cn).status = "ended"
         /\ Over(x, cn).output = None /\ Over(x, cn).seq = x.seq
<1> DEFINE t == x.told /\ ~(x.output # None /\ cn[x.conn].open)
           z == [x EXCEPT !.status = "ended"]
           w == [z EXCEPT !.output = None]
<1>1. t \in BOOLEAN OBVIOUS
<1>2. Over(x, cn) = [w EXCEPT !.told = t] BY DEF Over, SessionType
<1> HIDE DEF t
<1>3. z \in SessionType /\ z.status = "ended" /\ z.seq = x.seq BY DEF SessionType
<1> HIDE DEF z
<1>4. w \in SessionType /\ w.status = "ended" /\ w.output = None /\ w.seq = x.seq
  BY <1>3 DEF SessionType
<1> HIDE DEF w
<1> QED BY <1>1, <1>2, <1>4 DEF SessionType

LEMMA ForgetFacts ==
  ASSUME NEW x \in ClientType, NEW ss, NEW mine
  PROVE  LET y == Forget(x, ss, mine)
         IN /\ y \in ClientType /\ y.queue = x.queue /\ y.heard = x.heard
            /\ y.inputItems = x.inputItems /\ y.whole = x.whole /\ y.handlers = x.handlers
            /\ y.running = x.running /\ y.scheduled = x.scheduled
            /\ y.draining = x.draining /\ y.state = x.state
            /\ y.outputs = x.outputs \ mine
            /\ \A s \in Sessions : y.gaps[s] = IF s \in ss THEN 0 ELSE x.gaps[s]
            /\ \A s \in Sessions :
                 y.forgotten[s] = IF s \in ss THEN x.gaps[s] ELSE x.forgotten[s]
<1> DEFINE g == [s \in Sessions |-> IF s \in ss THEN 0 ELSE x.gaps[s]]
           f == [s \in Sessions |-> IF s \in ss THEN x.gaps[s] ELSE x.forgotten[s]]
           o == x.outputs \ mine
           z == [x EXCEPT !.gaps = g]
           w == [z EXCEPT !.forgotten = f]
<1>1. x.gaps \in [Sessions -> 0..MaxSeq] /\ x.forgotten \in [Sessions -> 0..MaxSeq]
  BY DEF ClientType
<1>2. g \in [Sessions -> 0..MaxSeq] /\ f \in [Sessions -> 0..MaxSeq] BY <1>1
<1>3. \A s \in Sessions : /\ g[s] = IF s \in ss THEN 0 ELSE x.gaps[s]
                          /\ f[s] = IF s \in ss THEN x.gaps[s] ELSE x.forgotten[s]
  OBVIOUS
<1>4. Forget(x, ss, mine) = [w EXCEPT !.outputs = o] BY DEF Forget, ClientType
<1>6. o \in SUBSET Sessions BY DEF ClientType
<1> HIDE DEF g, f
<1>5. /\ z \in ClientType /\ z.queue = x.queue /\ z.heard = x.heard /\ z.gaps = g
      /\ z.inputItems = x.inputItems /\ z.whole = x.whole /\ z.handlers = x.handlers
      /\ z.running = x.running /\ z.scheduled = x.scheduled
      /\ z.draining = x.draining /\ z.state = x.state /\ z.outputs = x.outputs
  BY <1>2 DEF ClientType
<1> HIDE DEF z
<1>8. /\ w \in ClientType /\ w.queue = x.queue /\ w.heard = x.heard /\ w.gaps = g
      /\ w.inputItems = x.inputItems /\ w.whole = x.whole /\ w.handlers = x.handlers
      /\ w.running = x.running /\ w.scheduled = x.scheduled
      /\ w.draining = x.draining /\ w.state = x.state /\ w.forgotten = f
  BY <1>2, <1>5 DEF ClientType
<1> HIDE DEF w, o
<1>7. LET y == Forget(x, ss, mine)
      IN /\ y \in ClientType /\ y.queue = x.queue /\ y.heard = x.heard
         /\ y.inputItems = x.inputItems /\ y.whole = x.whole /\ y.handlers = x.handlers
         /\ y.running = x.running /\ y.scheduled = x.scheduled
         /\ y.draining = x.draining /\ y.state = x.state
         /\ y.outputs = o /\ y.gaps = g /\ y.forgotten = f
  BY <1>4, <1>6, <1>8 DEF ClientType
<1> QED BY <1>3, <1>7 DEF o

(* The plugins, as the sessions ss end.                                    *)
EndOf(ss, tt) ==
  \A s \in Sessions : /\ tt[s].seq = session[s].seq
                      /\ s \in ss => session[s].status = "active" /\ tt[s].status = "ended"
                      /\ s \notin ss => tt[s].status = session[s].status

LEMMA EndHeard ==
  ASSUME IInv, NEW ss \in SUBSET Sessions, NEW tt \in SessionsType, EndOf(ss, tt),
         NEW items \in Seq(ItemType),
         \A i \in DOMAIN items :
           /\ items[i].kind = "ended" /\ items[i].session \in ss
           /\ items[i].seq = session[items[i].session].seq
           /\ \A j \in DOMAIN items : items[i].session = items[j].session => i = j,
         NEW c \in Clients, NEW mine
  PROVE  LET y == Forget(client[c], ss, mine)
         IN /\ ClientInv(y, tt)
            /\ ClientInv(EnqueueEvents(y, items), tt) /\ Beside(y, EnqueueEvents(y, items))
<1> DEFINE x == client[c]
           y == Forget(x, ss, mine)
<1>1. x \in ClientType /\ ClientInv(x, session) /\ session \in SessionsType
  BY SessionsTyped DEF IInv
<1>2. /\ y \in ClientType /\ y.queue = x.queue /\ y.heard = x.heard
      /\ y.inputItems = x.inputItems /\ y.whole = x.whole /\ y.handlers = x.handlers
      /\ y.running = x.running /\ y.scheduled = x.scheduled
      /\ y.draining = x.draining /\ y.state = x.state
      /\ \A s \in Sessions : y.gaps[s] = IF s \in ss THEN 0 ELSE x.gaps[s]
      /\ \A s \in Sessions :
           y.forgotten[s] = IF s \in ss THEN x.gaps[s] ELSE x.forgotten[s]
  BY <1>1, ForgetFacts
<1> HIDE DEF y
<1>3. Counted(x) /\ Ready(x) /\ InOrder(x, session) /\ Lossless(x, session)
  BY <1>1 DEF ClientInv
<1>4. Onward(session, tt)
  <2>1. \A s \in Sessions : session[s].seq \in Nat BY <1>1, SessionFacts
  <2> QED BY <2>1 DEF Onward, EndOf
<1>5. Counted(y) /\ Ready(y) BY <1>2, <1>3, CountedInputs DEF Ready
<1>6. \A r \in SessionsType : Onward(r, r) BY SessionFacts DEF Onward
<1>7. InOrder(y, session) BY <1>1, <1>2, <1>3, <1>6, OrderKept
<1>8. InOrder(y, tt) BY <1>1, <1>2, <1>3, <1>4, OrderKept
<1>9. Lossless(y, tt)
  <2>1. Listening(y) => Listening(x) /\ ("input" \in x.handlers => "input" \in y.handlers)
    BY <1>2 DEF Listening
  <2>2. ASSUME NEW s \in Sessions
        PROVE  /\ tt[s].seq = session[s].seq
               /\ tt[s].status = "active" => y.gaps[s] = x.gaps[s]
               /\ tt[s].status # "active" => y.gaps[s] = 0
               /\ tt[s].status # "ended" => y.forgotten[s] = 0
               /\ Untold(y, s) = Untold(x, s)
    <3>1. CASE s \in ss
      <4>1. session[s].status = "active" /\ tt[s].status = "ended" /\ tt[s].seq = session[s].seq
        BY <3>1 DEF EndOf
      <4>2. x.forgotten[s] = 0 BY <1>3, <4>1 DEF Lossless
      <4>3. y.gaps[s] = 0 /\ y.forgotten[s] = x.gaps[s] /\ x.gaps[s] \in Nat
        BY <1>1, <1>2, <3>1, QueueFacts
      <4> QED BY <4>1, <4>2, <4>3 DEF Untold
    <3>2. CASE s \notin ss BY <1>2, <1>3, <3>2 DEF EndOf, Lossless, Untold
    <3> QED BY <3>1, <3>2
  <2> QED BY <1>1, <1>2, <1>3, <2>1, <2>2, LosslessKept
<1>10. News(items, session, tt) BY DEF News, EndOf
<1>11. \A i \in DOMAIN items : ~IsInput(items[i]) BY DEF IsInput
<1>12. ClientInv(EnqueueEvents(y, items), tt) /\ Beside(y, EnqueueEvents(y, items))
  BY <1>1, <1>2, <1>4, <1>5, <1>7, <1>9, <1>10, <1>11, EventsKeep
<1>13. ClientInv(y, tt) BY <1>2, <1>5, <1>8, <1>9 DEF ClientInv
<1> QED BY <1>12, <1>13 DEF y

LEMMA FunctionIsSeq ==
  ASSUME NEW S, NEW n \in Nat, NEW f \in [1..n -> S]
  PROVE  f \in Seq(S)
OBVIOUS

LEMMA EndKeeps ==
  ASSUME IInv, NEW n \in Nat, NEW order \in [1..n -> Active], NEW cn,
         \A i, j \in 1..n : order[i] = order[j] => i = j,
         Served({order[i] : i \in 1..n}),
         LET st == [conn |-> cn, session |-> session, client |-> client]
         IN session' = Ended(st, order).session /\ client' = Ended(st, order).client,
         limit' = limit, closed' \in BOOLEAN
  PROVE  IInv'
<1> DEFINE ss == {order[i] : i \in 1..n}
           st == [conn |-> cn, session |-> session, client |-> client]
           mine(c) == {s \in ss : session[s].output = c}
           items == [i \in 1..n |-> Item("ended", order[i])]
           y(c) == Forget(client[c], ss, mine(c))
           kept == [c \in Clients |-> y(c)]
<1>1. /\ BusInv /\ session \in SessionsType
      /\ client \in [Clients -> ClientType] /\ \A c \in Clients : ClientInv(client[c], session)
  BY SessionsTyped DEF IInv
<1>2. ss \in SUBSET Sessions /\ \A s \in ss : s \in Sessions /\ session[s].status = "active"
  BY DEF Active
<1>3. DOMAIN order = 1..n OBVIOUS
<1>4. session' = [s \in Sessions |-> IF s \in ss THEN Over(session[s], cn) ELSE session[s]]
  BY <1>3 DEF Ended
<1>5. client' = Broadcast(kept, "ended", items)
  BY <1>3 DEF Ended
<1>6. /\ items \in Seq(ItemType) /\ DOMAIN items = 1..n
      /\ \A i \in 1..n : /\ items[i].kind = "ended" /\ items[i].session = order[i]
                         /\ items[i].seq = session[order[i]].seq
  <2>1. ASSUME NEW i \in 1..n
        PROVE  /\ Item("ended", order[i]) \in ItemType
               /\ Item("ended", order[i]).kind = "ended"
               /\ Item("ended", order[i]).session = order[i]
               /\ Item("ended", order[i]).seq = session[order[i]].seq
    <3>1. order[i] \in Sessions BY DEF Active
    <3>2. session[order[i]].seq \in 0..MaxSeq BY <1>1, <3>1, SessionFacts
    <3>3. 0 \in 0..MaxSeq OBVIOUS
    <3> QED BY <3>1, <3>2, <3>3 DEF Item, ItemType, Kinds
  <2>2. items \in [1..n -> ItemType] BY <2>1
  <2>3. items \in Seq(ItemType) BY <2>2, FunctionIsSeq
  <2> QED BY <2>1, <2>3
<1> HIDE DEF items
<1>7. /\ session' \in SessionsType
      /\ \A s \in Sessions : /\ s \notin ss => session'[s] = session[s]
                             /\ s \in ss => /\ session'[s].status = "ended"
                                            /\ session'[s].output = None
                                            /\ session'[s].seq = session[s].seq
  <2>1. \A s \in Sessions : session[s] \in SessionType BY <1>1 DEF SessionsType
  <2>2. \A s \in Sessions : /\ Over(session[s], cn) \in SessionType
                            /\ Over(session[s], cn).status = "ended"
                            /\ Over(session[s], cn).output = None
                            /\ Over(session[s], cn).seq = session[s].seq
    BY <2>1, OverFacts
  <2> HIDE DEF ss
  <2> QED BY <1>4, <2>1, <2>2 DEF SessionsType
<1>8. EndOf(ss, session') BY <1>2, <1>7 DEF EndOf
<1>9. ASSUME NEW c \in Clients
      PROVE  /\ ClientInv(client'[c], session')
             /\ client'[c].outputs = client[c].outputs \ mine(c)
             /\ client'[c].state = client[c].state
  <2>1. \A i \in DOMAIN items :
           /\ items[i].kind = "ended" /\ items[i].session \in ss
           /\ items[i].seq = session[items[i].session].seq
           /\ \A j \in DOMAIN items : items[i].session = items[j].session => i = j
    BY <1>6
  <2>2. /\ ClientInv(y(c), session')
        /\ ClientInv(EnqueueEvents(y(c), items), session')
        /\ Beside(y(c), EnqueueEvents(y(c), items))
    <3> HIDE DEF ss
    <3> QED BY <1>2, <1>6, <1>7, <1>8, <2>1, EndHeard
  <2>3. y(c).outputs = client[c].outputs \ mine(c) /\ y(c).state = client[c].state
    BY <1>1, ForgetFacts
  <2>4. client'[c] = EnqueueEvents(y(c), items) \/ client'[c] = y(c)
    <3>1. kept[c] = y(c) OBVIOUS
    <3> HIDE DEF kept
    <3> QED BY <1>5, <3>1 DEF Broadcast
  <2> HIDE DEF y, mine
  <2> QED BY <2>2, <2>3, <2>4 DEF Beside
<1>10. client' \in [Clients -> ClientType]
  <2>1. DOMAIN client' = Clients /\ client' = [c \in Clients |-> client'[c]]
    BY <1>5 DEF Broadcast
  <2>2. \A c \in Clients : client'[c] \in ClientType BY <1>9 DEF ClientInv
  <2> QED BY <2>1, <2>2
<1>11. ASSUME NEW s \in Sessions PROVE OutputOf(s)'
  <2>1. CASE s \notin ss
    <3>1. \A c \in Clients : s \in client'[c].outputs <=> s \in client[c].outputs
      BY <1>9, <2>1
    <3>2. session'[s] = session[s] BY <1>7, <2>1
    <3>3. \A c \in Clients : client'[c].state = client[c].state BY <1>9
    <3> HIDE DEF ss
    <3> QED BY <1>1, <1>2, <2>1, <3>1, <3>2, <3>3, OthersAgree DEF ss
  <2>2. CASE s \in ss
    <3>1. OutputOf(s) BY <1>1, Agreement DEF BusInv
    <3>2. \A c \in Clients : s \notin client'[c].outputs
      BY <1>9, <2>2, <3>1 DEF OutputOf
    <3>3. session'[s].output = None /\ session'[s].status = "ended" BY <1>7, <2>2
    <3>4. \A k \in Connections : conn'[k].session # s
      BY <2>2, NoneIsNothing DEF Served
    <3> QED BY <3>2, <3>3, <3>4, NoneIsNothing DEF OutputOf
  <2> QED BY <2>1, <2>2
<1>12. OutputAgrees' BY <1>11 DEF OutputAgrees, OutputOf, Active, Served
<1>13. IsFiniteSet(Active')
  <2>1. Active' \in SUBSET Active BY <1>7 DEF Active
  <2> QED BY <1>1, <2>1, FS_Subset DEF BusInv
<1>14. BusInv'
  <2>1. ASSUME NEW s \in Sessions
        PROVE  /\ session'[s].status = "new" => session'[s].seq = 0 /\ ~session'[s].told
               /\ session'[s].status = "active" => session'[s].conn \in Connections
               /\ session'[s].seq <= limit.frames
    BY <1>1, <1>7 DEF BusInv
  <2>2. \A k \in Connections : conn'[k].open => conn'[k].state = "up" BY DEF Served
  <2> QED BY <1>1, <1>7, <1>12, <1>13, <2>1, <2>2 DEF BusInv, SessionsType, Served
<1> QED BY <1>9, <1>10, <1>14 DEF IInv

(* endSession, of a session that is active or not.                         *)
Gone(s) == IF s \in Active THEN {s} ELSE {}
StateOf(cn) == [conn |-> cn, session |-> session, client |-> client]

LEMMA EndSessionKeeps ==
  ASSUME IInv, NEW s, NEW cn, Served(Gone(s)),
         session' = EndSession(StateOf(cn), s).session,
         client' = EndSession(StateOf(cn), s).client, limit' = limit, closed' \in BOOLEAN
  PROVE  IInv'
<1>1. CASE s \notin Active
  <2>1. UNCHANGED <<session, client>> BY <1>1 DEF EndSession, StateOf
  <2>2. Served({}) BY <1>1 DEF Gone
  <2> QED BY <2>1, <2>2, ServerStep
<1>2. CASE s \in Active
  <2> DEFINE order == <<s>>
  <2>1. order \in [1..1 -> Active] /\ order[1] = s BY <1>2
  <2>2. /\ session' = Ended(StateOf(cn), order).session
        /\ client' = Ended(StateOf(cn), order).client
    BY <1>2 DEF EndSession
  <2> HIDE DEF order
  <2>3. {order[i] : i \in 1..1} = {s} BY <2>1
  <2>4. Served({order[i] : i \in 1..1}) BY <1>2, <2>3 DEF Gone
  <2>5. \A i, j \in 1..1 : order[i] = order[j] => i = j OBVIOUS
  <2>6. LET st == [conn |-> cn, session |-> session, client |-> client]
        IN session' = Ended(st, order).session /\ client' = Ended(st, order).client
    BY <2>2 DEF StateOf
  <2>7. limit' = limit /\ closed' \in BOOLEAN OBVIOUS
  <2>8. 1 \in Nat OBVIOUS
  <2> QED BY <2>1, <2>4, <2>5, <2>6, <2>7, <2>8, EndKeeps, ZenonT(60)
<1> QED BY <1>1, <1>2

LEMMA Dropped ==
  ASSUME NEW s, NEW cn \in [Connections -> ConnectionType]
  PROVE  LET rest == EndSession(StateOf(cn), s).conn
         IN /\ rest \in [Connections -> ConnectionType]
            /\ \A k \in Connections :
                 /\ rest[k].session = IF cn[k].session \in Gone(s) THEN None ELSE cn[k].session
                 /\ rest[k].open = cn[k].open /\ rest[k].state = cn[k].state
                 /\ rest[k].closing = cn[k].closing
<1>1. CASE s \notin Active
  <2>1. EndSession(StateOf(cn), s).conn = cn BY <1>1 DEF EndSession, StateOf
  <2> QED BY <1>1, <2>1 DEF Gone
<1>2. CASE s \in Active
  <2>1. EndSession(StateOf(cn), s).conn = Released(cn, {s})
    <3>1. EndSession(StateOf(cn), s) = Ended(StateOf(cn), <<s>>) BY <1>2 DEF EndSession
    <3>2. {<<s>>[i] : i \in DOMAIN <<s>>} = {s} OBVIOUS
    <3>3. Ended(StateOf(cn), <<s>>).conn = Released(cn, {<<s>>[i] : i \in DOMAIN <<s>>})
      BY DEF Ended, StateOf
    <3> QED BY <3>1, <3>2, <3>3
  <2>2. ASSUME NEW k \in Connections
        PROVE  LET r == Released(cn, {s})[k]
               IN /\ r \in ConnectionType
                  /\ r.session = IF cn[k].session \in {s} THEN None ELSE cn[k].session
                  /\ r.open = cn[k].open /\ r.state = cn[k].state
                  /\ r.closing = cn[k].closing
    <3>1. Released(cn, {s})[k] = IF cn[k].session \in {s} THEN [cn[k] EXCEPT !.session = None]
                                 ELSE cn[k]
      BY DEF Released
    <3>2. cn[k] \in ConnectionType OBVIOUS
    <3>3. CASE cn[k].session \in {s} BY <3>1, <3>2, <3>3 DEF ConnectionType
    <3>4. CASE cn[k].session \notin {s} BY <3>1, <3>2, <3>4
    <3> QED BY <3>3, <3>4
  <2>3. Released(cn, {s}) = [k \in Connections |-> Released(cn, {s})[k]] BY DEF Released
  <2>4. Released(cn, {s}) \in [Connections -> ConnectionType] BY <2>2, <2>3
  <2> QED BY <1>2, <2>1, <2>2, <2>4 DEF Gone
<1> QED BY <1>1, <1>2

LEMMA StateIs == State = StateOf(conn)
BY DEF State, StateOf

(* What a connection has of it.                                            *)
LEMMA ConnFacts ==
  ASSUME IInv
  PROVE  /\ conn \in [Connections -> ConnectionType]
         /\ \A k \in Connections :
              /\ conn[k] \in ConnectionType
              /\ conn[k].open => conn[k].state = "up"
              /\ conn[k].session # None => /\ conn[k].state = "up" /\ conn[k].session \in Active
                                           /\ session[conn[k].session].conn = k
<1>1. BusInv BY DEF IInv
<1>2. conn \in [Connections -> ConnectionType] BY <1>1 DEF BusInv
<1>3. \A k \in Connections : conn[k] \in ConnectionType BY <1>2
<1>4. ASSUME NEW k \in Connections, conn[k].session # None
      PROVE  conn[k].state = "up" /\ conn[k].session \in Active
             /\ session[conn[k].session].conn = k
  <2>1. conn[k].session \in Sessions BY <1>3, <1>4 DEF ConnectionType
  <2> QED BY <1>1, <1>4, <2>1 DEF BusInv, OutputAgrees
<1> QED BY <1>1, <1>2, <1>3, <1>4 DEF BusInv

LEMMA ConnectKeeps ==
  ASSUME IInv, NEW k \in Connections, Connect(k)
  PROVE  IInv'
<1>1. conn[k].state = "new" /\ conn[k].session = None BY ConnFacts DEF Connect
<1>2. conn' = [conn EXCEPT ![k] = [[conn[k] EXCEPT !.state = "up"] EXCEPT !.open = TRUE]]
  BY ConnFacts DEF Connect, ConnectionType
<1>3. [[conn[k] EXCEPT !.state = "up"] EXCEPT !.open = TRUE] \in ConnectionType
  BY ConnFacts DEF ConnectionType
<1>4. conn' \in [Connections -> ConnectionType] BY <1>2, <1>3, ConnFacts
<1>5. /\ conn'[k].session = None /\ conn'[k].state = "up"
      /\ \A j \in Connections : j # k => conn'[j] = conn[j]
  BY <1>1, <1>2, ConnFacts DEF ConnectionType
<1>6. Served({}) BY <1>1, <1>4, <1>5, ConnFacts DEF Served
<1> QED BY <1>6, ServerStep DEF Connect, IInv, BusInv

LEMMA DisconnectsKeeps ==
  ASSUME IInv, NEW k \in Connections, Disconnects(k)
  PROVE  IInv'
<1>1. conn' = [conn EXCEPT ![k] = [conn[k] EXCEPT !.open = FALSE]]
  BY ConnFacts DEF Disconnects
<1>2. [conn[k] EXCEPT !.open = FALSE] \in ConnectionType BY ConnFacts DEF ConnectionType
<1>3. conn' \in [Connections -> ConnectionType] BY <1>1, <1>2, ConnFacts
<1>4. /\ conn'[k].session = conn[k].session /\ conn'[k].state = conn[k].state
      /\ ~conn'[k].open
      /\ \A j \in Connections : j # k => conn'[j] = conn[j]
  BY <1>1, ConnFacts DEF ConnectionType
<1>5. Served({}) BY <1>3, <1>4, ConnFacts DEF Served
<1> QED BY <1>5, ServerStep DEF Disconnects, IInv, BusInv

LEMMA HandleEndKeeps ==
  ASSUME IInv, NEW s, Become(EndSession(State, s)), UNCHANGED <<closed, limit>>
  PROVE  IInv'
<1>1. /\ conn' = EndSession(StateOf(conn), s).conn
      /\ session' = EndSession(StateOf(conn), s).session
      /\ client' = EndSession(StateOf(conn), s).client
  BY StateIs DEF Become
<1>2. Served(Gone(s)) BY <1>1, ConnFacts, Dropped DEF Served
<1> QED BY <1>1, <1>2, EndSessionKeeps DEF IInv, BusInv

LEMMA ServerClosesKeeps ==
  ASSUME IInv, NEW k \in Connections, ServerCloses(k)
  PROVE  IInv'
<1> DEFINE cn == [conn EXCEPT ![k] = [conn[k] EXCEPT !.closing = TRUE]]
           s == conn[k].session
           done == EndSession(StateOf(cn), s)
           rest == done.conn
<1>1. [conn[k] EXCEPT !.closing = TRUE] \in ConnectionType BY ConnFacts DEF ConnectionType
<1>2. /\ cn \in [Connections -> ConnectionType]
      /\ \A j \in Connections : /\ cn[j].session = conn[j].session /\ cn[j].open = conn[j].open
                                /\ cn[j].state = conn[j].state
  BY <1>1, ConnFacts DEF ConnectionType
<1>3. [State EXCEPT !.conn = cn] = StateOf(cn)
  <2> HIDE DEF cn
  <2> QED BY DEF State, StateOf
<1>4. cn = [conn EXCEPT ![k].closing = TRUE] OBVIOUS
<1>5. Closed(k) = [done EXCEPT !.conn[k].open = FALSE]
  <2> HIDE DEF cn
  <2> QED BY <1>3, <1>4 DEF Closed
<1>6. done = [conn |-> rest, session |-> done.session, client |-> done.client]
  <2>1. done = StateOf(cn) \/ done = Ended(StateOf(cn), <<s>>)
    <3> HIDE DEF cn
    <3> QED BY DEF EndSession
  <2> HIDE DEF done, cn
  <2> QED BY <2>1 DEF StateOf, Ended
<1>7. /\ rest \in [Connections -> ConnectionType]
      /\ \A j \in Connections :
           /\ rest[j].session = IF cn[j].session \in Gone(s) THEN None ELSE cn[j].session
           /\ rest[j].open = cn[j].open /\ rest[j].state = cn[j].state
  <2> HIDE DEF cn
  <2> QED BY <1>2, Dropped
<1> HIDE DEF done, rest, cn
<1>8. /\ conn' = [rest EXCEPT ![k].open = FALSE]
      /\ session' = done.session /\ client' = done.client
  <2> DEFINE ds == done.session
             dc == done.client
  <2>1. done = [conn |-> rest, session |-> ds, client |-> dc] BY <1>6
  <2> HIDE DEF ds, dc
  <2>2. Closed(k) = [conn |-> [rest EXCEPT ![k].open = FALSE], session |-> ds, client |-> dc]
    BY <1>5, <2>1
  <2>3. conn' = [rest EXCEPT ![k].open = FALSE] /\ session' = ds /\ client' = dc
    BY <2>2 DEF ServerCloses, Become
  <2> QED BY <2>3 DEF ds, dc
<1>9. [rest[k] EXCEPT !.open = FALSE] \in ConnectionType
  <2>1. rest[k] \in ConnectionType BY <1>7
  <2> QED BY <2>1 DEF ConnectionType
<1>10. conn' \in [Connections -> ConnectionType] BY <1>7, <1>8, <1>9
<1>11. \A j \in Connections :
         /\ conn'[j].session = rest[j].session /\ conn'[j].state = rest[j].state
         /\ conn'[j].open => rest[j].open
  BY <1>7, <1>8 DEF ConnectionType
<1>12. Served(Gone(s))
  <2> HIDE DEF s
  <2>1. ASSUME NEW j \in Connections
        PROVE  /\ conn'[j].session = IF conn[j].session \in Gone(s) THEN None ELSE conn[j].session
               /\ conn'[j].open => conn'[j].state = "up" /\ conn[j].open
               /\ conn'[j].session # None => conn'[j].state = "up"
    BY <1>2, <1>7, <1>11, ConnFacts
  <2> QED BY <1>10, <2>1 DEF Served
<1> QED BY <1>8, <1>12, EndSessionKeeps DEF done, ServerCloses, IInv, BusInv

LEMMA OnCloseKeeps ==
  ASSUME IInv, NEW k \in Connections, OnClose(k)
  PROVE  IInv'
<1> DEFINE cn == [conn EXCEPT ![k] = [conn[k] EXCEPT !.state = "down"]]
           s == conn[k].session
           rest == EndSession(StateOf(cn), s).conn
<1>1. [conn[k] EXCEPT !.state = "down"] \in ConnectionType BY ConnFacts DEF ConnectionType
<1>2. /\ cn \in [Connections -> ConnectionType]
      /\ \A j \in Connections : /\ cn[j].session = conn[j].session /\ cn[j].open = conn[j].open
                                /\ j # k => cn[j].state = conn[j].state
  BY <1>1, ConnFacts DEF ConnectionType
<1>3. [State EXCEPT !.conn[k].state = "down"] = StateOf(cn) BY DEF State, StateOf
<1>4. /\ conn' = rest
      /\ session' = EndSession(StateOf(cn), s).session
      /\ client' = EndSession(StateOf(cn), s).client
  <2> HIDE DEF cn
  <2> QED BY <1>3 DEF OnClose, Become
<1>5. /\ rest \in [Connections -> ConnectionType]
      /\ \A j \in Connections :
           /\ rest[j].session = IF cn[j].session \in Gone(s) THEN None ELSE cn[j].session
           /\ rest[j].open = cn[j].open /\ rest[j].state = cn[j].state
  <2> HIDE DEF cn
  <2> QED BY <1>2, Dropped
<1> HIDE DEF rest, cn
<1>6. ~conn[k].open BY DEF OnClose
<1>7. conn'[k].session = None
  <2>1. CASE s = None BY <1>2, <1>4, <1>5, <2>1
  <2>2. CASE s # None
    <3>1. s \in Gone(s) BY <2>2, ConnFacts DEF Gone
    <3> QED BY <1>2, <1>4, <1>5, <3>1
  <2> QED BY <2>1, <2>2
<1>8. Served(Gone(s))
  <2>1. conn[k].session \in Gone(s) \/ conn[k].session = None
    BY ConnFacts DEF Gone
  <2>2. ASSUME NEW j \in Connections
        PROVE  /\ conn'[j].session = IF conn[j].session \in Gone(s) THEN None ELSE conn[j].session
               /\ conn'[j].open => conn'[j].state = "up" /\ conn[j].open
               /\ conn'[j].session # None => conn'[j].state = "up"
    <3> HIDE DEF s
    <3>1. CASE j = k BY <1>2, <1>4, <1>5, <1>6, <1>7, <3>1
    <3>2. CASE j # k BY <1>2, <1>4, <1>5, <3>2, ConnFacts
    <3> QED BY <3>1, <3>2
  <2> HIDE DEF s
  <2> QED BY <1>4, <1>5, <2>2 DEF Served
<1> QED BY <1>4, <1>8, EndSessionKeeps DEF OnClose, IInv, BusInv

LEMMA ShutdownKeeps ==
  ASSUME IInv, Shutdown
  PROVE  IInv'
<1>1. PICK order \in Orders : Become(Ended(State, order)) BY DEF Shutdown
<1> DEFINE n == Cardinality(Active)
           ss == {order[i] : i \in 1..n}
<1>2. n \in Nat BY FS_CardinalityType DEF IInv, BusInv
<1>3. order \in [1..n -> Active] /\ \A i, j \in 1..n : order[i] = order[j] => i = j
  BY <1>1 DEF Orders
<1>4. DOMAIN order = 1..n BY <1>3
<1>5. /\ conn' = Released(conn, ss)
      /\ session' = Ended(StateOf(conn), order).session
      /\ client' = Ended(StateOf(conn), order).client
  BY <1>1, <1>4, StateIs DEF Become, Ended, StateOf
<1>6. Served(ss)
  <2> HIDE DEF ss
  <2>1. ASSUME NEW k \in Connections
        PROVE  /\ conn'[k] \in ConnectionType
               /\ conn'[k].session = IF conn[k].session \in ss THEN None ELSE conn[k].session
               /\ conn'[k].open = conn[k].open /\ conn'[k].state = conn[k].state
    <3>1. conn'[k] = IF conn[k].session \in ss THEN [conn[k] EXCEPT !.session = None] ELSE conn[k]
      BY <1>5 DEF Released
    <3>2. conn[k] \in ConnectionType BY ConnFacts
    <3>3. CASE conn[k].session \in ss BY <3>1, <3>2, <3>3 DEF ConnectionType
    <3>4. CASE conn[k].session \notin ss BY <3>1, <3>2, <3>4
    <3> QED BY <3>3, <3>4
  <2>2. conn' = [k \in Connections |-> conn'[k]] BY <1>5 DEF Released
  <2>3. conn' \in [Connections -> ConnectionType] BY <2>1, <2>2
  <2> QED BY <2>1, <2>3, ConnFacts DEF Served
<1> HIDE DEF n
<1> QED BY <1>2, <1>3, <1>5, <1>6, EndKeeps DEF StateOf, Shutdown

-----------------------------------------------------------------------------
(* The start of a session.                                                 *)

(* A plugin, as s begins.                                                  *)
LEMMA StartHeard ==
  ASSUME IInv, NEW s \in Sessions, NEW tt \in SessionsType, session[s].status = "new",
         session[s].seq = 0, tt[s].status = "active", tt[s].seq = 0,
         \A r \in Sessions : r # s => tt[r].seq = session[r].seq /\ tt[r].status = session[r].status,
         NEW items \in Seq(ItemType), DOMAIN items = {1}, items[1].kind = "started",
         items[1].session = s, items[1].seq = 0, NEW c \in Clients
  PROVE  /\ ClientInv(client[c], tt)
         /\ ClientInv(EnqueueEvents(client[c], items), tt)
         /\ Beside(client[c], EnqueueEvents(client[c], items))
<1> DEFINE x == client[c]
<1>1. x \in ClientType /\ ClientInv(x, session) /\ session \in SessionsType
  BY SessionsTyped DEF IInv
<1>2. Counted(x) /\ Ready(x) /\ InOrder(x, session) /\ Lossless(x, session)
  BY <1>1 DEF ClientInv
<1>3. \A r \in Sessions : session[r].seq \in Nat BY <1>1, SessionFacts
<1>4. Onward(session, tt) BY <1>3 DEF Onward
<1> HIDE DEF x
<1>5. InOrder(x, tt) BY <1>1, <1>2, <1>4, OrderKept
<1>6. Lossless(x, tt)
  <2>1. ASSUME NEW r \in Sessions
        PROVE  /\ tt[r].seq = session[r].seq
               /\ tt[r].status # "active" => x.gaps[r] = 0
               /\ tt[r].status # "ended" => x.forgotten[r] = 0
    BY <1>2 DEF Lossless
  <2> QED BY <1>1, <1>2, <2>1, LosslessKept
<1>7. News(items, session, tt) BY DEF News
<1>8. \A i \in DOMAIN items : ~IsInput(items[i]) BY DEF IsInput
<1>9. ClientInv(x, tt) BY <1>1, <1>2, <1>5, <1>6 DEF ClientInv
<1>10. ClientInv(EnqueueEvents(x, items), tt) /\ Beside(x, EnqueueEvents(x, items))
  BY <1>1, <1>2, <1>4, <1>6, <1>7, <1>8, EventsKeep
<1> QED BY <1>9, <1>10 DEF x

LEMMA HandleStartKeeps ==
  ASSUME IInv, NEW k \in Connections, NEW s \in Sessions, HandleStart(k, s)
  PROVE  IInv'
<1> DEFINE nw == [[session[s] EXCEPT !.status = "active"] EXCEPT !.conn = k]
           items == <<Item("started", s)>>
<1>1. /\ BusInv /\ session \in SessionsType
      /\ client \in [Clients -> ClientType] /\ \A c \in Clients : ClientInv(client[c], session)
  BY SessionsTyped DEF IInv
<1>2. /\ conn[k].open /\ conn[k].session = None /\ session[s].status = "new"
      /\ session[s] \in SessionType /\ session[s].seq = 0 /\ ~session[s].told
  BY <1>1 DEF HandleStart, Speaks, BusInv, SessionsType
<1>3. session' = [session EXCEPT ![s] = nw]
  BY <1>1, <1>2 DEF HandleStart, SessionsType, SessionType
<1>4. /\ nw \in SessionType /\ nw.status = "active" /\ nw.conn = k /\ nw.seq = 0
      /\ nw.output = session[s].output
  BY <1>2 DEF SessionType
<1>5. ~nw.told BY <1>2 DEF SessionType
<1> HIDE DEF nw
<1>6. /\ session' \in SessionsType /\ session'[s] = nw
      /\ \A r \in Sessions : r # s => session'[r] = session[r]
  BY <1>1, <1>3, <1>4 DEF SessionsType
<1>7. /\ conn' \in [Connections -> ConnectionType] /\ conn'[k].session = s
      /\ \A j \in Connections : /\ conn'[j].open = conn[j].open /\ conn'[j].state = conn[j].state
                                /\ j # k => conn'[j].session = conn[j].session
  <2> DEFINE cn == [conn[k] EXCEPT !.session = s]
  <2>1. conn[k] \in ConnectionType BY ConnFacts
  <2>2. cn \in ConnectionType /\ cn.session = s /\ cn.open = conn[k].open /\ cn.state = conn[k].state
    BY <2>1 DEF ConnectionType
  <2>3. conn' = [conn EXCEPT ![k] = cn] BY DEF HandleStart
  <2> HIDE DEF cn
  <2> QED BY <2>2, <2>3, ConnFacts
<1>8. items \in Seq(ItemType) /\ DOMAIN items = {1} /\ items[1].kind = "started"
      /\ items[1].session = s /\ items[1].seq = 0
  <2> DEFINE it == Item("started", s)
  <2>1. 0 \in 0..MaxSeq OBVIOUS
  <2>2. it \in ItemType /\ it.kind = "started" /\ it.session = s /\ it.seq = 0
    BY <1>2, <2>1 DEF Item, ItemType, Kinds
  <2> HIDE DEF it
  <2>3. items = <<it>> BY DEF it
  <2> HIDE DEF items
  <2> QED BY <2>2, <2>3
<1>9. client' = Broadcast(client, "started", items) BY DEF HandleStart
<1> HIDE DEF items
<1>10. ASSUME NEW c \in Clients
       PROVE  /\ ClientInv(client'[c], session')
              /\ client'[c].outputs = client[c].outputs /\ client'[c].state = client[c].state
  <2>1. client'[c] = EnqueueEvents(client[c], items) \/ client'[c] = client[c]
    BY <1>9 DEF Broadcast
  <2>2. /\ ClientInv(client[c], session')
        /\ ClientInv(EnqueueEvents(client[c], items), session')
        /\ Beside(client[c], EnqueueEvents(client[c], items))
    BY <1>2, <1>4, <1>6, <1>8, StartHeard
  <2> QED BY <2>1, <2>2 DEF Beside
<1>11. client' \in [Clients -> ClientType]
  <2>1. client' = [c \in Clients |-> client'[c]] BY <1>9 DEF Broadcast
  <2>2. \A c \in Clients : client'[c] \in ClientType BY <1>10 DEF ClientInv
  <2> QED BY <2>1, <2>2
<1>12. OutputOf(s) /\ \A r \in Sessions : OutputOf(r) BY <1>1, Agreement DEF BusInv
<1>13. session[s].output = None BY <1>2, <1>12 DEF OutputOf
<1>14. ASSUME NEW r \in Sessions PROVE OutputOf(r)'
  <2>1. CASE r = s
    <3>1. \A c \in Clients : s \notin client'[c].outputs
      BY <1>10, <1>12, <1>13, NoneIsNothing DEF OutputOf
    <3>2. \A j \in Connections : conn'[j].session = s <=> j = k
      BY <1>2, <1>7, <1>12 DEF OutputOf
    <3> QED BY <1>4, <1>5, <1>6, <1>13, <2>1, <3>1, <3>2, NoneIsNothing DEF OutputOf
  <2>2. CASE r # s
    <3>1. session[r].output \in Clients \cup {None} BY <1>1 DEF SessionsType, SessionType
    <3>2. session'[r] = session[r] BY <1>6, <2>2
    <3>3. \A j \in Connections : conn'[j].session = r <=> conn[j].session = r
      BY <1>2, <1>7, <2>2, NoneIsNothing
    <3>4. session[r].status = "active" => session[r].conn \in Connections BY <1>1 DEF BusInv
    <3> QED BY <1>7, <1>10, <1>12, <3>1, <3>2, <3>3, <3>4 DEF OutputOf
  <2> QED BY <2>1, <2>2
<1>15. \A j \in Connections : /\ conn'[j].open => conn'[j].state = "up"
                              /\ conn'[j].session # None => conn'[j].state = "up"
  BY <1>2, <1>7, ConnFacts
<1>16. OutputAgrees' BY <1>14, <1>15 DEF OutputAgrees, OutputOf, Active
<1>17. IsFiniteSet(Active')
  <2>1. Active' = Active \cup {s} BY <1>4, <1>6 DEF Active
  <2> QED BY <1>1, <2>1, FS_AddElement DEF BusInv
<1>18. BusInv'
  <2>1. limit' = limit /\ closed' = closed BY DEF HandleStart
  <2>2. 0 <= limit.frames BY <1>1 DEF BusInv
  <2>3. ASSUME NEW r \in Sessions
        PROVE  /\ session'[r].status = "new" => session'[r].seq = 0 /\ ~session'[r].told
               /\ session'[r].status = "active" => session'[r].conn \in Connections
               /\ session'[r].seq <= limit.frames
    BY <1>1, <1>4, <1>6, <2>2 DEF BusInv
  <2> QED BY <1>1, <1>6, <1>7, <1>15, <1>16, <1>17, <2>1, <2>3 DEF BusInv, SessionsType
<1> QED BY <1>10, <1>11, <1>18 DEF IInv

-----------------------------------------------------------------------------
(* Frames and output streams.                                              *)

(* A step that begins and ends no session.                                 *)
LEMMA StreamStep ==
  ASSUME IInv, UNCHANGED <<conn, closed, limit>>, session' \in SessionsType,
         \A s \in Sessions :
           /\ session'[s].status = session[s].status /\ session'[s].conn = session[s].conn
           /\ session'[s].seq <= limit.frames
           /\ session[s].status = "new" => session'[s].seq = 0 /\ ~session'[s].told
           /\ OutputOf(s)',
         client' \in [Clients -> ClientType], \A c \in Clients : ClientInv(client'[c], session')
  PROVE  IInv'
<1>1. BusInv BY DEF IInv
<1>2. \A k \in Connections : conn'[k].session # None => conn'[k].state = "up"
  BY <1>1, Agreement DEF BusInv
<1>3. OutputAgrees' BY <1>2 DEF OutputAgrees, OutputOf, Active
<1>4. Active' = Active BY DEF Active
<1>5. BusInv' BY <1>1, <1>3, <1>4 DEF BusInv, SessionsType
<1> QED BY <1>5 DEF IInv

LEMMA PushInputKeeps ==
  ASSUME IInv, NEW k \in Connections, PushInput(k)
  PROVE  IInv'
<1> DEFINE s == conn[k].session
           v == session[s].seq + 1
           nw == [session[s] EXCEPT !.seq = v]
           item == [Item("input", s) EXCEPT !.seq = v]
<1>1. /\ BusInv /\ session \in SessionsType
      /\ client \in [Clients -> ClientType] /\ \A c \in Clients : ClientInv(client[c], session)
  BY SessionsTyped DEF IInv
<1>2. s \in Sessions /\ session[s].status = "active" /\ session[s].seq < limit.frames
  BY ConnFacts DEF PushInput, ConnectionType
<1>3. limit \in Limits BY <1>1 DEF BusInv
<1>4. limit.frames \in 0..MaxSeq BY <1>3
<1>5. session[s].seq \in 0..MaxSeq BY <1>1, <1>2, SessionFacts
<1>6. v \in 0..MaxSeq /\ v <= limit.frames BY <1>2, <1>4, <1>5
<1>7. session' = [session EXCEPT ![s] = nw] BY <1>1, <1>2 DEF PushInput, SessionsType, SessionType
<1>8. client' = BroadcastFrame(item)
  BY DEF PushInput, Item
<1>9. v = session[s].seq + 1 OBVIOUS
<1> HIDE DEF s
<1>10. /\ nw \in SessionType /\ nw.seq = v /\ nw.status = session[s].status
       /\ nw.conn = session[s].conn /\ nw.output = session[s].output
       /\ nw.told = session[s].told
  <2> HIDE DEF v
  <2>1. session[s] \in SessionType BY <1>1, <1>2 DEF SessionsType
  <2> QED BY <1>6, <2>1 DEF SessionType
<1>11. item \in ItemType /\ IsInput(item) /\ item.session = s /\ item.seq = v
  <2> DEFINE it == Item("input", s)
  <2>1. 0 \in 0..MaxSeq OBVIOUS
  <2>2. it \in ItemType /\ it.kind = "input" /\ it.session = s
    BY <1>2, <1>5, <2>1 DEF Item, ItemType, Kinds
  <2>4. item = [it EXCEPT !.seq = v] OBVIOUS
  <2> HIDE DEF it, v, item
  <2>3. item \in ItemType /\ item.kind = "input" /\ item.session = s /\ item.seq = v
    BY <1>6, <2>2, <2>4 DEF ItemType
  <2> QED BY <2>3 DEF IsInput
<1> HIDE DEF v, nw, item
<1>12. /\ session' \in SessionsType /\ session'[s] = nw
       /\ \A r \in Sessions : r # s => session'[r] = session[r]
  BY <1>1, <1>2, <1>7, <1>10 DEF SessionsType
<1>13. Pushed(session, session', s, item)
  <2>1. session'[s].seq = session[s].seq + 1 /\ session'[s].status = session[s].status
    BY <1>9, <1>10, <1>12
  <2>2. \A t \in Sessions : /\ session'[t].status = session[t].status
                            /\ t # s => session'[t].seq = session[t].seq
    BY <1>12, <2>1
  <2>3. item.seq = session'[s].seq BY <1>10, <1>11, <1>12
  <2> QED BY <1>2, <1>11, <2>1, <2>2, <2>3 DEF Pushed
<1>14. ASSUME NEW c \in Clients
       PROVE  ClientInv(client'[c], session') /\ Beside(client[c], client'[c])
  <2>1. CASE Listens(client[c], "input")
    <3>1. client'[c] = EnqueueFrame(client[c], item) BY <1>8, <2>1 DEF BroadcastFrame
    <3>2. "input" \in client[c].handlers BY <2>1 DEF Listens
    <3> QED BY <1>1, <1>11, <1>12, <1>13, <3>1, <3>2, FrameKeeps
  <2>2. CASE ~Listens(client[c], "input")
    <3>1. client'[c] = [client[c] EXCEPT !.whole = FALSE] BY <1>8, <2>2 DEF BroadcastFrame
    <3> QED BY <1>1, <1>12, <1>13, <3>1, FrameMissed
  <2> QED BY <2>1, <2>2
<1>15. client' \in [Clients -> ClientType]
  <2>1. client' = [c \in Clients |-> client'[c]] BY <1>8 DEF BroadcastFrame
  <2>2. \A c \in Clients : client'[c] \in ClientType BY <1>14 DEF ClientInv
  <2> QED BY <2>1, <2>2
<1>16. ASSUME NEW r \in Sessions
       PROVE  /\ session'[r].status = session[r].status /\ session'[r].conn = session[r].conn
              /\ session'[r].output = session[r].output /\ session'[r].told = session[r].told
              /\ session'[r].seq <= limit.frames
              /\ session[r].status = "new" => session'[r].seq = 0 /\ ~session'[r].told
  <2>1. CASE r = s BY <1>2, <1>6, <1>10, <1>12, <2>1
  <2>2. CASE r # s BY <1>1, <1>12, <2>2 DEF BusInv
  <2> QED BY <2>1, <2>2
<1>17. ASSUME NEW r \in Sessions PROVE OutputOf(r)'
  <2>1. OutputOf(r) BY <1>1, Agreement DEF BusInv
  <2>2. session[r].output \in Clients \cup {None} BY <1>1 DEF SessionsType, SessionType
  <2>3. conn' = conn BY DEF PushInput
  <2> QED BY <1>14, <1>16, <2>1, <2>2, <2>3 DEF OutputOf, Beside
<1>18. UNCHANGED <<conn, closed, limit>> BY DEF PushInput
<1> QED BY <1>12, <1>14, <1>15, <1>16, <1>17, <1>18, StreamStep

(* The outputs of a plugin change, and nothing else of it.                 *)
LEMMA OutputsSet ==
  ASSUME IInv, NEW c \in Clients, NEW o \in SUBSET Sessions, NEW y,
         y = [client[c] EXCEPT !.outputs = o], client' = [client EXCEPT ![c] = y],
         session' \in SessionsType, Progress(session, session')
  PROVE  /\ client' \in [Clients -> ClientType]
         /\ \A d \in Clients : ClientInv(client'[d], session')
         /\ client'[c].outputs = o
         /\ \A d \in Clients : /\ client'[d].state = client[d].state
                               /\ d # c => client'[d].outputs = client[d].outputs
<1> DEFINE x == client[c]
<1>1. /\ session \in SessionsType
      /\ client \in [Clients -> ClientType] /\ \A d \in Clients : ClientInv(client[d], session)
  BY SessionsTyped DEF IInv
<1>2. x \in ClientType BY <1>1
<1>3. /\ y \in ClientType /\ y.queue = x.queue /\ y.heard = x.heard
      /\ y.gaps = x.gaps /\ y.forgotten = x.forgotten
      /\ y.inputItems = x.inputItems /\ y.running = x.running /\ y.scheduled = x.scheduled
      /\ y.draining = x.draining /\ y.whole = x.whole /\ y.handlers = x.handlers
      /\ y.outputs = o /\ y.state = x.state
  BY <1>2 DEF ClientType
<1>4. Listening(y) => Listening(x) /\ ("input" \in x.handlers => "input" \in y.handlers)
  BY <1>3 DEF Listening
<1> HIDE DEF x
<1>5. ClientInv(x, session) BY <1>1 DEF x
<1>9. session' \in SessionsType /\ Progress(session, session') OBVIOUS
<1>6. ClientInv(y, session') BY ONLY <1>1, <1>3, <1>4, <1>5, <1>9, PluginKept
<1>7. /\ client' \in [Clients -> ClientType] /\ client'[c] = y
      /\ \A d \in Clients : d # c => client'[d] = client[d]
  BY <1>1, <1>3
<1>8. ASSUME NEW d \in Clients, d # c PROVE ClientInv(client[d], session')
  <2>1. client[d] \in ClientType BY <1>1
  <2> QED BY <1>1, <2>1, PluginKept
<1> QED BY <1>3, <1>6, <1>7, <1>8 DEF x

LEMMA StartOutputKeeps ==
  ASSUME IInv, NEW c \in Clients, NEW s \in Sessions, StartOutput(c, s)
  PROVE  IInv'
<1> DEFINE nw == [[session[s] EXCEPT !.output = c] EXCEPT !.told = TRUE]
           o == client[c].outputs \cup {s}
           y == [client[c] EXCEPT !.outputs = o]
<1>1. BusInv /\ session \in SessionsType /\ client \in [Clients -> ClientType]
  BY SessionsTyped DEF IInv
<1>2. session[s] \in SessionType BY <1>1 DEF SessionsType
<1>3. session' = [session EXCEPT ![s] = nw] BY <1>1, <1>2 DEF StartOutput, SessionsType, SessionType
<1>4. /\ nw \in SessionType /\ nw.output = c /\ nw.told = TRUE /\ nw.conn = session[s].conn
      /\ nw.status = session[s].status /\ nw.seq = session[s].seq
  BY <1>2 DEF SessionType
<1>5. client' = [client EXCEPT ![c] = y] BY DEF StartOutput
<1>6. o \in SUBSET Sessions
  <2>1. client[c] \in ClientType BY <1>1
  <2> QED BY <2>1 DEF ClientType
<1> HIDE DEF nw
<1>7. /\ session' \in SessionsType /\ session'[s] = nw
      /\ \A r \in Sessions : r # s => session'[r] = session[r]
  BY <1>1, <1>3, <1>4 DEF SessionsType
<1>8. ASSUME NEW r \in Sessions
      PROVE  /\ session'[r].status = session[r].status /\ session'[r].conn = session[r].conn
             /\ session'[r].seq = session[r].seq
  BY <1>4, <1>7
<1>9. Progress(session, session') BY <1>8 DEF Progress
<1> HIDE DEF y
<1>10. /\ client' \in [Clients -> ClientType]
       /\ \A d \in Clients : ClientInv(client'[d], session')
       /\ client'[c].outputs = o
       /\ \A d \in Clients : /\ client'[d].state = client[d].state
                             /\ d # c => client'[d].outputs = client[d].outputs
  BY <1>5, <1>6, <1>7, <1>9, OutputsSet DEF y
<1>11. /\ session[s].status = "active" /\ session[s].output = None
       /\ client[c].state = "open" /\ UNCHANGED <<conn, closed, limit>>
  BY DEF StartOutput
<1>12. ASSUME NEW r \in Sessions PROVE OutputOf(r)'
  <2>1. OutputOf(r) BY <1>1, Agreement DEF BusInv
  <2>2. CASE r = s
    <3>1. ASSUME NEW d \in Clients PROVE s \in client'[d].outputs <=> d = c
      BY <1>10, <1>11, <2>1, <2>2, NoneIsNothing DEF OutputOf
    <3>2. session'[s].output = c /\ session'[s].told = TRUE BY <1>4, <1>7
    <3> QED BY <1>8, <1>10, <1>11, <2>1, <2>2, <3>1, <3>2, NoneIsNothing DEF OutputOf
  <2>3. CASE r # s
    <3>1. \A d \in Clients : r \in client'[d].outputs <=> r \in client[d].outputs
      BY <1>10, <2>3
    <3>2. session[r].output \in Clients \cup {None} BY <1>1 DEF SessionsType, SessionType
    <3>3. session'[r] = session[r] BY <1>7, <2>3
    <3> HIDE DEF o
    <3> QED BY <1>10, <1>11, <2>1, <3>1, <3>2, <3>3 DEF OutputOf
  <2> QED BY <2>2, <2>3
<1>13. ASSUME NEW r \in Sessions
       PROVE  /\ session'[r].seq <= limit.frames
              /\ session[r].status = "new" => session'[r].seq = 0 /\ ~session'[r].told
  <2>1. CASE r = s BY <1>1, <1>8, <1>11, <2>1 DEF BusInv
  <2>2. CASE r # s BY <1>1, <1>7, <2>2 DEF BusInv
  <2> QED BY <2>1, <2>2
<1> QED BY <1>7, <1>8, <1>10, <1>11, <1>12, <1>13, StreamStep

(* endOutput for the streams ss of c.                                      *)
LEMMA SilencedFacts ==
  ASSUME IInv, NEW c, NEW ss \in SUBSET Active, session' = Silenced(c, ss)
  PROVE  /\ session' \in SessionsType
         /\ \A s \in Sessions :
              /\ session'[s].status = session[s].status /\ session'[s].conn = session[s].conn
              /\ session'[s].seq = session[s].seq
              /\ s \notin ss => session'[s] = session[s]
              /\ s \in ss => /\ session'[s].output = None
                             /\ conn[session[s].conn].open => ~session'[s].told
<1>1. session \in SessionsType BY SessionsTyped
<1>2. ASSUME NEW s \in Sessions
      PROVE  /\ session'[s] \in SessionType
             /\ session'[s].status = session[s].status /\ session'[s].conn = session[s].conn
             /\ session'[s].seq = session[s].seq
             /\ s \notin ss => session'[s] = session[s]
             /\ s \in ss => /\ session'[s].output = None
                            /\ conn[session[s].conn].open => ~session'[s].told
  <2> DEFINE t == session[s].told /\ ~conn[session[s].conn].open
             z == [session[s] EXCEPT !.output = None]
             y == [z EXCEPT !.told = t]
  <2>1. session[s] \in SessionType BY <1>1 DEF SessionsType
  <2>2. session'[s] = IF s \in ss THEN y ELSE session[s]
    BY <2>1 DEF Silenced, SessionType
  <2>3. t \in BOOLEAN OBVIOUS
  <2>4. conn[session[s].conn].open => t = FALSE OBVIOUS
  <2> HIDE DEF t
  <2>5. /\ z \in SessionType /\ z.status = session[s].status /\ z.conn = session[s].conn
        /\ z.seq = session[s].seq /\ z.output = None
    BY <2>1 DEF SessionType
  <2> HIDE DEF z
  <2>6. /\ y \in SessionType /\ y.status = z.status /\ y.conn = z.conn
        /\ y.seq = z.seq /\ y.output = z.output /\ y.told = t
    BY <2>3, <2>5 DEF SessionType
  <2> HIDE DEF y
  <2> QED BY <2>1, <2>2, <2>4, <2>5, <2>6
<1>3. session' = [s \in Sessions |-> session'[s]] BY DEF Silenced
<1>4. session' \in SessionsType BY <1>2, <1>3 DEF SessionsType
<1> QED BY <1>2, <1>4

(* Streams of c end, whether c goes on or closes.                          *)
LEMMA SilenceStep ==
  ASSUME IInv, NEW c \in Clients, NEW ss \in SUBSET Active, session' = Silenced(c, ss),
         \A s \in ss : session[s].output = c,
         UNCHANGED <<conn, closed, limit>>,
         client' \in [Clients -> ClientType], \A d \in Clients : ClientInv(client'[d], session'),
         \A s \in Sessions : s \in client'[c].outputs <=> s \in client[c].outputs /\ s \notin ss,
         \A d \in Clients : d # c => /\ client'[d].outputs = client[d].outputs
                                     /\ client'[d].state = client[d].state,
         client'[c].outputs = {} \/ client'[c].state = client[c].state
  PROVE  IInv'
<1>1. BusInv /\ session \in SessionsType BY SessionsTyped DEF IInv
<1>2. /\ session' \in SessionsType
      /\ \A s \in Sessions :
           /\ session'[s].status = session[s].status /\ session'[s].conn = session[s].conn
           /\ session'[s].seq = session[s].seq
           /\ s \notin ss => session'[s] = session[s]
           /\ s \in ss => /\ session'[s].output = None
                          /\ conn[session[s].conn].open => ~session'[s].told
  BY SilencedFacts
<1>3. ASSUME NEW s \in Sessions PROVE OutputOf(s)'
  <2>1. OutputOf(s) BY <1>1, Agreement DEF BusInv
  <2>2. session[s].output \in Clients \cup {None} BY <1>1 DEF SessionsType, SessionType
  <2>3. \A k \in Connections :
          conn'[k].session = s <=> session'[s].status = "active" /\ session'[s].conn = k
    BY <1>2, <2>1 DEF OutputOf
  <2>4. CASE s \in ss
    <3>1. \A d \in Clients : s \notin client'[d].outputs BY <2>1, <2>4 DEF OutputOf
    <3> QED BY <1>2, <2>3, <2>4, <3>1, NoneIsNothing DEF OutputOf
  <2>5. CASE s \notin ss
    <3>1. session'[s] = session[s] BY <1>2, <2>5
    <3>2. \A d \in Clients : s \in client'[d].outputs <=> session[s].output = d
      BY <2>1, <2>5 DEF OutputOf
    <3>3. session[s].output # None =>
            session[s].status = "active" /\ client'[session[s].output].state = "open"
      <4>1. CASE session[s].output = c
        <5>1. s \in client'[c].outputs BY <3>2, <4>1
        <5> QED BY <2>1, <4>1, <5>1 DEF OutputOf
      <4>2. CASE session[s].output # c BY <2>1, <2>2, <4>2 DEF OutputOf
      <4> QED BY <4>1, <4>2
    <3>4. session[s].status = "active" /\ conn[session[s].conn].open =>
            (session[s].told <=> session[s].output # None)
      BY <2>1 DEF OutputOf
    <3> QED BY <2>3, <3>1, <3>2, <3>3, <3>4 DEF OutputOf
  <2> QED BY <2>4, <2>5
<1>4. ASSUME NEW s \in Sessions
      PROVE  /\ session'[s].seq <= limit.frames
             /\ session[s].status = "new" => session'[s].seq = 0 /\ ~session'[s].told
  <2>1. s \in ss => session[s].status # "new" BY DEF Active
  <2> QED BY <1>1, <1>2, <2>1 DEF BusInv
<1> QED BY <1>2, <1>3, <1>4, StreamStep

LEMMA EndOutputKeeps ==
  ASSUME IInv, NEW c \in Clients, NEW s \in Sessions, EndOutput(c, s)
  PROVE  IInv'
<1> DEFINE o == client[c].outputs \ {s}
           y == [client[c] EXCEPT !.outputs = o]
<1>1. session' = Silenced(c, {s}) /\ session[s].output = c /\ UNCHANGED <<conn, closed, limit>>
  BY DEF EndOutput
<1>2. {s} \in SUBSET Active BY DEF EndOutput, Active
<1>3. session' \in SessionsType /\ Progress(session, session')
  BY <1>1, <1>2, SilencedFacts DEF Progress
<1>4. client' = [client EXCEPT ![c] = y] BY DEF EndOutput
<1>5. o \in SUBSET Sessions
  <2>1. client[c] \in ClientType BY DEF IInv
  <2> QED BY <2>1 DEF ClientType
<1> HIDE DEF y
<1>6. /\ client' \in [Clients -> ClientType]
      /\ \A d \in Clients : ClientInv(client'[d], session')
      /\ client'[c].outputs = o
      /\ \A d \in Clients : /\ client'[d].state = client[d].state
                            /\ d # c => client'[d].outputs = client[d].outputs
  BY <1>3, <1>4, <1>5, OutputsSet DEF y
<1>7. \A r \in Sessions : r \in client'[c].outputs <=> r \in client[c].outputs /\ r \notin {s}
  BY <1>6
<1> HIDE DEF o
<1> QED BY <1>1, <1>2, <1>6, <1>7, SilenceStep

LEMMA CloseKeeps ==
  ASSUME IInv, NEW c \in Clients, Close(c)
  PROVE  IInv'
<1> DEFINE ss == {s \in client[c].outputs : session[s].status = "active" /\ session[s].output = c}
           y == Emptied(client[c])
<1>1. session' = Silenced(c, ss) /\ UNCHANGED <<conn, closed, limit>> BY DEF Close
<1>2. client[c] \in ClientType BY DEF IInv
<1>3. ss \in SUBSET Active /\ \A s \in ss : session[s].output = c
  BY <1>2 DEF Active, ClientType
<1>4. session' \in SessionsType /\ Progress(session, session')
  <2> HIDE DEF ss
  <2> QED BY <1>1, <1>3, SilencedFacts DEF Progress
<1>5. client' = [client EXCEPT ![c] = y] BY DEF Close
<1>6. /\ session \in SessionsType /\ client \in [Clients -> ClientType]
      /\ \A d \in Clients : ClientInv(client[d], session)
  BY SessionsTyped DEF IInv
<1>7. ClientInv(y, session') /\ y.outputs = {} /\ y.state = "closed"
  BY <1>4, <1>6, EmptiedKept
<1> HIDE DEF y
<1>8. /\ client' \in [Clients -> ClientType] /\ client'[c] = y
      /\ \A d \in Clients : d # c => client'[d] = client[d]
  BY <1>5, <1>6, <1>7 DEF ClientInv
<1>9. ASSUME NEW d \in Clients PROVE ClientInv(client'[d], session')
  <2>1. CASE d = c BY <1>7, <1>8, <2>1
  <2>2. CASE d # c
    <3> DEFINE x == client[d]
    <3>1. x \in ClientType /\ ClientInv(x, session) /\ session \in SessionsType BY <1>6
    <3> HIDE DEF x
    <3>2. ClientInv(x, session') BY <1>4, <3>1, PluginKept
    <3> QED BY <1>8, <2>2, <3>2 DEF x
  <2> QED BY <2>1, <2>2
<1>10. ASSUME NEW s \in Sessions, s \in client[c].outputs PROVE s \in ss
  <2>1. OutputOf(s) BY Agreement DEF IInv, BusInv
  <2>2. session[s].output = c BY <1>10, <2>1 DEF OutputOf
  <2> QED BY <1>10, <2>1, <2>2, NoneIsNothing DEF OutputOf
<1> HIDE DEF ss
<1> QED BY <1>1, <1>3, <1>7, <1>8, <1>9, <1>10, SilenceStep

-----------------------------------------------------------------------------
LEMMA InitSound ==
  ASSUME Init
  PROVE  IInv
<1> DEFINE none == 0
           nothing == [s \in Sessions |-> none]
           silence == [s \in Sessions |-> Unheard]
           x == [state |-> "new", handlers |-> {}, queue |-> <<>>, inputItems |-> none,
                 draining |-> FALSE, scheduled |-> none, running |-> none,
                 gaps |-> nothing, outputs |-> {}, heard |-> silence, whole |-> TRUE,
                 forgotten |-> nothing]
<1>1. none \in Nat /\ none \in 0..MaxSeq /\ none = 0 OBVIOUS
<1>2. \A c \in Clients : client[c] = x BY DEF Init
<1>3. client = [c \in Clients |-> client[c]] BY DEF Init
<1>4. Unheard \in [started : BOOLEAN, last : 0..MaxSeq, ended : BOOLEAN]
  BY <1>1 DEF Unheard
<1>5. silence \in [Sessions -> [started : BOOLEAN, last : 0..MaxSeq, ended : BOOLEAN]]
  BY <1>4
<1>6. nothing \in [Sessions -> 0..MaxSeq] BY <1>1
<1>7. \A s \in Sessions : silence[s] = Unheard /\ nothing[s] = 0 OBVIOUS
<1>8. <<>> \in Seq(ItemType) /\ Len(<<>>) = 0 /\ DOMAIN <<>> = {} BY EmptySeq, LenProperties
<1> HIDE DEF none, nothing, silence
<1>9. /\ x \in ClientType /\ x.state = "new" /\ x.queue = <<>> /\ x.inputItems = none
      /\ x.draining = FALSE /\ x.scheduled = none /\ x.running = none
      /\ x.gaps = nothing /\ x.forgotten = nothing /\ x.outputs = {} /\ x.heard = silence
  BY <1>1, <1>5, <1>6, <1>8 DEF ClientType
<1> HIDE DEF x
<1>10. \A s \in Sessions : /\ session[s].status = "new" /\ session[s].seq = 0
                           /\ session[s].output = None /\ session[s].told = FALSE
                           /\ session[s].conn = None
  BY DEF Init
<1>11. session \in SessionsType
  <2>1. [status |-> "new", conn |-> None, seq |-> 0, output |-> None, told |-> FALSE] \in SessionType
    BY DEF SessionType
  <2> QED BY <2>1 DEF Init, SessionsType
<1>12. ASSUME NEW c \in Clients PROVE ClientInv(client[c], session)
  <2>1. Counted(x)
    <3>1. Inputs(x.queue) = {} BY <1>8, <1>9 DEF Inputs
    <3>2. Cardinality(Inputs(x.queue)) = 0 BY <3>1, FS_EmptySet
    <3>3. Len(x.queue) = 0 /\ x.inputItems = 0 BY <1>1, <1>8, <1>9
    <3> QED BY <1>9, <3>2, <3>3, CountedInputs
  <2>2. Ready(x) BY <1>1, <1>9 DEF Ready
  <2>3. \A i \in DOMAIN x.queue : FALSE BY <1>8, <1>9
  <2>4. \A s \in Sessions : /\ x.heard[s].started = FALSE /\ x.heard[s].ended = FALSE
                            /\ x.heard[s].last = 0 /\ x.gaps[s] = 0
                            /\ x.forgotten[s] = 0
    BY <1>7, <1>9 DEF Unheard
  <2>5. InOrder(x, session) BY <2>3, <2>4 DEF InOrder
  <2>6. Lossless(x, session)
    <3>1. ASSUME NEW s \in Sessions
          PROVE  /\ x.gaps[s] <= session[s].seq /\ x.gaps[s] = 0 /\ x.forgotten[s] = 0
                 /\ Followed(x, s) /\ Missing(x, s, session[s].seq)
      <4>1. \A i \in Frames(x, s) : FALSE BY <2>3 DEF Frames
      <4>2. Followed(x, s) BY <4>1 DEF Followed
      <4>3. Number(x, s, 0) = 0 /\ Untold(x, s) = 0 /\ session[s].seq = 0
        BY <1>10, <2>4 DEF Number, Untold
      <4>4. Missing(x, s, session[s].seq) BY <4>1, <4>3 DEF Missing
      <4> QED BY <1>10, <2>4, <4>2, <4>4
    <3> QED BY <2>3, <3>1 DEF Lossless
  <2>7. ClientInv(x, session) BY <1>9, <2>1, <2>2, <2>5, <2>6 DEF ClientInv
  <2> QED BY <1>2, <2>7
<1>13. client \in [Clients -> ClientType] BY <1>2, <1>3, <1>9
<1>14. /\ conn \in [Connections -> ConnectionType]
       /\ \A k \in Connections : conn[k].open = FALSE /\ conn[k].session = None
  <2> DEFINE n == [state |-> "new", open |-> FALSE, closing |-> FALSE, session |-> None]
  <2>1. n \in ConnectionType /\ n.open = FALSE /\ n.session = None BY DEF ConnectionType
  <2>2. conn = [k \in Connections |-> n] BY DEF Init
  <2> HIDE DEF n
  <2> QED BY <2>1, <2>2
<1>15. Active = {} BY <1>10 DEF Active
<1>16. OutputAgrees
  <2>1. ASSUME NEW s \in Sessions PROVE OutputOf(s)
    <3>1. \A c \in Clients : s \notin client[c].outputs BY <1>2, <1>9
    <3>2. \A k \in Connections : conn[k].session # s BY <1>14, NoneIsNothing
    <3> QED BY <1>10, <3>1, <3>2, NoneIsNothing DEF OutputOf
  <2> QED BY <1>14, <2>1, Agreement
<1>17. closed \in BOOLEAN /\ limit \in Limits BY DEF Init
<1>18. \A s \in Sessions : session[s].seq <= limit.frames
  <2>1. limit.frames \in 0..MaxSeq BY <1>17
  <2> QED BY <1>10, <2>1
<1>19. BusInv
  <2>1. IsFiniteSet(Active) BY <1>15, FS_EmptySet
  <2> QED BY <1>10, <1>11, <1>14, <1>16, <1>17, <1>18, <2>1 DEF BusInv, SessionsType
<1> QED BY <1>12, <1>13, <1>19 DEF IInv

LEMMA NextSound ==
  ASSUME IInv, [Next]_vars
  PROVE  IInv'
<1>1. CASE UNCHANGED vars
  <2>1. UNCHANGED <<conn, session, client, closed, limit>> BY <1>1 DEF vars
  <2> QED BY <2>1 DEF IInv, BusInv, OutputAgrees, Active
<1>2. ASSUME NEW k \in Connections,
             \/ Connect(k) \/ PushInput(k) \/ HandleEnd(k)
             \/ ServerCloses(k) \/ Disconnects(k) \/ OnClose(k)
      PROVE  IInv'
  <2>1. CASE Connect(k) BY <2>1, ConnectKeeps
  <2>2. CASE PushInput(k) BY <2>2, PushInputKeeps
  <2>3. CASE HandleEnd(k) BY <2>3, HandleEndKeeps DEF HandleEnd
  <2>4. CASE ServerCloses(k) BY <2>4, ServerClosesKeeps
  <2>5. CASE Disconnects(k) BY <2>5, DisconnectsKeeps
  <2>6. CASE OnClose(k) BY <2>6, OnCloseKeeps
  <2> QED BY <1>2, <2>1, <2>2, <2>3, <2>4, <2>5, <2>6
<1>3. ASSUME NEW k \in Connections, NEW s \in Sessions, HandleStart(k, s) PROVE IInv'
  BY <1>3, HandleStartKeeps
<1>4. ASSUME NEW s \in Sessions, Sweep(s) PROVE IInv'
  BY <1>4, HandleEndKeeps DEF Sweep
<1>5. CASE Shutdown BY <1>5, ShutdownKeeps
<1>6. ASSUME NEW c \in Clients, CreateClient(c) \/ Close(c) \/ Drain(c) \/ HandlerSettled(c)
      PROVE  IInv'
  BY <1>6, CreateKeeps, CloseKeeps, DrainKeeps, SettledKeeps
<1>7. ASSUME NEW c \in Clients, NEW kind \in limit.kinds, Subscribe(c, kind) \/ Unsubscribe(c, kind)
      PROVE  IInv'
  BY <1>7, SubscribeKeeps, UnsubscribeKeeps
<1>8. ASSUME NEW c \in Clients, NEW s \in Sessions, StartOutput(c, s) \/ EndOutput(c, s)
      PROVE  IInv'
  BY <1>8, StartOutputKeeps, EndOutputKeeps
<1>9. CASE Server BY <1>2, <1>3, <1>4, <1>5, <1>9 DEF Server
<1>10. CASE Plugin BY <1>6, <1>7, <1>8, <1>10 DEF Plugin
<1> QED BY <1>1, <1>9, <1>10 DEF Next

LEMMA Invariance == Spec => []IInv
<1>1. Init => IInv BY InitSound
<1>2. IInv /\ [Next]_vars => IInv' BY NextSound
<1> QED BY <1>1, <1>2, PTL DEF Spec

-----------------------------------------------------------------------------
(* The types, and the counters of the queues: what enqueue and drain count  *)
(* is what the queue holds, and neither kind of event exceeds its limit.   *)
THEOREM TypesHold == Spec => []TypeOK
<1>1. IInv => TypeOK BY DEF IInv, BusInv, ClientInv, TypeOK
<1> QED BY <1>1, Invariance, PTL

(* For a plugin that subscribes to the frames from its creation on, enqueue *)
(* counts every frame it does not get, however the queue runs over: in      *)
(* droppedBefore of the next frame or in its gap counter.  Only what Forget *)
(* deletes as a session ends, the drops after the last frame, is never told.*)
THEOREM LossesCounted == Spec => []OnlyTailSilent
<1>1. ASSUME IInv, NEW c \in Clients, NEW s \in Sessions,
             client[c].whole, client[c].state = "open"
      PROVE  Gapless(client[c], s)
  <2> DEFINE x == client[c]
  <2>1. x \in ClientType /\ Lossless(x, session) BY <1>1 DEF IInv, ClientInv
  <2>2. Listening(x) BY <1>1 DEF Listening
  <2> HIDE DEF x
  <2>3. Followed(x, s) /\ Missing(x, s, session[s].seq) BY <2>1, <2>2 DEF Lossless
  <2>4. x.forgotten[s] # 0 => session[s].status = "ended" BY <2>1 DEF Lossless
  <2>5. \A j \in Frames(x, s) \cup {0} :
          Number(x, s, j) + Untold(x, s) = Number(x, s, j) + x.gaps[s] + x.forgotten[s]
    BY <2>1, FrameFacts, QueueFacts DEF Untold
  <2>6. Gapless(x, s) BY <2>3, <2>4, <2>5 DEF Gapless, Followed, Missing
  <2> QED BY <2>6 DEF x
<1>2. IInv => OnlyTailSilent BY <1>1 DEF OnlyTailSilent
<1> QED BY <1>2, Invariance, PTL

(* One event at a time, the next after its handler returned, those of a    *)
(* session in their order: drain's loop is never started twice.            *)
THEOREM EventsInOrder == Spec => []EventOrder
<1>1. ASSUME IInv, NEW c \in Clients
      PROVE  /\ client[c].running <= 1
             /\ \A i \in DOMAIN client[c].queue :
                  LET q == client[c].queue
                      h == client[c].heard[q[i].session]
                  IN /\ ~h.ended
                     /\ q[i].kind = "started" => ~h.started /\ h.last = 0
                     /\ \A j \in 1..(i - 1) :
                          q[j].session = q[i].session =>
                            /\ q[j].kind # "ended" /\ q[i].kind # "started"
                            /\ q[j].seq <= q[i].seq
  <2>1. Ready(client[c]) /\ InOrder(client[c], session) BY <1>1 DEF IInv, ClientInv
  <2>2. client[c].running \in Nat /\ client[c].scheduled \in Nat
    <3>1. client[c] \in ClientType BY <1>1 DEF IInv
    <3> QED BY <3>1 DEF ClientType
  <2>3. client[c].running <= 1 BY <2>1, <2>2 DEF Ready
  <2> QED BY <2>1, <2>3 DEF InOrder
<1>2. IInv => EventOrder BY <1>1 DEF EventOrder
<1> QED BY <1>2, Invariance, PTL

(* Bus, server and plugins agree on who speaks into which session, however  *)
(* the ends of sessions, connections, streams and plugins come together.   *)
THEOREM PartiesAgree == Spec => []OutputAgrees
<1>1. IInv => OutputAgrees BY DEF IInv, BusInv
<1> QED BY <1>1, Invariance, PTL
=============================================================================
