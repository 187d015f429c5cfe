------------------------ MODULE LoadManagement_proofs ------------------------
EXTENDS LoadManagement, WellFoundedInduction, TLAPS
LOCAL INSTANCE FiniteSetsExt

(***************************************************************************)
(* Proofs about the two controllers, the stages of the load shed and the   *)
(* level they share.  A pass of a controller is followed step by step      *)
(* through its work record: `Lawful` is what every step of a pass over an  *)
(* actor keeps, `Passes` the type every step of a pass over the pool keeps *)
(* and `Rid` what its last step adds.  A stage moves by UpdateStage only   *)
(* (StageMoves), and only in a pass.                                       *)
(*                                                                         *)
(* The greatest and the least element of a set of priorities, and the      *)
(* doubling pauses, come from the well-foundedness of the naturals: a      *)
(* non-empty set of naturals has a least element (Least), so a table of    *)
(* Backoff up to n exists for every n (DoublesExist), and all agree.       *)
(***************************************************************************)

\* A non-empty set of naturals has a least element.
LEMMA Least ==
  ASSUME NEW T, T \subseteq Nat, T # {}
  PROVE  \E x \in T : \A y \in T : x <= y
<1> DEFINE R == OpToRel(<,Nat)
<1>1. IsWellFoundedOn(R, Nat)
  BY NatLessThanWellFounded, Zenon
<1>2. \E x \in T : \A y \in T : ~ (<<y, x>> \in R)
  <2> HIDE DEF R
  <2> QED BY <1>1, WFMin, Zenon
<1>3. \A a, b \in Nat : a < b => <<a,b>> \in R
  BY DEF OpToRel
<1> HIDE DEF R
<1>4. PICK x \in T : \A y \in T : ~ (<<y, x>> \in R)
  BY <1>2
<1>5. ASSUME NEW y \in T PROVE x <= y
  <2>1. y \in Nat /\ x \in Nat
    OBVIOUS
  <2>2. ~(y < x)
    BY <1>4, <1>3, <2>1, Zenon
  <2> QED BY <2>1, <2>2
<1> QED BY <1>5, Zenon

\* Max and Min of FiniteSetsExt do what they are named for.
LEMMA Maximum ==
  ASSUME NEW S, NEW n \in Nat, S \subseteq 0..n, S # {}
  PROVE  Max(S) \in S /\ \A y \in S : y <= Max(S)
<1> DEFINE U == {m \in Nat : \A y \in S : y <= m}
<1>1. n \in U OBVIOUS
<1>2. PICK m \in U : \A k \in U : m <= k
  <2>1. U \subseteq Nat /\ U # {} BY <1>1
  <2> HIDE DEF U
  <2> QED BY <2>1, Least, Zenon
<1>3. m \in S
  <2> SUFFICES ASSUME m \notin S PROVE FALSE OBVIOUS
  <2>1. PICK y \in S : TRUE OBVIOUS
  <2>2. m # 0
    <3>1. m \in Nat /\ y \in Nat /\ y <= m BY <2>1
    <3> QED BY <3>1
  <2>3. m - 1 \in U
    <3>1. ASSUME NEW z \in S PROVE z <= m - 1 BY <2>2
    <3> QED BY <2>2, <3>1
  <2> QED BY <2>3, <1>2
<1>4. Max(S) \in S /\ \A y \in S : Max(S) >= y
  <2>1. \A y \in S : m >= y OBVIOUS
  <2> QED BY <1>3, <2>1, Zenon DEF Max
<1> QED BY <1>4

LEMMA Minimum ==
  ASSUME NEW S, S \subseteq Nat, S # {}
  PROVE  Min(S) \in S /\ \A y \in S : Min(S) <= y
BY Least, Zenon DEF Min

USE ActorsAssumption DEF ActorsAssumption

\* f doubles from RetryBase on, up to its n-th value.
Doubles(f, n) == f[0] = RetryBase /\ \A i \in 0..n : f[i] \in Nat /\ (i > 0 => f[i] = 2 * f[i - 1])

LEMMA DoublesAgree ==
  ASSUME NEW n \in Nat, NEW f, NEW g, Doubles(f, n), Doubles(g, n)
  PROVE  \A i \in 0..n : f[i] = g[i]
<1> DEFINE T == {i \in 0..n : f[i] # g[i]}
<1> SUFFICES ASSUME T # {} PROVE FALSE
  OBVIOUS
<1>1. PICK x \in T : \A y \in T : x <= y
  <2>1. T \subseteq Nat OBVIOUS
  <2> HIDE DEF T
  <2> QED BY <2>1, Least, Zenon
<1>2. x # 0 BY DEF Doubles
<1>3. x - 1 \in 0..n /\ x - 1 \notin T BY <1>1, <1>2
<1>4. f[x - 1] = g[x - 1] BY <1>3
<1> QED BY <1>2, <1>4 DEF Doubles

LEMMA DoublesExist == \A n \in Nat : \E f \in [0..n -> Nat] : Doubles(f, n)
<1> DEFINE T == {n \in Nat : ~ \E f \in [0..n -> Nat] : Doubles(f, n)}
<1> SUFFICES ASSUME T # {} PROVE FALSE
  OBVIOUS
<1>1. PICK n \in T : \A y \in T : n <= y
  <2>1. T \subseteq Nat OBVIOUS
  <2> HIDE DEF T
  <2> QED BY <2>1, Least, Zenon
<1>2. n # 0
  <2> SUFFICES ASSUME n = 0 PROVE FALSE OBVIOUS
  <2> DEFINE f == [i \in 0..0 |-> RetryBase]
  <2>1. f \in [0..0 -> Nat] /\ Doubles(f, 0) BY DEF Doubles
  <2> QED BY <2>1
<1>3. PICK f \in [0..n-1 -> Nat] : Doubles(f, n - 1)
  <2>1. n - 1 \in Nat /\ ~(n <= n - 1) BY <1>2
  <2>2. n - 1 \notin T BY <1>1, <2>1, Zenon
  <2> QED BY <2>1, <2>2
<1> DEFINE g == [i \in 0..n |-> IF i = n THEN 2 * f[n - 1] ELSE f[i]]
<1>4. g \in [0..n -> Nat] BY <1>2
<1>5. Doubles(g, n)
  <2>1. g[0] = RetryBase BY <1>2, <1>3 DEF Doubles
  <2>2. ASSUME NEW i \in 0..n, i > 0 PROVE g[i] = 2 * g[i - 1] 
    BY <1>2, <1>3, <2>2 DEF Doubles
  <2> QED BY <2>1, <2>2, <1>4 DEF Doubles
<1> QED BY <1>4, <1>5

LEMMA BackoffDoubles == Backoff = [n \in Nat |-> IF n = 0 THEN RetryBase ELSE 2 * Backoff[n - 1]]
<1> DEFINE Def(g) == [n \in Nat |-> IF n = 0 THEN RetryBase ELSE 2 * g[n - 1]]
           F(n) == CHOOSE f \in [0..n -> Nat] : Doubles(f, n)
           h == [n \in Nat |-> F(n)[n]]
<1>1. \A n \in Nat : Doubles(F(n), n)
  BY DoublesExist, Zenon
<1> HIDE DEF F
<1>2. ASSUME NEW n \in Nat \ {0} PROVE h[n] = 2 * h[n - 1]
  <2>1. F(n)[n] = 2 * F(n)[n - 1] BY <1>1 DEF Doubles
  <2>2. Doubles(F(n), n - 1) BY <1>1 DEF Doubles
  <2>3. F(n)[n - 1] = F(n - 1)[n - 1]
    <3>1. n - 1 \in Nat /\ Doubles(F(n - 1), n - 1) /\ n - 1 \in 0..n-1 BY <1>1
    <3> DEFINE f == F(n)
               g == F(n - 1)
               m == n - 1
    <3>2. Doubles(f, m) /\ Doubles(g, m) /\ m \in Nat /\ m \in 0..m BY <2>2, <3>1
    <3> HIDE DEF f, g, m
    <3>3. f[m] = g[m] BY <3>2, DoublesAgree
    <3> QED BY <3>3 DEF f, g, m
  <2> QED BY <2>1, <2>3
<1>3. h[0] = RetryBase BY <1>1 DEF Doubles
<1>4. h = Def(h) 
  <2>1. h = [n \in Nat |-> h[n]] OBVIOUS
  <2>2. \A n \in Nat : h[n] = IF n = 0 THEN RetryBase ELSE 2 * h[n - 1] 
    BY <1>2, <1>3
  <2> HIDE DEF h
  <2> QED BY <2>1, <2>2
<1> HIDE DEF h
<1>5. Backoff = CHOOSE g : g = Def(g)
  BY Zenon DEF Backoff
<1>6. (CHOOSE g : g = Def(g)) = Def(CHOOSE g : g = Def(g)) 
  BY <1>4, Zenon
<1> QED BY <1>5, <1>6, Zenon

LEMMA BackoffNat == \A n \in Nat : Backoff[n] \in Nat
<1> DEFINE T == {n \in Nat : Backoff[n] \notin Nat}
<1> SUFFICES ASSUME T # {} PROVE FALSE
  OBVIOUS
<1>1. PICK n \in T : \A y \in T : n <= y
  <2>1. T \subseteq Nat OBVIOUS
  <2> HIDE DEF T
  <2> QED BY <2>1, Least, Zenon
<1>2. Backoff[n] = IF n = 0 THEN RetryBase ELSE 2 * Backoff[n - 1]
  <2> DEFINE B == Backoff
  <2>1. B = [m \in Nat |-> IF m = 0 THEN RetryBase ELSE 2 * B[m - 1]]  BY BackoffDoubles
  <2> HIDE DEF B
  <2>2. B[n] = IF n = 0 THEN RetryBase ELSE 2 * B[n - 1] BY <2>1, Zenon
  <2> QED BY <2>2 DEF B
<1>3. n # 0 BY <1>2
<1>4. n - 1 \in Nat /\ n - 1 \notin T BY <1>1, <1>3
<1> QED BY <1>2, <1>3, <1>4
HIDE ActorsAssumption DEF ActorsAssumption

-----------------------------------------------------------------------------
\* The stages of the load shed.
Stage == [cutoff : Priorities \cup {NoCutoff}, escalate : 0..Settle, recover : 0..Recover]

LEMMA Shedding ==
  /\ Priorities \subseteq 1..MaxLevel /\ MaxLevel \in Nat /\ NoCutoff \notin Priorities
  /\ Settle \in Nat /\ Recover \in Nat
BY ShedAssumption, ManagementAssumption, LevelAssumption
   DEF ShedAssumption, ManagementAssumption, LevelAssumption, Levels

LEMMA Lower ==
  ASSUME NEW S, S \subseteq Priorities, NEW cutoff \in Priorities \cup {NoCutoff}
  PROVE  LET next == NextEscalationCutoff(cutoff, S) IN
         /\ next \in Priorities \cup {NoCutoff}
         /\ next # cutoff => /\ next \in S
                             /\ cutoff # NoCutoff => next < cutoff
                             /\ \A q \in S : cutoff = NoCutoff \/ q < cutoff => q <= next
<1> DEFINE lower == IF cutoff = NoCutoff THEN S ELSE {q \in S : q < cutoff}
<1>1. lower \subseteq 0..MaxLevel /\ MaxLevel \in Nat
  <2>1. \A x \in lower : x \in 1..MaxLevel BY Shedding
  <2>2. MaxLevel \in Nat BY Shedding
  <2> HIDE DEF lower
  <2> QED BY <2>1, <2>2
<1>2. CASE lower # {}
  <2>1. Max(lower) \in lower /\ \A y \in lower : y <= Max(lower)
    <3> HIDE DEF lower
    <3> QED BY <1>1, <1>2, Maximum
  <2>2. NextEscalationCutoff(cutoff, S) = Max(lower)
    BY <1>2 DEF NextEscalationCutoff
  <2> QED BY <2>1, <2>2
<1>3. CASE lower = {}
  BY <1>3 DEF NextEscalationCutoff
<1> QED BY <1>2, <1>3

LEMMA Higher ==
  ASSUME NEW S, S \subseteq Priorities, NEW cutoff \in Priorities \cup {NoCutoff}
  PROVE  NextRecoveryCutoff(cutoff, S) \in Priorities \cup {NoCutoff}
<1> DEFINE higher == {q \in S : q > cutoff}
<1>1. CASE cutoff \in S /\ higher # {}
  <2>1. higher \subseteq Nat
    <3>1. \A x \in higher : x \in 1..MaxLevel BY Shedding
    <3>2. MaxLevel \in Nat BY Shedding
    <3> HIDE DEF higher
    <3> QED BY <3>1, <3>2
  <2>2. Min(higher) \in higher
    <3> HIDE DEF higher
    <3> QED BY <1>1, <2>1, Minimum
  <2>3. NextRecoveryCutoff(cutoff, S) = Min(higher)
    BY <1>1 DEF NextRecoveryCutoff
  <2> QED BY <2>2, <2>3
<1>2. CASE cutoff \notin S \/ higher = {}
  BY <1>2 DEF NextRecoveryCutoff
<1> QED BY <1>1, <1>2

\* What one update does to a stage.
LEMMA StageMoves ==
  ASSUME NEW s \in Stage, NEW l \in Loads, NEW S, S \subseteq Priorities,
         NEW t, t = UpdateStage(s, l, S)
  PROVE  /\ t \in Stage
         /\ S # {} /\ s.cutoff # NoCutoff /\ (t.cutoff = NoCutoff \/ t.cutoff > s.cutoff)
              => l = "low" /\ s.recover = 0
         /\ t.cutoff # NoCutoff /\ (s.cutoff = NoCutoff \/ t.cutoff < s.cutoff)
              => /\ l = "over" /\ s.escalate = 0 /\ t.cutoff \in S
                 /\ \A q \in S : s.cutoff = NoCutoff \/ q < s.cutoff => q <= t.cutoff
<1> DEFINE down == NextEscalationCutoff(s.cutoff, S)
           up == NextRecoveryCutoff(s.cutoff, S)
<1>1. /\ s.cutoff \in Priorities \cup {NoCutoff} /\ s.escalate \in 0..Settle
      /\ s.recover \in 0..Recover
  BY DEF Stage
<1>2. /\ down \in Priorities \cup {NoCutoff}
      /\ down # s.cutoff => /\ down \in S
                            /\ s.cutoff # NoCutoff => down < s.cutoff
                            /\ \A q \in S : s.cutoff = NoCutoff \/ q < s.cutoff => q <= down
  BY <1>1, Lower
<1>3. up \in Priorities \cup {NoCutoff} BY <1>1, Higher
<1>4. /\ Settle \in Nat /\ Recover \in Nat /\ NoCutoff \notin Priorities
      /\ \A q \in Priorities : q \in Nat
  BY Shedding
<1>5. CASE S = {}
  <2>1. t = Cleared BY <1>5 DEF UpdateStage
  <2> QED BY <1>4, <1>5, <2>1 DEF Cleared, Stage
<1>6. CASE S # {} /\ l = "over" /\ down # s.cutoff /\ s.escalate = 0
  <2>1. t = [cutoff |-> down, escalate |-> Settle, recover |-> Recover]
    BY <1>6 DEF UpdateStage
  <2> HIDE DEF down
  <2>2. t \in Stage /\ t.cutoff = down BY <2>1, <1>2, <1>4 DEF Stage
  <2>3. s.cutoff # NoCutoff => down < s.cutoff /\ down \in Priorities /\ s.cutoff \in Priorities
    BY <1>1, <1>2, <1>6
  <2> QED BY <1>1, <1>2, <1>4, <1>6, <2>2, <2>3
<1>7. CASE S # {} /\ l = "low" /\ s.cutoff # NoCutoff /\ s.recover = 0
  <2>1. t = [cutoff |-> up, escalate |-> Settle, recover |-> Recover]
    BY <1>7 DEF UpdateStage
  <2>2. up = NoCutoff \/ (up \in Priorities /\ up > s.cutoff)
    <3>1. CASE s.cutoff \in S /\ {q \in S : q > s.cutoff} # {}
      <4> DEFINE higher == {q \in S : q > s.cutoff}
      <4>1. higher \subseteq Nat
        <5>1. \A x \in higher : x \in Nat BY <1>4
        <5> QED BY <5>1
      <4>2. Min(higher) \in higher
        <5> HIDE DEF higher
        <5> QED BY <3>1, <4>1, Minimum DEF higher
      <4>3. up = Min(higher) BY <3>1 DEF NextRecoveryCutoff
      <4> QED BY <4>2, <4>3
    <3>2. CASE ~(s.cutoff \in S /\ {q \in S : q > s.cutoff} # {})
      BY <3>2 DEF NextRecoveryCutoff
    <3> QED BY <3>1, <3>2
  <2> HIDE DEF up
  <2>3. t \in Stage /\ t.cutoff = up BY <2>1, <1>3, <1>4 DEF Stage
  <2>4. ~(t.cutoff # NoCutoff /\ (s.cutoff = NoCutoff \/ t.cutoff < s.cutoff))
    BY <1>1, <1>4, <1>7, <2>2, <2>3
  <2> QED BY <1>7, <2>3, <2>4
<1>8. CASE /\ S # {} /\ ~(l = "over" /\ down # s.cutoff /\ s.escalate = 0)
           /\ ~(l = "low" /\ s.cutoff # NoCutoff /\ s.recover = 0)
  <2>1. t = s BY <1>8 DEF UpdateStage, Loads
  <2>2. s.cutoff # NoCutoff => ~(s.cutoff > s.cutoff) /\ ~(s.cutoff < s.cutoff)
    BY <1>1, <1>4
  <2> QED BY <1>1, <2>1, <2>2
<1> QED BY <1>5, <1>6, <1>7, <1>8

-----------------------------------------------------------------------------
\* The actors.
Maybe == Commands \cup {None}
Unit == [output : Maybe, loadShedOff : BOOLEAN, remoteSeen : Maybe,
         pendingSwitch : Pending, pendingRemote : Pending]
Works == [unit : Unit, switch : Maybe, remote : Maybe]

LEMMA Waiting ==
  ASSUME NEW pending \in Pending, NEW command \in Maybe
  PROVE  NextPending(pending, command) \in Pending
<1>1. RetryMax \in Nat /\ MaxAttempt \in Nat BY ActorsAssumption DEF ActorsAssumption
<1>2. pending.attempt \in 0..MaxAttempt BY DEF Pending
<1> DEFINE next == Min({pending.attempt + 1, MaxAttempt})
           attempt == IF pending.command = command THEN next ELSE 0
<1>3. next \in 0..MaxAttempt
  <2> DEFINE S == {pending.attempt + 1, MaxAttempt}
  <2>1. S \subseteq Nat /\ S # {} /\ MaxAttempt \in S BY <1>1, <1>2
  <2>2. Min(S) \in S /\ \A y \in S : Min(S) <= y
    <3> HIDE DEF S
    <3> QED BY <2>1, Minimum
  <2> QED BY <1>1, <2>1, <2>2
<1>4. attempt \in 0..MaxAttempt
  <2> HIDE DEF next
  <2> QED BY <1>1, <1>3
<1> HIDE DEF attempt
<1> DEFINE wait == Min({RetryMax, Backoff[attempt]})
<1>5. wait \in 0..RetryMax
  <2> DEFINE S == {RetryMax, Backoff[attempt]}
  <2>1. S \subseteq Nat /\ S # {} /\ RetryMax \in S BY <1>1, <1>4, BackoffNat
  <2>2. Min(S) \in S /\ \A y \in S : Min(S) <= y
    <3> HIDE DEF S
    <3> QED BY <2>1, Minimum
  <2> QED BY <1>1, <2>1, <2>2
<1> HIDE DEF wait
<1>6. [command |-> command, attempt |-> attempt, wait |-> wait] \in Pending
  BY <1>4, <1>5 DEF Pending, Maybe
<1> QED BY <1>6, Zenon DEF NextPending, attempt, wait, next

LEMMA NoneWaits == NoPending \in Pending
BY ActorsAssumption DEF NoPending, Pending, ActorsAssumption

LEMMA LessWaits ==
  ASSUME NEW pending \in Pending
  PROVE  Lesser(pending) \in Pending
BY ActorsAssumption DEF Lesser, Less, Pending, ActorsAssumption

LEMMA Configured ==
  ASSUME NEW a \in ActorNames
  PROVE  /\ ActorType[a].phases \subseteq Phases /\ ActorType[a].priority \in Priorities
         /\ ActorType[a].alwaysOn \in BOOLEAN /\ ActorType[a].remote \in BOOLEAN
         /\ ActorType[a].sheds \in BOOLEAN
BY ActorsAssumption DEF ActorsAssumption

LEMMA WorkBegins ==
  ASSUME TypeOK, NEW a \in ActorNames
  PROVE  /\ unit[a] \in Unit /\ Work(a) \in Works
         /\ actual[a] \in Maybe /\ remote[a] \in Maybe /\ a \in Units
<1>1. unit[a] \in Unit /\ remote[a] \in Maybe
  BY DEF TypeOK, ActorsTypeOK, Unit, Maybe
<1>2. a \in Units BY ManagementAssumption DEF ManagementAssumption
<1>3. actual[a] \in Maybe BY <1>2 DEF TypeOK, OutletsTypeOK, Maybe
<1>4. Work(a) \in Works BY <1>1 DEF Work, Works, Maybe
<1> QED BY <1>1, <1>2, <1>3, <1>4

LEMMA RemoteSent ==
  ASSUME NEW a \in ActorNames, NEW w \in Works, NEW c \in Commands,
         NEW v, v = SendRemote(a, w, c)
  PROVE  /\ v \in Works /\ v.switch = w.switch
         /\ v.unit.output = w.unit.output /\ v.unit.loadShedOff = w.unit.loadShedOff
         /\ v.unit.pendingSwitch = w.unit.pendingSwitch
<1> DEFINE x == NextPending(w.unit.pendingRemote, c)
<1>1. x \in Pending /\ c \in Maybe BY Waiting DEF Works, Unit, Maybe
<1>2. v = w \/ v = [w EXCEPT !.unit.pendingRemote = x, !.remote = c] BY DEF SendRemote
<1> HIDE DEF x
<1>3. CASE v = [w EXCEPT !.unit.pendingRemote = x, !.remote = c]
  BY <1>1, <1>3 DEF Works, Unit
<1> QED BY <1>2, <1>3

LEMMA SwitchSent ==
  ASSUME NEW a \in ActorNames, NEW w \in Works, NEW c \in Commands,
         NEW v, v = SendSwitch(a, w, c)
  PROVE  /\ v \in Works
         /\ v.unit.output = w.unit.output /\ v.unit.loadShedOff = w.unit.loadShedOff
         /\ v.switch = c \/ (v.switch = w.switch /\ IsPending(v.unit.pendingSwitch, c))
<1> DEFINE x == NextPending(w.unit.pendingSwitch, c)
           y == [w EXCEPT !.unit.pendingSwitch = x, !.switch = c]
<1>1. x \in Pending /\ c \in Maybe BY Waiting DEF Works, Unit, Maybe
<1>2. (v = w /\ IsPending(w.unit.pendingSwitch, c)) \/ v = SendRemote(a, y, c)
  BY DEF SendSwitch
<1> HIDE DEF x
<1>3. /\ y \in Works /\ y.switch = c
      /\ y.unit.output = w.unit.output /\ y.unit.loadShedOff = w.unit.loadShedOff
  BY <1>1 DEF Works, Unit
<1> HIDE DEF y
<1>4. CASE v = SendRemote(a, y, c) BY <1>3, <1>4, RemoteSent
<1> QED BY <1>2, <1>4

LEMMA Became ==
  ASSUME NEW w \in Works, NEW c \in Maybe, NEW b \in BOOLEAN, NEW v, v = Becomes(w, c, b)
  PROVE  /\ v \in Works /\ v.unit.output = c /\ v.unit.loadShedOff = b
         /\ v.switch = w.switch /\ v.unit.pendingSwitch = w.unit.pendingSwitch
BY DEF Works, Unit, Becomes

LEMMA Freed ==
  ASSUME NEW w \in Works, NEW c \in Maybe, NEW v, v = Becomes(w, c, FALSE)
  PROVE  v \in Works /\ ~v.unit.loadShedOff
BY DEF Works, Unit, Becomes

\* What one pass may make of an actor: it is off because of the load only where the
\* load is shed, and what must not run is told so and not told to go on.
Told(w, command) == w.switch = command \/ IsPending(w.unit.pendingSwitch, command)

Lawful(a, w, barred) ==
  /\ w \in Works
  /\ w.unit.loadShedOff => ActorType[a].sheds
  /\ barred => w.switch # "on"

LEMMA ReadLawful ==
  ASSUME TypeOK, NEW a \in ActorNames, unit[a].loadShedOff => ActorType[a].sheds,
         NEW b \in BOOLEAN, NEW barred
  PROVE  Lawful(a, ReadUnit(a, b), barred)
<1> DEFINE u == unit[a]
           seen == IF RemoteChanged(a) THEN remote[a] ELSE u.remoteSeen
           ps == IF actual[a] = None THEN u.pendingSwitch ELSE Confirm(u.pendingSwitch, actual[a])
           pr == IF remote[a] = None THEN u.pendingRemote ELSE Confirm(u.pendingRemote, remote[a])
           off == u.loadShedOff /\ b /\ ActorType[a].sheds
<1>1. Work(a) \in Works /\ Work(a).unit = u /\ u \in Unit /\ Work(a).switch = None
  BY WorkBegins DEF Work
<1>2. seen \in Maybe BY <1>1, WorkBegins DEF Unit
<1>3. ps \in Pending /\ pr \in Pending
  BY <1>1, NoneWaits DEF Unit, Confirm
<1>4. off \in BOOLEAN /\ (off => ActorType[a].sheds) OBVIOUS
<1>5. ReadUnit(a, b) = [Work(a) EXCEPT !.unit.remoteSeen = seen, !.unit.pendingSwitch = ps,
                                       !.unit.pendingRemote = pr, !.unit.loadShedOff = off]
  BY <1>1 DEF ReadUnit
<1>6. None # "on" BY OutletsAssumption DEF OutletsAssumption, Commands
<1> HIDE DEF seen, ps, pr, off, u
<1>7. Work(a).unit \in Unit BY <1>1
<1> DEFINE r == [Work(a) EXCEPT !.unit.remoteSeen = seen, !.unit.pendingSwitch = ps,
                                !.unit.pendingRemote = pr, !.unit.loadShedOff = off]
<1>8. r \in Works /\ r.unit.loadShedOff = off /\ r.switch = None
  BY <1>1, <1>2, <1>3, <1>4, <1>7 DEF Works, Unit
<1> HIDE DEF r
<1> QED BY <1>4, <1>5, <1>6, <1>8 DEF Lawful, r

LEMMA BecomesLawful ==
  ASSUME NEW a \in ActorNames, NEW w \in Works, NEW c \in Maybe, NEW b \in BOOLEAN,
         b => ActorType[a].sheds, NEW barred, barred => w.switch # "on",
         NEW v, v = Becomes(w, c, b)
  PROVE  Lawful(a, v, barred)
BY Became DEF Lawful

LEMMA FollowLawful ==
  ASSUME TypeOK, NEW a \in ActorNames, NEW barred, NEW w, Lawful(a, w, barred),
         NEW shed \in BOOLEAN, shed => ActorType[a].sheds,
         barred => ~IsAllowed(ActorType[a].priority) \/ shed
  PROVE  Lawful(a, FollowRemote(a, w, shed), barred)
<1> DEFINE v == FollowRemote(a, w, shed)
           off == SendSwitch(a, w, "off")
           told == SendSwitch(a, w, remote[a])
<1>1. CASE ~RemoteChanged(a) BY <1>1 DEF FollowRemote
<1>2. ASSUME RemoteChanged(a) PROVE remote[a] \in Commands /\ remote[a] \in Maybe
  BY <1>2, WorkBegins DEF RemoteChanged, Maybe
<1>3. w \in Works /\ w.unit.loadShedOff \in BOOLEAN BY DEF Lawful, Works, Unit
<1>4. "off" \in Commands /\ "off" \in Maybe /\ "off" # "on" BY DEF Commands, Maybe
<1>5. CASE /\ RemoteChanged(a)
           /\ remote[a] = "on" /\ (~IsAllowed(ActorType[a].priority) \/ shed)
  <2>1. v = Becomes(off, "off", shed) BY <1>5 DEF FollowRemote
  <2>2. off \in Works /\ (off.switch = "off" \/ off.switch = w.switch)
    BY <1>3, <1>4, SwitchSent
  <2> HIDE DEF off, v
  <2>3. barred => off.switch # "on" BY <1>4, <2>2 DEF Lawful
  <2>4. Lawful(a, v, barred) BY <1>4, <2>1, <2>2, <2>3, BecomesLawful
  <2> QED BY <2>4 DEF v
<1>6. CASE /\ RemoteChanged(a)
           /\ ~(remote[a] = "on" /\ (~IsAllowed(ActorType[a].priority) \/ shed))
  <2>1. v = Becomes(told, remote[a], w.unit.loadShedOff) BY <1>6 DEF FollowRemote
  <2>2. told \in Works /\ (told.switch = remote[a] \/ told.switch = w.switch)
    BY <1>2, <1>3, <1>6, SwitchSent
  <2> HIDE DEF told, v
  <2>3. barred => remote[a] # "on" BY <1>6
  <2>4. barred => told.switch # "on" BY <2>2, <2>3 DEF Lawful
  <2>5. w.unit.loadShedOff => ActorType[a].sheds BY DEF Lawful
  <2>6. Lawful(a, v, barred) BY <1>2, <1>3, <1>6, <2>1, <2>2, <2>4, <2>5, BecomesLawful
  <2> QED BY <2>6 DEF v
<1> QED BY <1>1, <1>5, <1>6

LEMMA ObeyLawful ==
  ASSUME TypeOK, NEW a \in ActorNames, NEW barred \in BOOLEAN, NEW w, Lawful(a, w, barred),
         NEW shed \in BOOLEAN, shed => ActorType[a].sheds,
         barred <=> ~IsAllowed(ActorType[a].priority) \/ shed,
         NEW v, v = Obey(a, w, shed)
  PROVE  /\ Lawful(a, v, barred)
         /\ barred => v.unit.output = "off" /\ (actual[a] = "on" => Told(v, "off"))
<1>1. w \in Works /\ w.unit.output \in Maybe BY DEF Lawful, Works, Unit
<1>2. {"on", "off"} \subseteq Commands /\ {"on", "off"} \subseteq Maybe /\ "off" # "on"
  BY DEF Commands, Maybe
<1>3. CASE barred
  <2> DEFINE running == actual[a] = "on" \/ (actual[a] = None /\ w.unit.output # "off")
             x == IF running THEN SendSwitch(a, w, "off") ELSE w
             b == shed /\ IsAllowed(ActorType[a].priority)
  <2>1. v = SwitchOff(a, w, b) BY <1>3 DEF Obey
  <2>2. v = Becomes(x, "off", b) BY <2>1 DEF SwitchOff
  <2>3. b \in BOOLEAN /\ (b => ActorType[a].sheds) BY DEF IsAllowed
  <2>4. x \in Works /\ x.switch # "on" /\ (actual[a] = "on" => Told(x, "off"))
    <3>1. CASE running
      <4>1. x = SendSwitch(a, w, "off") BY <3>1
      <4> HIDE DEF x
      <4>2. /\ x \in Works
            /\ x.switch = "off" \/ (x.switch = w.switch /\ IsPending(x.unit.pendingSwitch, "off"))
        BY <1>1, <1>2, <4>1, SwitchSent
      <4> QED BY <1>2, <1>3, <4>2 DEF Lawful, Told
    <3>2. CASE ~running
      <4>1. x = w /\ actual[a] # "on" BY <3>2
      <4> HIDE DEF x
      <4> QED BY <1>1, <1>3, <4>1 DEF Lawful
    <3> QED BY <3>1, <3>2
  <2> HIDE DEF x, b
  <2>5. /\ v \in Works /\ v.unit.output = "off" /\ v.unit.loadShedOff = b
        /\ v.switch = x.switch /\ v.unit.pendingSwitch = x.unit.pendingSwitch
    <3>1. "off" \in Maybe /\ x \in Works /\ b \in BOOLEAN BY <1>2, <2>3, <2>4
    <3> QED BY <2>2, <3>1, Became
  <2> QED BY <2>3, <2>4, <2>5 DEF Lawful, Told
<1>4. CASE ~barred
  <2>1. v = Release(a, w) BY <1>4 DEF Obey
  <2> DEFINE back == w.unit.loadShedOff \/ actual[a] # "on"
             x == IF back THEN SendSwitch(a, w, "on") ELSE w
  <2>2. v = Becomes(x, "on", FALSE) \/ v = Becomes(w, w.unit.output, FALSE)
    BY <2>1 DEF Release
  <2>3. x \in Works
    <3> DEFINE y == SendSwitch(a, w, "on")
    <3>1. y \in Works BY <1>1, <1>2, SwitchSent
    <3> HIDE DEF y
    <3>2. x = w \/ x = y BY DEF y
    <3> QED BY <1>1, <3>1, <3>2
  <2> HIDE DEF x
  <2>4. v \in Works /\ ~v.unit.loadShedOff
    <3>1. "on" \in Maybe BY <1>2
    <3>2. CASE v = Becomes(x, "on", FALSE) BY <2>3, <3>1, <3>2, Freed
    <3>3. CASE v = Becomes(w, w.unit.output, FALSE) BY <1>1, <3>1, <3>3, Freed
    <3> QED BY <2>2, <3>2, <3>3
  <2> QED BY <1>4, <2>4 DEF Lawful
<1> QED BY <1>3, <1>4

LEMMA TickActorLawful ==
  ASSUME TypeOK, NEW a \in ActorNames, unit[a].loadShedOff => ActorType[a].sheds,
         NEW stages, NEW b \in BOOLEAN, NEW v, v = TickActor(a, stages, b),
         NEW barred \in BOOLEAN,
         barred <=> ~IsAllowed(ActorType[a].priority) \/ IsShed(a, stages, b)
  PROVE  /\ Lawful(a, v, barred)
         /\ barred => v.unit.output = "off" /\ (actual[a] = "on" => Told(v, "off"))
<1> DEFINE shed == IsShed(a, stages, b)
           read == ReadUnit(a, b)
           followed == FollowRemote(a, read, shed)
           obeyed == Obey(a, followed, shed)
<1>1. shed \in BOOLEAN /\ (shed => ActorType[a].sheds)
  BY Configured DEF IsShed, ShouldShed
<1>2. Lawful(a, read, barred) BY ReadLawful
<1>3. v = MirrorToRemote(a, obeyed, shed) BY DEF TickActor
<1>4. barred <=> ~IsAllowed(ActorType[a].priority) \/ shed OBVIOUS
<1> HIDE DEF shed, read
<1>5. Lawful(a, followed, barred) BY <1>1, <1>2, <1>4, FollowLawful
<1> HIDE DEF followed
<1>6. /\ Lawful(a, obeyed, barred)
      /\ barred => obeyed.unit.output = "off" /\ (actual[a] = "on" => Told(obeyed, "off"))
  BY <1>1, <1>4, <1>5, ObeyLawful
<1> HIDE DEF obeyed
<1>7. CASE v = obeyed BY <1>6, <1>7
<1>8. CASE v # obeyed
  <2>1. v = SendRemote(a, obeyed, actual[a]) /\ ~barred /\ actual[a] # None
    BY <1>3, <1>4, <1>8 DEF MirrorToRemote
  <2>2. actual[a] \in Commands BY <2>1, WorkBegins DEF Maybe
  <2>3. v \in Works /\ v.unit.loadShedOff = obeyed.unit.loadShedOff
    BY <1>6, <2>1, <2>2, RemoteSent DEF Lawful
  <2> QED BY <1>6, <2>1, <2>3 DEF Lawful
<1> QED BY <1>7, <1>8

-----------------------------------------------------------------------------
\* The pumps.
PumpState == [output : Maybe, hold : 0..Hold, loadShedOff : BOOLEAN]
Sampled == [hotMode : BOOLEAN, running : BOOLEAN, left : 0..SampleTime,
            pause : 0..SamplePause, byFilter : BOOLEAN]
Passes == [pump : [Pumps -> PumpState], sampling : Sampled, sent : [Pumps -> Maybe]]

LEMMA Sent ==
  ASSUME NEW w \in Passes, NEW p \in Pumps, NEW c \in Maybe, NEW v, v = Sends(w, p, c)
  PROVE  /\ v \in Passes /\ v.sampling = w.sampling /\ v.pump[p].output = c
         /\ \A q \in Pumps \ {p} : v.pump[q] = w.pump[q]
BY DEF Passes, PumpState, Sends

LEMMA HeldPump ==
  ASSUME NEW w \in Passes, NEW p \in Pumps, NEW v, v = Held(w, p)
  PROVE  /\ v \in Passes /\ v.sampling = w.sampling
         /\ \A q \in Pumps : v.pump[q].output = w.pump[q].output
<1> DEFINE h == Hold
<1>1. h \in 0..Hold BY PoolAssumption DEF PoolAssumption
<1>2. v = [w EXCEPT !.pump[p].hold = h] BY DEF Held
<1> HIDE DEF h
<1>3. /\ w.pump \in [Pumps -> PumpState] /\ w.sampling \in Sampled
      /\ w.sent \in [Pumps -> Maybe]
  BY DEF Passes
<1>4. v.sampling = w.sampling /\ v.sent = w.sent /\ v.pump = [w.pump EXCEPT ![p].hold = h]
  BY <1>2 DEF Passes
<1>5. v.pump \in [Pumps -> PumpState] /\ \A q \in Pumps : v.pump[q].output = w.pump[q].output
  BY <1>1, <1>3, <1>4 DEF PumpState
<1>6. v = [pump |-> v.pump, sampling |-> v.sampling, sent |-> v.sent] BY <1>2 DEF Passes
<1>7. v \in Passes BY <1>3, <1>4, <1>5, <1>6 DEF Passes
<1> QED BY <1>4, <1>5, <1>7

LEMMA Flagged ==
  ASSUME NEW w \in Passes, NEW p \in Pumps
  PROVE  [w EXCEPT !.pump[p].loadShedOff = TRUE] \in Passes
BY DEF Passes, PumpState

LEMMA Marked ==
  ASSUME NEW w \in Passes, NEW p \in Pumps, NEW b \in BOOLEAN
  PROVE  [w EXCEPT !.pump[p].loadShedOff = b] \in Passes
BY DEF Passes, PumpState

LEMMA Dosing ==
  ASSUME NEW w \in Passes, NEW b \in BOOLEAN
  PROVE  [w EXCEPT !.sampling.byFilter = b] \in Passes
BY DEF Passes, Sampled

LEMMA Cooled ==
  ASSUME NEW w \in Passes
  PROVE  [w EXCEPT !.sampling.hotMode = FALSE, !.sampling.running = FALSE] \in Passes
BY DEF Passes, Sampled

LEMMA Sampling ==
  ASSUME NEW w \in Passes, NEW n \in 0..SamplePause
  PROVE  /\ [w EXCEPT !.sampling.pause = n] \in Passes
         /\ [w EXCEPT !.sampling.running = FALSE, !.sampling.pause = n] \in Passes
         /\ [w EXCEPT !.sampling.hotMode = TRUE, !.sampling.running = FALSE,
                      !.sampling.pause = n] \in Passes
BY DEF Passes, Sampled

LEMMA Started ==
  ASSUME NEW w \in Passes, NEW k \in 0..SampleTime
  PROVE  [w EXCEPT !.sampling.running = TRUE, !.sampling.left = k] \in Passes
BY DEF Passes, Sampled

LEMMA Both == Pumps = {"solar", "filter"} /\ "solar" \in Pumps /\ "filter" \in Pumps
BY DEF Pumps

LEMMA Commanded ==
  /\ {"on", "off"} \subseteq Maybe /\ "off" # "on"
  /\ \A b \in BOOLEAN : Command(b) \in Maybe
BY DEF Commands, Maybe, Command

LEMMA SwitchesTyped ==
  ASSUME NEW w \in Passes, NEW p \in Pumps, NEW desired, NEW shed, NEW on \in BOOLEAN
  PROVE  Switches(w, p, desired, shed, on) \in Passes
<1> DEFINE target == Command(on)
           sent == Sends(w, p, target)
           held == Held(sent, p)
           b == desired /\ shed
<1>1. target \in Maybe BY Commanded
<1> HIDE DEF target
<1>2. sent \in Passes BY <1>1, Sent
<1> HIDE DEF sent
<1>3. held \in Passes BY <1>2, HeldPump
<1>4. b \in BOOLEAN OBVIOUS
<1> HIDE DEF held, b
<1>5. [held EXCEPT !.pump[p].loadShedOff = b] \in Passes BY <1>3, <1>4, Marked
<1>6. [w EXCEPT !.pump[p].output = target] \in Passes BY <1>1 DEF Passes, PumpState
<1> QED BY <1>5, <1>6 DEF Switches, held, sent, target, b

LEMMA ByModeTyped ==
  ASSUME NEW w \in Passes, NEW p \in Pumps, NEW shed
  PROVE  ByMode(w, p, shed) \in Passes
<1> DEFINE on == mode[p] = "on" /\ ~shed
<1>1. on \in BOOLEAN OBVIOUS
<1>2. ByMode(w, p, shed) = Switches(w, p, mode[p] = "on", shed, on) BY DEF ByMode
<1> HIDE DEF on
<1> QED BY <1>1, <1>2, SwitchesTyped

LEMMA AutomaticTyped ==
  ASSUME NEW w \in Passes, NEW p \in Pumps, NEW desired, NEW shed
  PROVE  Automatic(w, p, desired, shed) \in Passes
<1> DEFINE on == desired /\ ~shed /\ IsAllowed(EffectivePriority(w, p))
<1>1. on \in BOOLEAN OBVIOUS
<1>2. Automatic(w, p, desired, shed) = Switches(w, p, desired, shed, on) BY DEF Automatic
<1> HIDE DEF on
<1> QED BY <1>1, <1>2, SwitchesTyped

LEMMA EnterHotTyped ==
  ASSUME NEW w \in Passes
  PROVE  EnterHot(w) \in Passes
<1> DEFINE fresh == [w EXCEPT !.sampling.hotMode = TRUE, !.sampling.running = FALSE,
                              !.sampling.pause = 0]
           sent == Sends(fresh, "solar", "off")
<1>1. 0 \in 0..SamplePause BY PoolAssumption DEF PoolAssumption
<1>2. fresh \in Passes
  <2> DEFINE n == 0
  <2>1. n \in 0..SamplePause BY <1>1
  <2> HIDE DEF n
  <2>2. [w EXCEPT !.sampling.hotMode = TRUE, !.sampling.running = FALSE,
                  !.sampling.pause = n] \in Passes
    BY <2>1, Sampling
  <2> QED BY <2>2 DEF n
<1> HIDE DEF fresh
<1>3. sent \in Passes BY <1>2, Both, Commanded, Sent
<1> HIDE DEF sent
<1>4. Held(sent, "solar") \in Passes BY <1>3, Both, HeldPump
<1> QED BY <1>2, <1>4 DEF EnterHot, fresh, sent

LEMMA SampleSent ==
  ASSUME NEW w \in Passes, NEW p \in Pumps, NEW c \in Maybe
  PROVE  SendsSample(w, p, c) \in Passes
<1> DEFINE sent == Sends(w, p, c)
<1>1. sent \in Passes BY Sent
<1> HIDE DEF sent
<1>2. Held(sent, p) \in Passes BY <1>1, HeldPump
<1> QED BY <1>1, <1>2 DEF SendsSample, sent

LEMMA SampleTyped ==
  ASSUME NEW w \in Passes
  PROVE  Sample(w) \in Passes
<1> DEFINE sampler == IF setup.sample THEN "filter" ELSE "solar"
           off == SendsSample(w, sampler, "off")
           on == SendsSample(w, sampler, "on")
           n == SamplePause
           k == SampleTime
<1>1. n \in 0..SamplePause /\ k \in 0..SampleTime BY PoolAssumption DEF PoolAssumption
<1>2. sampler \in Pumps BY Both
<1> HIDE DEF sampler
<1>3. off \in Passes /\ on \in Passes BY <1>2, Commanded, SampleSent
<1> HIDE DEF off, on
<1> HIDE DEF n, k
<1>4. [off EXCEPT !.sampling.running = FALSE, !.sampling.pause = n] \in Passes
  BY <1>1, <1>3, Sampling
<1>5. [w EXCEPT !.sampling.pause = n] \in Passes BY <1>1, Sampling
<1>6. [on EXCEPT !.sampling.running = TRUE, !.sampling.left = k] \in Passes
  BY <1>1, <1>3, Started
<1> QED BY <1>4, <1>5, <1>6 DEF Sample, off, on, sampler, n, k

LEMMA LeaveHotTyped ==
  ASSUME NEW w \in Passes
  PROVE  LeaveHot(w) \in Passes
<1> DEFINE left == [w EXCEPT !.sampling.hotMode = FALSE, !.sampling.running = FALSE]
<1>1. left \in Passes BY Cooled
<1> HIDE DEF left
<1>2. Sends(left, "filter", "off") \in Passes BY <1>1, Both, Commanded, Sent
<1> QED BY <1>1, <1>2 DEF LeaveHot, left

LEMMA SolarTyped ==
  ASSUME NEW w \in Passes, NEW shed, NEW overTemp
  PROVE  SolarByHand(w, shed) \in Passes /\ SolarAutomatic(w, shed, overTemp) \in Passes
<1> DEFINE entered == EnterHot(w)
           left == LeaveHot(w)
<1>1. entered \in Passes /\ left \in Passes BY EnterHotTyped, LeaveHotTyped
<1> HIDE DEF entered, left
<1>2. Sample(entered) \in Passes BY <1>1, SampleTyped
<1>3. Automatic(left, "solar", sun, shed) \in Passes BY <1>1, Both, AutomaticTyped
<1>4. ByMode(w, "solar", shed) \in Passes BY Both, ByModeTyped
<1> QED BY <1>2, <1>3, <1>4 DEF SolarByHand, SolarAutomatic, entered, left

LEMMA FilterTyped ==
  ASSUME NEW w \in Passes, NEW shed
  PROVE  Filter(w, shed) \in Passes
<1> DEFINE desired == IF setup.follow THEN w.pump["solar"].output = "on" \/ due ELSE due
<1>1. Automatic(w, "filter", desired, shed) \in Passes BY Both, AutomaticTyped
<1>2. ByMode(w, "filter", shed) \in Passes BY Both, ByModeTyped
<1> QED BY <1>1, <1>2 DEF Filter

\* A pump that runs and is to be taken off is taken off; the other one is left alone.
Rid(w, p, shed, v) ==
  /\ v \in Passes /\ v.sampling = w.sampling
  /\ v.pump[p].output = "on" => ~shed
  /\ \A q \in Pumps \ {p} : v.pump[q].output = w.pump[q].output

LEMMA TakenAway ==
  ASSUME NEW w \in Passes, NEW p \in Pumps, NEW shed \in BOOLEAN
  PROVE  Rid(w, p, shed, TakeOff(w, p, shed))
<1> DEFINE v == TakeOff(w, p, shed)
<1> SUFFICES Rid(w, p, shed, v) OBVIOUS
<1> DEFINE sent == Sends(w, p, "off")
           off == [sent EXCEPT !.pump[p].loadShedOff = TRUE]
           held == Held(off, p)
<1>1. /\ sent \in Passes /\ sent.sampling = w.sampling /\ sent.pump[p].output = "off"
      /\ \A q \in Pumps \ {p} : sent.pump[q] = w.pump[q]
  BY Commanded, Sent
<1> HIDE DEF sent
<1>2. /\ off \in Passes /\ off.sampling = sent.sampling
      /\ \A q \in Pumps : off.pump[q].output = sent.pump[q].output
  <2>1. off \in Passes BY <1>1, Flagged
  <2>2. off.sampling = sent.sampling /\ off.pump = [sent.pump EXCEPT ![p].loadShedOff = TRUE]
    BY <1>1 DEF Passes
  <2>3. sent.pump \in [Pumps -> PumpState] BY <1>1 DEF Passes
  <2> HIDE DEF off
  <2> QED BY <2>1, <2>2, <2>3 DEF PumpState
<1> HIDE DEF off
<1>3. /\ held \in Passes /\ held.sampling = off.sampling
      /\ \A q \in Pumps : held.pump[q].output = off.pump[q].output
  BY <1>2, HeldPump
<1> HIDE DEF held
<1>4. CASE w.pump[p].output # "on" \/ ~shed
  <2>1. v = w BY <1>4 DEF TakeOff
  <2> HIDE DEF v
  <2> QED BY <1>4, <2>1 DEF Rid
<1>5. CASE w.pump[p].output = "on" /\ shed
  <2>1. v = off \/ v = held BY <1>5 DEF TakeOff, off, held, sent
  <2> HIDE DEF v
  <2> QED BY <1>1, <1>2, <1>3, <2>1, Commanded DEF Rid
<1> QED BY <1>4, <1>5

\* The state of the pool as a pass finds it; b: the load shed is active.
Begun(b) == [PoolWork EXCEPT !.pump = [p \in Pumps |-> [pump[p] EXCEPT !.loadShedOff = @ /\ b]]]

LEMMA PoolBegins ==
  ASSUME TypeOK
  PROVE  /\ PoolWork \in Passes /\ pump \in [Pumps -> PumpState] /\ sampling \in Sampled
         /\ setup.topics \subseteq Pumps /\ \A p \in Pumps : actual[p] \in Maybe /\ p \in Units
         /\ \A b \in BOOLEAN : Begun(b) \in Passes
<1>1. pump \in [Pumps -> PumpState] /\ sampling \in Sampled /\ setup.topics \subseteq Pumps
  BY DEF TypeOK, PoolTypeOK, PumpState, Sampled, Maybe
<1>2. \A p \in Pumps : p \in Units BY ManagementAssumption DEF ManagementAssumption
<1>3. \A p \in Pumps : actual[p] \in Maybe BY <1>2 DEF TypeOK, OutletsTypeOK, Maybe
<1>4. PoolWork \in Passes BY <1>1 DEF PoolWork, Passes, Maybe
<1>5. ASSUME NEW b \in BOOLEAN PROVE Begun(b) \in Passes
  <2>1. PoolWork.pump = pump BY DEF PoolWork
  <2>2. [p \in Pumps |-> [pump[p] EXCEPT !.loadShedOff = @ /\ b]] \in [Pumps -> PumpState]
    BY <1>1 DEF PumpState
  <2> QED BY <1>4, <2>1, <2>2 DEF Begun, Passes
<1> QED BY <1>1, <1>2, <1>3, <1>4, <1>5

LEMMA FinishedSound ==
  ASSUME TypeOK, NEW solar \in Passes, NEW stages, NEW b \in BOOLEAN,
         NEW w, w = Finished(solar, stages, b)
  PROVE  /\ w \in Passes
         /\ \A p \in Pumps : w.pump[p].output = "on" => ~Shed(w, p, stages, b)
<1> DEFINE dosing == setup.sample /\ solar.sampling.hotMode /\ solar.sampling.running
           marked == [solar EXCEPT !.sampling.byFilter = dosing]
           filter == Filter(marked, Shed(marked, "filter", stages, b))
           first == Shed(filter, "solar", stages, b)
           rid == TakeOff(filter, "solar", first)
           second == Shed(rid, "filter", stages, b)
<1>1. dosing \in BOOLEAN
  <2>1. setup.sample \in BOOLEAN BY DEF TypeOK, PoolTypeOK
  <2> QED BY <2>1
<1> HIDE DEF dosing
<1>2. marked \in Passes BY <1>1, Dosing
<1> HIDE DEF marked
<1>3. filter \in Passes BY <1>2, FilterTyped
<1> HIDE DEF filter
<1>4. first \in BOOLEAN BY DEF Shed, ShouldShed
<1> HIDE DEF rid
<1>5. second \in BOOLEAN BY DEF Shed, ShouldShed
<1>6. w = TakeOff(rid, "filter", second)
  BY DEF Finished, rid, filter, marked, dosing
<1> HIDE DEF first, second
<1>7. /\ w \in Passes /\ w.sampling = filter.sampling /\ w.sampling = rid.sampling
      /\ w.pump["solar"].output = "on" => ~first
      /\ w.pump["filter"].output = "on" => ~second
  <2>1. "solar" \in Pumps /\ "filter" \in Pumps /\ "solar" \in Pumps \ {"filter"} BY Both
  <2>2. Rid(filter, "solar", first, rid) BY <1>3, <1>4, <2>1, TakenAway DEF rid
  <2>3. rid \in Passes BY <2>2 DEF Rid
  <2>4. Rid(rid, "filter", second, w) BY <1>5, <1>6, <2>1, <2>3, TakenAway
  <2> QED BY <2>1, <2>2, <2>4 DEF Rid
<1>8. \A p : Shed(w, p, stages, b) = Shed(filter, p, stages, b)
             /\ Shed(w, p, stages, b) = Shed(rid, p, stages, b)
  BY <1>7 DEF Shed, EffectivePriority
<1> QED BY <1>7, <1>8, Both DEF first, second

-----------------------------------------------------------------------------
\* The controllers together.

\* Only what takes part in the load shed is off because of it.
OnlySheddable == \A a \in ActorNames : unit[a].loadShedOff => ActorType[a].sheds

IInv == TypeOK /\ used \in [Kinds -> Nat] /\ OnlySheddable

\* The parts of TypeOK, each under its own name.
LEMMA Parts ==
  TypeOK <=>
    /\ OutletsTypeOK /\ ShedTypeOK /\ LevelTypeOK /\ ActorsTypeOK /\ PoolTypeOK
    /\ load \in [Phases -> Loads] /\ active \in BOOLEAN
    /\ fired \subseteq Providers
    /\ limit \in Limits /\ \A k \in Kinds : used[k] <= limit.max[k]
BY DEF TypeOK

LEMMA Limited ==
  ASSUME NEW l \in Limits
  PROVE  /\ l.actors \subseteq ActorNames /\ l.level \in Levels /\ l.active \in BOOLEAN
         /\ l.setup \in [topics : SUBSET Pumps, sample : BOOLEAN, follow : BOOLEAN]
         /\ l.max \in [Kinds -> Nat]
BY ManagementAssumption DEF ManagementAssumption

Counted == used \in [Kinds -> Nat] /\ \A k \in Kinds : used[k] <= limit.max[k]

LEMMA SpendCounted ==
  ASSUME IInv, NEW k \in Kinds, Spend(k), limit' = limit
  PROVE  Counted'
<1>1. limit.max \in [Kinds -> Nat] BY Limited DEF IInv, TypeOK
<1>2. used' = [used EXCEPT ![k] = used[k] + 1] /\ used[k] < limit.max[k] BY DEF Spend
<1>3. used \in [Kinds -> Nat] /\ \A j \in Kinds : used[j] <= limit.max[j] BY DEF IInv, TypeOK
<1>4. used' \in [Kinds -> Nat] BY <1>2, <1>3
<1>5. ASSUME NEW j \in Kinds PROVE used'[j] <= limit.max[j]
  BY <1>1, <1>2, <1>3
<1> QED BY <1>4, <1>5 DEF Counted

LEMMA SameCounted ==
  ASSUME IInv, UNCHANGED <<limit, used>>
  PROVE  Counted'
BY DEF IInv, TypeOK, Counted

\* The frame: what an action leaves alone keeps its type.
LEMMA Frame ==
  ASSUME IInv
  PROVE  /\ UNCHANGED outletVars => OutletsTypeOK'
         /\ UNCHANGED shedVars => ShedTypeOK'
         /\ UNCHANGED levelVars => LevelTypeOK'
         /\ UNCHANGED actorVars => ActorsTypeOK' /\ OnlySheddable'
         /\ UNCHANGED poolVars => PoolTypeOK'
BY DEF IInv, TypeOK, OutletsTypeOK, ShedTypeOK, LevelTypeOK, ActorsTypeOK, PoolTypeOK,
       OnlySheddable, outletVars, shedVars, levelVars, actorVars, poolVars

LEMMA Together ==
  ASSUME IInv, OutletsTypeOK', ShedTypeOK', LevelTypeOK', ActorsTypeOK', PoolTypeOK',
         OnlySheddable', Counted', load' \in [Phases -> Loads], active' \in BOOLEAN,
         setup' = setup, fired' \subseteq Providers, limit' = limit
  PROVE  IInv'
BY DEF IInv, TypeOK, Counted

LEMMA InitSound == Init => IInv
<1> SUFFICES ASSUME Init PROVE IInv OBVIOUS
<1>1. OutletsTypeOK
  BY DEF Init, OutletsInit, OutletsTypeOK
<1>2. ShedTypeOK
  <2>1. 0 \in 0..Settle /\ 0 \in 0..Recover BY Shedding
  <2> QED BY <2>1 DEF Init, ShedInit, ShedTypeOK, Cleared
<1>3. LevelTypeOK
  BY LevelAssumption DEF Init, LevelInit, LevelTypeOK, LevelAssumption
<1>4. ActorsTypeOK /\ OnlySheddable
  <2>1. NewUnit \in Unit /\ ~NewUnit.loadShedOff BY NoneWaits DEF NewUnit, Unit, Maybe
  <2>2. \A a \in ActorNames : unit[a] = NewUnit BY DEF Init, ActorsInit
  <2>3. unit \in [ActorNames -> Unit] BY <2>1 DEF Init, ActorsInit
  <2>4. actors \subseteq ActorNames BY Limited DEF Init
  <2>5. /\ remote \in [ActorNames -> Maybe] /\ remoteWire \in [ActorNames -> Maybe]
        /\ newer \in [ActorNames -> {"actual", "remote"}]
    BY DEF Init, ActorsInit, Maybe
  <2>6. OnlySheddable BY <2>1, <2>2 DEF OnlySheddable
  <2> QED BY <2>3, <2>4, <2>5, <2>6 DEF ActorsTypeOK, Unit, Maybe
<1>5. PoolTypeOK
  <2>1. 0 \in 0..Hold /\ 0 \in 0..SampleTime /\ 0 \in 0..SamplePause
    BY PoolAssumption DEF PoolAssumption
  <2>2. NewPump \in PumpState /\ NoSampling \in Sampled
    BY <2>1 DEF NewPump, NoSampling, PumpState, Sampled, Maybe
  <2>3. setup \in [topics : SUBSET Pumps, sample : BOOLEAN, follow : BOOLEAN]
    BY Limited DEF Init
  <2>4. pump \in [Pumps -> PumpState] /\ sampling \in Sampled
    BY <2>2 DEF Init, PoolInit
  <2>5. sun \in BOOLEAN /\ hot \in BOOLEAN /\ due \in BOOLEAN /\ mode \in [Pumps -> Modes]
    BY DEF Init, PoolInit, Modes
  <2>6. tick \in [under : BOOLEAN, hot : BOOLEAN, active : BOOLEAN]
    BY DEF Init, PoolInit, NoTick
  <2> QED BY <2>3, <2>4, <2>5, <2>6 DEF PoolTypeOK, PumpState, Sampled, Maybe
<1>6. used \in [Kinds -> Nat] /\ \A k \in Kinds : used[k] <= limit.max[k]
  <2>1. limit.max \in [Kinds -> Nat] BY Limited DEF Init
  <2> QED BY <2>1 DEF Init
<1>7. /\ load \in [Phases -> Loads] /\ active \in BOOLEAN /\ fired \subseteq Providers
      /\ limit \in Limits
  BY Limited DEF Init, Loads, Running
<1> QED BY <1>1, <1>2, <1>3, <1>4, <1>5, <1>6, <1>7 DEF IInv, TypeOK

\* The stages after a pass of either controller.
LEMMA Registered ==
  ASSUME NEW registry \in [Providers -> SUBSET Participants], NEW p
  PROVE  PrioritiesForPhase(p, registry) \subseteq Priorities
BY DEF PrioritiesForPhase, Participants

LEMMA StagesUpdated ==
  ASSUME IInv, participants' \in [Providers -> SUBSET Participants],
         stage' = IF active THEN Updated(load, participants') ELSE stage
  PROVE  ShedTypeOK'
<1>1. stage \in [Phases -> Stage] /\ load \in [Phases -> Loads]
  BY DEF IInv, TypeOK, ShedTypeOK, Stage
<1>2. ASSUME NEW p \in Phases
      PROVE  UpdateStage(stage[p], load[p], PrioritiesForPhase(p, participants')) \in Stage
  BY <1>1, Registered, StageMoves
<1>3. Updated(load, participants') \in [Phases -> Stage] BY <1>2 DEF Updated
<1>4. stage' \in [Phases -> Stage] BY <1>1, <1>3
<1> QED BY <1>4 DEF ShedTypeOK, Stage

LEMMA PublishTyped ==
  ASSUME IInv, NEW sent, \A u \in Units : sent[u] \in Maybe, Publish(sent),
         UNCHANGED <<device, actual>>
  PROVE  OutletsTypeOK'
BY DEF IInv, TypeOK, OutletsTypeOK, Publish, Maybe

LEMMA PrioritiesLevels == \A q \in Priorities : q \in 0..MaxLevel
<1>1. \A q \in 1..MaxLevel : q \in 0..MaxLevel BY Shedding
<1> QED BY <1>1, Shedding

LEMMA RegisterTyped ==
  ASSUME IInv, NEW k \in Providers, NEW list, list \subseteq Participants,
         participants' = RegisterProvider(k, list)
  PROVE  participants' \in [Providers -> SUBSET Participants]
BY DEF IInv, TypeOK, ShedTypeOK, RegisterProvider

LEMMA BothProviders == Providers = {"messschalt", "pool"}
BY ManagementAssumption DEF ManagementAssumption

LEMMA ActorsRegister ==
  ASSUME IInv, ActorsTick
  PROVE  participants' \in [Providers -> SUBSET Participants]
<1> DEFINE list == {[phases |-> ActorType[a].phases, priority |-> ActorType[a].priority] :
                      a \in Sheddable(active)}
<1>1. participants' = RegisterProvider("messschalt", list) BY DEF ActorsTick, TickActors
<1>2. actors \subseteq ActorNames BY DEF IInv, TypeOK, ActorsTypeOK
<1>3. list \subseteq Participants BY <1>2, Configured DEF Sheddable, Participants
<1> HIDE DEF list
<1> QED BY <1>1, <1>3, BothProviders, RegisterTyped

\* What a pass has made of each actor.
LEMMA ActorsWork ==
  ASSUME IInv, ActorsTick
  PROVE  \E work :
           /\ work = [a \in actors |-> TickActor(a, stage', active)]
           /\ unit' = [a \in ActorNames |-> IF a \in actors THEN work[a].unit ELSE unit[a]]
           /\ Publish([u \in Units |-> IF u \in actors THEN work[u].switch ELSE None])
           /\ remoteWire' = [a \in ActorNames |->
                IF a \in actors /\ work[a].remote # None THEN work[a].remote ELSE remoteWire[a]]
           /\ \A a \in actors :
                /\ a \in ActorNames /\ Lawful(a, work[a], MustBeOff(a))
                /\ MustBeOff(a) => /\ work[a].unit.output = "off"
                                   /\ actual[a] = "on" => Told(work[a], "off")
<1> DEFINE work == [a \in actors |-> TickActor(a, stage', active)]
<1>1. /\ unit' = [a \in ActorNames |-> IF a \in actors THEN work[a].unit ELSE unit[a]]
      /\ Publish([u \in Units |-> IF u \in actors THEN work[u].switch ELSE None])
      /\ remoteWire' = [a \in ActorNames |->
           IF a \in actors /\ work[a].remote # None THEN work[a].remote ELSE remoteWire[a]]
  BY DEF ActorsTick, TickActors
<1>2. ASSUME NEW a \in actors
      PROVE  /\ a \in ActorNames /\ Lawful(a, work[a], MustBeOff(a))
             /\ MustBeOff(a) => /\ work[a].unit.output = "off"
                                /\ actual[a] = "on" => Told(work[a], "off")
  <2>1. a \in ActorNames BY DEF IInv, TypeOK, ActorsTypeOK
  <2>2. active \in BOOLEAN /\ TypeOK /\ (unit[a].loadShedOff => ActorType[a].sheds)
    BY <2>1 DEF IInv, TypeOK, OnlySheddable
  <2> DEFINE barred == MustBeOff(a)
             stages == stage'
             v == TickActor(a, stages, active)
  <2>3. barred \in BOOLEAN BY DEF MustBeOff, IsAllowed
  <2>4. barred <=> ~IsAllowed(ActorType[a].priority) \/ IsShed(a, stages, active)
    BY DEF MustBeOff
  <2>5. work[a] = v OBVIOUS
  <2> HIDE DEF barred, v, stages, work
  <2>6. /\ Lawful(a, v, barred)
        /\ barred => v.unit.output = "off" /\ (actual[a] = "on" => Told(v, "off"))
    BY <2>1, <2>2, <2>3, <2>4, TickActorLawful DEF v
  <2> QED BY <2>1, <2>5, <2>6 DEF barred
<1> HIDE DEF work
<1> WITNESS work
<1> QED BY <1>1, <1>2 DEF work

\* The units and what was sent, from the work of a pass or of the callbacks.
LEMMA WorkTyped ==
  ASSUME IInv, NEW S, S \subseteq ActorNames, NEW work,
         \A a \in S : work[a] \in Works /\ (work[a].unit.loadShedOff => ActorType[a].sheds),
         unit' = [a \in ActorNames |-> IF a \in S THEN work[a].unit ELSE unit[a]],
         remoteWire' = [a \in ActorNames |->
           IF a \in S /\ work[a].remote # None THEN work[a].remote ELSE remoteWire[a]],
         UNCHANGED <<actors, remote, newer>>
  PROVE  ActorsTypeOK' /\ OnlySheddable'
<1>1. \A a \in ActorNames : unit[a] \in Unit /\ remoteWire[a] \in Maybe
  BY DEF IInv, TypeOK, ActorsTypeOK, Unit, Maybe
<1>2. \A a \in S : work[a].unit \in Unit /\ work[a].remote \in Maybe BY DEF Works
<1>3. unit' \in [ActorNames -> Unit] BY <1>1, <1>2
<1>4. remoteWire' \in [ActorNames -> Maybe] BY <1>1, <1>2
<1>5. OnlySheddable' BY DEF OnlySheddable, IInv
<1>6. /\ actors' \subseteq ActorNames /\ remote' \in [ActorNames -> Maybe]
      /\ newer' \in [ActorNames -> {"actual", "remote"}]
  BY DEF IInv, TypeOK, ActorsTypeOK, Maybe
<1> QED BY <1>3, <1>4, <1>5, <1>6 DEF ActorsTypeOK, Unit, Maybe

LEMMA ActorsTickSound ==
  ASSUME IInv, ActorsTick
  PROVE  IInv'
<1>1. PICK work :
        /\ unit' = [a \in ActorNames |-> IF a \in actors THEN work[a].unit ELSE unit[a]]
        /\ Publish([u \in Units |-> IF u \in actors THEN work[u].switch ELSE None])
        /\ remoteWire' = [a \in ActorNames |->
             IF a \in actors /\ work[a].remote # None THEN work[a].remote ELSE remoteWire[a]]
        /\ \A a \in actors : a \in ActorNames /\ Lawful(a, work[a], MustBeOff(a))
  BY ActorsWork
<1>2. /\ UNCHANGED <<poolVars, gridVars, limit, used>>
      /\ fired' = fired \ {"messschalt"}
      /\ UNCHANGED <<actors, remote, newer, device, actual, operatingLevel, saving, currentLevel>>
      /\ stage' = IF active THEN Updated(load, participants') ELSE stage
      /\ registered' = [c \in Consumers |->
                          IF c \in actors THEN ActorType[c].priority ELSE registered[c]]
  BY DEF ActorsTick, TickActors
<1>3. ShedTypeOK' BY <1>2, ActorsRegister, StagesUpdated
<1>4. ActorsTypeOK' /\ OnlySheddable'
  <2>1. \A a \in actors : work[a] \in Works /\ (work[a].unit.loadShedOff => ActorType[a].sheds)
    BY <1>1 DEF Lawful
  <2>2. actors \subseteq ActorNames BY <1>1
  <2> QED BY <1>1, <1>2, <2>1, <2>2, WorkTyped
<1>5. OutletsTypeOK'
  <2> DEFINE sent == [u \in Units |-> IF u \in actors THEN work[u].switch ELSE None]
  <2>1. \A u \in Units : sent[u] \in Maybe
    BY <1>1 DEF Lawful, Works, Maybe
  <2>2. Publish(sent) BY <1>1
  <2> HIDE DEF sent
  <2> QED BY <1>2, <2>1, <2>2, PublishTyped
<1>6. LevelTypeOK'
  <2>1. \A c \in Consumers : registered[c] \in 0..MaxLevel
    BY DEF IInv, TypeOK, LevelTypeOK
  <2>2. \A c \in actors : ActorType[c].priority \in 0..MaxLevel
    BY <1>1, Configured, PrioritiesLevels
  <2>3. registered' \in [Consumers -> 0..MaxLevel] BY <1>2, <2>1, <2>2
  <2> QED BY <1>2, <2>3 DEF IInv, TypeOK, LevelTypeOK
<1>7. PoolTypeOK' BY <1>2, Frame
<1>8. Counted' BY <1>2, SameCounted
<1>9. /\ load' \in [Phases -> Loads] /\ active' \in BOOLEAN /\ setup' = setup
      /\ fired' \subseteq Providers /\ limit' = limit
  BY <1>2 DEF IInv, TypeOK, gridVars, poolVars
<1> QED BY <1>3, <1>4, <1>5, <1>6, <1>7, <1>8, <1>9, Together

LEMMA PoolTickBegins ==
  ASSUME IInv, PoolTick
  PROVE  /\ participants' = RegisterProvider("pool", PoolParticipants(Begun(active)))
         /\ stage' = IF active THEN Updated(load, participants') ELSE stage
         /\ \/ /\ tick' = [under |-> TRUE, hot |-> hot, active |-> active]
               /\ pump' = Begun(active).pump /\ UNCHANGED <<sampling, wire, registered>>
            \/ /\ UNCHANGED tick /\ ~tick.under
               /\ EndsWith(Finished(SolarByHand(Begun(active),
                                       Shed(Begun(active), "solar", stage', active)),
                                    stage', active))
BY DEF PoolTick, TickPool, Begun

LEMMA PoolRegisters ==
  ASSUME IInv, PoolTick
  PROVE  participants' \in [Providers -> SUBSET Participants]
<1> DEFINE list == PoolParticipants(Begun(active))
<1>1. participants' = RegisterProvider("pool", list) BY PoolTickBegins
<1>2. PumpPhases \in [Pumps -> SUBSET Phases] /\ PumpPriority \in [Pumps -> Priorities]
  BY PoolAssumption DEF PoolAssumption
<1>3. setup.topics \subseteq Pumps BY PoolBegins DEF IInv
<1>4. \A w : \A p \in Pumps : EffectivePriority(w, p) \in Priorities
  BY <1>2, Both DEF EffectivePriority
<1>5. list \subseteq Participants BY <1>2, <1>3, <1>4 DEF PoolParticipants, Participants
<1> HIDE DEF list
<1> QED BY <1>1, <1>5, BothProviders, RegisterTyped

\* The end of a pass that has found the load shed active (b).
Ended(b) ==
  \E w : /\ w \in Passes /\ EndsWith(w)
         /\ \A p \in Pumps : w.pump[p].output = "on" => ~Shed(w, p, stage', b)

LEMMA PoolTickEnds ==
  ASSUME IInv, PoolTick
  PROVE  \/ /\ tick' = [under |-> TRUE, hot |-> hot, active |-> active]
            /\ pump' \in [Pumps -> PumpState] /\ UNCHANGED <<sampling, wire, registered>>
         \/ UNCHANGED tick /\ ~tick.under /\ Ended(active)
<1>1. active \in BOOLEAN /\ TypeOK BY DEF IInv, TypeOK
<1>2. Begun(active) \in Passes BY <1>1, PoolBegins
<1>3. CASE /\ tick' = [under |-> TRUE, hot |-> hot, active |-> active]
           /\ pump' = Begun(active).pump /\ UNCHANGED <<sampling, wire, registered>>
  <2>1. Begun(active).pump \in [Pumps -> PumpState] BY <1>2 DEF Passes
  <2> QED BY <1>3, <2>1
<1>4. CASE /\ UNCHANGED tick /\ ~tick.under
           /\ EndsWith(Finished(SolarByHand(Begun(active),
                                   Shed(Begun(active), "solar", stage', active)),
                                stage', active))
  <2> DEFINE stages == stage'
             solar == SolarByHand(Begun(active), Shed(Begun(active), "solar", stages, active))
             w == Finished(solar, stages, active)
  <2>1. EndsWith(w) BY <1>4
  <2> HIDE DEF stages
  <2>2. solar \in Passes BY <1>2, SolarTyped
  <2> HIDE DEF solar
  <2>3. /\ w \in Passes
        /\ \A p \in Pumps : w.pump[p].output = "on" => ~Shed(w, p, stages, active)
    BY <1>1, <2>2, FinishedSound
  <2> HIDE DEF w
  <2> QED BY <1>4, <2>1, <2>3 DEF Ended, stages
<1> QED BY <1>3, <1>4, PoolTickBegins

LEMMA PoolResumeEnds ==
  ASSUME IInv, PoolResume
  PROVE  Ended(tick.active)
<1> DEFINE b == tick.active
           solar == SolarAutomatic(PoolWork, Shed(PoolWork, "solar", stage, b), tick.hot)
           w == Finished(solar, stage, b)
<1>1. EndsWith(w) /\ stage' = stage BY DEF PoolResume, ResumePool
<1>2. b \in BOOLEAN /\ TypeOK BY DEF IInv, TypeOK, PoolTypeOK
<1>3. solar \in Passes BY <1>2, PoolBegins, SolarTyped
<1> HIDE DEF solar, b
<1>4. w \in Passes /\ \A p \in Pumps : w.pump[p].output = "on" => ~Shed(w, p, stage, b)
  BY <1>2, <1>3, FinishedSound
<1> HIDE DEF w
<1>5. \A p : Shed(w, p, stage', b) = Shed(w, p, stage, b) BY <1>1
<1> QED BY <1>1, <1>4, <1>5 DEF Ended, b

\* What the end of a pass writes keeps its type.
LEMMA EndTyped ==
  ASSUME IInv, NEW b, Ended(b), UNCHANGED <<device, actual, operatingLevel, saving, currentLevel>>
  PROVE  /\ OutletsTypeOK' /\ LevelTypeOK'
         /\ pump' \in [Pumps -> PumpState] /\ sampling' \in Sampled
<1>1. PICK w : w \in Passes /\ EndsWith(w) BY DEF Ended
<1>2. /\ pump' = w.pump /\ sampling' = w.sampling
      /\ Publish([u \in Units |-> IF u \in Pumps THEN w.sent[u] ELSE None])
      /\ registered' = [c \in Consumers |->
           IF c \notin Pumps THEN registered[c]
           ELSE IF c \in setup.topics /\ mode[c] = "auto" THEN EffectivePriority(w, c) ELSE 0]
  BY <1>1 DEF EndsWith
<1>3. OutletsTypeOK'
  <2> DEFINE sent == [u \in Units |-> IF u \in Pumps THEN w.sent[u] ELSE None]
  <2>1. \A u \in Units : sent[u] \in Maybe BY <1>1 DEF Passes, Maybe
  <2>2. Publish(sent) BY <1>2
  <2> HIDE DEF sent
  <2> QED BY <2>1, <2>2, PublishTyped
<1>4. LevelTypeOK'
  <2>1. \A c \in Consumers : registered[c] \in 0..MaxLevel
    BY DEF IInv, TypeOK, LevelTypeOK
  <2>2. \A p \in Pumps : EffectivePriority(w, p) \in 0..MaxLevel
    <3>1. PumpPriority \in [Pumps -> Priorities] BY PoolAssumption DEF PoolAssumption
    <3> QED BY <3>1, Both, PrioritiesLevels DEF EffectivePriority
  <2>3. 0 \in 0..MaxLevel BY Shedding
  <2>4. registered' \in [Consumers -> 0..MaxLevel] BY <1>2, <2>1, <2>2, <2>3
  <2> QED BY <2>4 DEF IInv, TypeOK, LevelTypeOK
<1> QED BY <1>1, <1>2, <1>3, <1>4 DEF Passes

LEMMA PoolTickSound ==
  ASSUME IInv, PoolTick
  PROVE  IInv'
<1>1. /\ UNCHANGED <<actorVars, gridVars, limit, used>>
      /\ fired' = fired \ {"pool"}
      /\ UNCHANGED <<setup, sun, hot, due, mode, device, actual, operatingLevel, saving,
                     currentLevel>>
      /\ stage' = IF active THEN Updated(load, participants') ELSE stage
  BY DEF PoolTick, TickPool
<1>2. ShedTypeOK' BY <1>1, PoolRegisters, StagesUpdated
<1>3. ActorsTypeOK' /\ OnlySheddable' BY <1>1, Frame
<1>4. /\ OutletsTypeOK' /\ LevelTypeOK'
      /\ pump' \in [Pumps -> PumpState] /\ sampling' \in Sampled
      /\ tick' \in [under : BOOLEAN, hot : BOOLEAN, active : BOOLEAN]
  <2>1. CASE /\ tick' = [under |-> TRUE, hot |-> hot, active |-> active]
             /\ pump' \in [Pumps -> PumpState] /\ UNCHANGED <<sampling, wire, registered>>
    <3>1. sampling' \in Sampled BY <2>1, PoolBegins DEF IInv
    <3>2. tick' \in [under : BOOLEAN, hot : BOOLEAN, active : BOOLEAN]
      BY <2>1 DEF IInv, TypeOK, PoolTypeOK
    <3>3. UNCHANGED outletVars /\ UNCHANGED levelVars BY <1>1, <2>1 DEF outletVars, levelVars
    <3> QED BY <2>1, <3>1, <3>2, <3>3, Frame
  <2>2. CASE UNCHANGED tick /\ ~tick.under /\ Ended(active)
    BY <1>1, <2>2, EndTyped DEF IInv, TypeOK, PoolTypeOK
  <2> QED BY <2>1, <2>2, PoolTickEnds
<1>5. PoolTypeOK' BY <1>1, <1>4 DEF IInv, TypeOK, PoolTypeOK, PumpState, Sampled, Maybe
<1>6. Counted' BY <1>1, SameCounted
<1>7. /\ load' \in [Phases -> Loads] /\ active' \in BOOLEAN /\ setup' = setup
      /\ fired' \subseteq Providers /\ limit' = limit
  BY <1>1 DEF IInv, TypeOK, gridVars
<1> QED BY <1>2, <1>3, <1>4, <1>5, <1>6, <1>7, Together

LEMMA PoolResumeSound ==
  ASSUME IInv, PoolResume
  PROVE  IInv'
<1>1. /\ UNCHANGED <<actorVars, gridVars, fired, limit, used>>
      /\ UNCHANGED <<setup, sun, hot, due, mode, device, actual, operatingLevel, saving,
                     currentLevel, participants, stage>>
      /\ tick' = NoTick
  BY DEF PoolResume, ResumePool
<1>2. ShedTypeOK' /\ ActorsTypeOK' /\ OnlySheddable' BY <1>1, Frame DEF shedVars
<1>3. /\ OutletsTypeOK' /\ LevelTypeOK'
      /\ pump' \in [Pumps -> PumpState] /\ sampling' \in Sampled
  BY <1>1, PoolResumeEnds, EndTyped
<1>4. PoolTypeOK'
  BY <1>1, <1>3 DEF IInv, TypeOK, PoolTypeOK, PumpState, Sampled, Maybe, NoTick
<1>5. Counted' BY <1>1, SameCounted
<1>6. /\ load' \in [Phases -> Loads] /\ active' \in BOOLEAN /\ setup' = setup
      /\ fired' \subseteq Providers /\ limit' = limit
  BY <1>1 DEF IInv, TypeOK, gridVars
<1> QED BY <1>2, <1>3, <1>4, <1>5, <1>6, Together

LEMMA ManualSound ==
  ASSUME IInv, NEW a \in actors, NEW on \in BOOLEAN, Manual(a, on)
  PROVE  IInv'
<1> DEFINE command == Command(on /\ IsAllowed(ActorType[a].priority))
           w == SendSwitch(a, Work(a), command)
           b == unit[a].loadShedOff
           v == Becomes(w, command, b)
<1>1. /\ unit' = [unit EXCEPT ![a] = v.unit]
      /\ wire' = [wire EXCEPT ![a] = IF w.switch = None THEN @ ELSE w.switch]
      /\ remoteWire' = [remoteWire EXCEPT ![a] = IF w.remote = None THEN @ ELSE w.remote]
  BY DEF Manual, CommandManual
<1>2. /\ UNCHANGED <<actors, remote, newer, device, actual, shedVars, levelVars>>
      /\ UNCHANGED <<poolVars, gridVars, fired, limit>> /\ Spend("users")
  BY DEF Manual, CommandManual
<1>3. a \in ActorNames /\ TypeOK BY DEF IInv, TypeOK, ActorsTypeOK
<1>4. command \in Commands /\ command \in Maybe BY DEF Command, Commands, Maybe
<1>5. Work(a) \in Works /\ b \in BOOLEAN /\ a \in Units BY <1>3, WorkBegins DEF Unit
<1> HIDE DEF command
<1>6. w \in Works BY <1>3, <1>4, <1>5, SwitchSent
<1> HIDE DEF w, b
<1>7. v \in Works /\ v.unit.loadShedOff = b BY <1>4, <1>5, <1>6, Became
<1> HIDE DEF v
<1>8. ActorsTypeOK' /\ OnlySheddable'
  <2>1. unit \in [ActorNames -> Unit] /\ remoteWire \in [ActorNames -> Maybe]
    BY DEF IInv, TypeOK, ActorsTypeOK, Unit, Maybe
  <2>2. v.unit \in Unit /\ w.remote \in Maybe BY <1>6, <1>7 DEF Works
  <2>3. unit' \in [ActorNames -> Unit] /\ remoteWire' \in [ActorNames -> Maybe]
    BY <1>1, <2>1, <2>2
  <2>4. ASSUME NEW c \in ActorNames, unit'[c].loadShedOff PROVE ActorType[c].sheds
    <3>1. CASE c = a BY <1>1, <1>3, <1>7, <2>1, <2>4, <3>1 DEF b, IInv, OnlySheddable
    <3>2. CASE c # a BY <1>1, <2>1, <2>4, <3>2 DEF IInv, OnlySheddable
    <3> QED BY <3>1, <3>2
  <2>5. OnlySheddable' BY <2>4 DEF OnlySheddable
  <2> QED BY <1>2, <2>3, <2>5 DEF IInv, TypeOK, ActorsTypeOK, Unit, Maybe
<1>9. OutletsTypeOK'
  <2>1. w.switch \in Maybe BY <1>6 DEF Works
  <2>2. wire \in [Units -> Maybe] BY DEF IInv, TypeOK, OutletsTypeOK, Maybe
  <2>3. wire' \in [Units -> Maybe] BY <1>1, <1>5, <2>1, <2>2
  <2> QED BY <1>2, <2>3 DEF IInv, TypeOK, OutletsTypeOK, Maybe
<1>10. ShedTypeOK' /\ LevelTypeOK' /\ PoolTypeOK' BY <1>2, Frame
<1>11. Counted' BY <1>2, SpendCounted DEF Kinds
<1>12. /\ load' \in [Phases -> Loads] /\ active' \in BOOLEAN /\ setup' = setup
       /\ fired' \subseteq Providers /\ limit' = limit
  BY <1>2 DEF IInv, TypeOK, gridVars, poolVars
<1> QED BY <1>8, <1>9, <1>10, <1>11, <1>12, Together

LEMMA PressModeSound ==
  ASSUME IInv, NEW p \in Pumps, NEW m \in Modes, PressMode(p, m)
  PROVE  IInv'
<1>1. /\ UNCHANGED <<outletVars, shedVars, levelVars, actorVars, gridVars, fired, limit>>
      /\ mode' = [mode EXCEPT ![p] = m] /\ pump' = [pump EXCEPT ![p].hold = 0]
      /\ sampling' = IF p = "solar" THEN NoSampling ELSE sampling
      /\ UNCHANGED <<setup, sun, hot, due, tick>> /\ Spend("users")
  BY DEF PressMode, SetPumpMode
<1>2. 0 \in 0..Hold /\ 0 \in 0..SampleTime /\ 0 \in 0..SamplePause
  BY PoolAssumption DEF PoolAssumption
<1>3. pump \in [Pumps -> PumpState] /\ sampling \in Sampled BY PoolBegins DEF IInv
<1>4. pump' \in [Pumps -> PumpState] BY <1>1, <1>2, <1>3 DEF PumpState
<1>5. sampling' \in Sampled BY <1>1, <1>2, <1>3 DEF NoSampling, Sampled
<1>6. mode' \in [Pumps -> Modes] BY <1>1 DEF IInv, TypeOK, PoolTypeOK
<1>7. PoolTypeOK'
  BY <1>1, <1>4, <1>5, <1>6 DEF IInv, TypeOK, PoolTypeOK, PumpState, Sampled, Maybe
<1>8. OutletsTypeOK' /\ ShedTypeOK' /\ LevelTypeOK' /\ ActorsTypeOK' /\ OnlySheddable'
  BY <1>1, Frame
<1>9. Counted' BY <1>1, SpendCounted DEF Kinds
<1>10. /\ load' \in [Phases -> Loads] /\ active' \in BOOLEAN /\ setup' = setup
       /\ fired' \subseteq Providers /\ limit' = limit
  BY <1>1 DEF IInv, TypeOK, gridVars
<1> QED BY <1>7, <1>8, <1>9, <1>10, Together

LEMMA LevelsSound ==
  ASSUME IInv, NEW l \in Levels, ChangeLevel(l)
  PROVE  IInv'
<1>1. /\ UNCHANGED <<outletVars, shedVars, actorVars, poolVars, gridVars, fired, limit>>
      /\ operatingLevel' = l /\ saving' = saving + 1 /\ UNCHANGED <<currentLevel, registered>>
      /\ Spend("levels")
  BY DEF ChangeLevel, SetOperatingLevel
<1>2. LevelTypeOK' BY <1>1 DEF IInv, TypeOK, LevelTypeOK
<1>3. OutletsTypeOK' /\ ShedTypeOK' /\ PoolTypeOK' /\ ActorsTypeOK' /\ OnlySheddable'
  BY <1>1, Frame
<1>4. Counted' BY <1>1, SpendCounted DEF Kinds
<1>5. /\ load' \in [Phases -> Loads] /\ active' \in BOOLEAN /\ setup' = setup
      /\ fired' \subseteq Providers /\ limit' = limit
  BY <1>1 DEF IInv, TypeOK, gridVars, poolVars
<1> QED BY <1>2, <1>3, <1>4, <1>5, Together

LEMMA ForcedTyped ==
  ASSUME TypeOK, NEW a \in ActorNames
  PROVE  Forced(a) \in Works /\ Forced(a).unit.loadShedOff = unit[a].loadShedOff
<1> DEFINE w == SendSwitch(a, Work(a), "off")
<1>1. "off" \in Commands /\ "off" \in Maybe BY DEF Commands, Maybe
<1>2. Work(a) \in Works /\ Work(a).unit = unit[a] BY WorkBegins DEF Work
<1>3. w \in Works /\ w.unit.loadShedOff = unit[a].loadShedOff
  BY <1>1, <1>2, SwitchSent
<1>4. Forced(a) = [w EXCEPT !.unit.output = "off"] BY DEF Forced
<1> HIDE DEF w
<1> QED BY <1>1, <1>3, <1>4 DEF Works, Unit

LEMMA LevelChangedSound ==
  ASSUME IInv, LevelChanged
  PROVE  IInv'
<1> DEFINE off == MustTurnOff(operatingLevel)
           S == off \cap ActorNames
           work == [a \in S |-> Forced(a)]
<1>1. /\ LevelSaved
      /\ unit' = [a \in ActorNames |-> IF a \in off THEN work[a].unit ELSE unit[a]]
      /\ pump' = [p \in Pumps |-> IF p \in off THEN ForcedPump(p) ELSE pump[p]]
      /\ Publish([u \in Units |-> IF u \notin off THEN None
                                  ELSE IF u \in Pumps THEN "off" ELSE work[u].switch])
      /\ remoteWire' = [a \in ActorNames |->
           IF a \in off /\ work[a].remote # None THEN work[a].remote ELSE remoteWire[a]]
      /\ UNCHANGED <<device, actual, shedVars, actors, remote, newer, setup, sun, hot, due,
                     mode, sampling, tick, gridVars, fired, limit, used>>
  <2>1. PICK o \in {MustTurnOff(operatingLevel)} :
          \E f \in {[a \in o \cap ActorNames |-> Forced(a)]} :
          /\ unit' = [a \in ActorNames |-> IF a \in o THEN f[a].unit ELSE unit[a]]
          /\ pump' = [p \in Pumps |-> IF p \in o THEN ForcedPump(p) ELSE pump[p]]
          /\ Publish([u \in Units |-> IF u \notin o THEN None
                                      ELSE IF u \in Pumps THEN "off" ELSE f[u].switch])
          /\ remoteWire' = [a \in ActorNames |->
               IF a \in o /\ f[a].remote # None THEN f[a].remote ELSE remoteWire[a]]
    BY DEF LevelChanged
  <2>2. o = off OBVIOUS
  <2>3. [a \in o \cap ActorNames |-> Forced(a)] = work BY <2>2
  <2>4. LevelSaved /\ UNCHANGED <<device, actual, shedVars, actors, remote, newer, setup, sun,
                                  hot, due, mode, sampling, tick, gridVars, fired, limit, used>>
    BY DEF LevelChanged
  <2> HIDE DEF off, work
  <2> QED BY <2>1, <2>2, <2>3, <2>4
<1>2. \A a \in S : work[a] = Forced(a) OBVIOUS
<1>3. \A a \in S : work[a] \in Works /\ work[a].unit.loadShedOff = unit[a].loadShedOff
  BY <1>2, ForcedTyped DEF IInv
<1> HIDE DEF work
<1>4. \A a \in ActorNames : a \in off <=> a \in S OBVIOUS
<1>5. /\ unit' = [a \in ActorNames |-> IF a \in S THEN work[a].unit ELSE unit[a]]
      /\ remoteWire' = [a \in ActorNames |->
           IF a \in S /\ work[a].remote # None THEN work[a].remote ELSE remoteWire[a]]
  BY <1>1, <1>4
<1>6. ActorsTypeOK' /\ OnlySheddable'
  <2>1. \A a \in S : work[a] \in Works /\ (work[a].unit.loadShedOff => ActorType[a].sheds)
    BY <1>3 DEF IInv, OnlySheddable
  <2>2. S \subseteq ActorNames /\ UNCHANGED <<actors, remote, newer>> BY <1>1
  <2> HIDE DEF S
  <2> QED BY <1>5, <2>1, <2>2, WorkTyped
<1>7. OutletsTypeOK'
  <2> DEFINE sent == [u \in Units |-> IF u \notin off THEN None
                                      ELSE IF u \in Pumps THEN "off" ELSE work[u].switch]
  <2>1. Units = ActorNames \cup Pumps BY ManagementAssumption DEF ManagementAssumption
  <2>2. ASSUME NEW u \in Units PROVE sent[u] \in Maybe
    <3>1. CASE u \in S BY <1>3, <3>1, Commanded DEF Works, Maybe
    <3>2. CASE u \notin S BY <2>1, <3>2, Commanded DEF Maybe
    <3> QED BY <3>1, <3>2
  <2>3. Publish(sent) BY <1>1
  <2> HIDE DEF sent
  <2> QED BY <1>1, <2>2, <2>3, PublishTyped
<1>8. LevelTypeOK' BY <1>1 DEF LevelSaved, IInv, TypeOK, LevelTypeOK
<1>9. PoolTypeOK'
  <2>1. pump \in [Pumps -> PumpState] BY PoolBegins DEF IInv
  <2>2. Hold \in 0..Hold BY PoolAssumption DEF PoolAssumption
  <2>3. \A p \in Pumps : ForcedPump(p) \in PumpState
    BY <2>1, <2>2, Commanded DEF ForcedPump, PumpState
  <2>4. pump' \in [Pumps -> PumpState] BY <1>1, <2>1, <2>3
  <2> QED BY <1>1, <2>4 DEF IInv, TypeOK, PoolTypeOK, PumpState, Maybe
<1>10. ShedTypeOK' BY <1>1, Frame
<1>11. Counted' BY <1>1, SameCounted
<1>12. /\ load' \in [Phases -> Loads] /\ active' \in BOOLEAN /\ setup' = setup
       /\ fired' \subseteq Providers /\ limit' = limit
  BY <1>1 DEF IInv, TypeOK, gridVars
<1> QED BY <1>6, <1>7, <1>8, <1>9, <1>10, <1>11, <1>12, Together

LEMMA HouseSound ==
  ASSUME IInv,
         \/ \E p \in Phases, l \in Loads : ChangeLoad(p, l)
         \/ Toggle \/ Weather
  PROVE  IInv'
<1>1. UNCHANGED <<outletVars, shedVars, levelVars, actorVars, fired, limit, setup>>
  BY DEF ChangeLoad, Toggle, Weather, poolVars
<1>2. OutletsTypeOK' /\ ShedTypeOK' /\ LevelTypeOK' /\ ActorsTypeOK' /\ OnlySheddable'
  BY <1>1, Frame
<1>3. load \in [Phases -> Loads] /\ active \in BOOLEAN /\ PoolTypeOK
  BY DEF IInv, TypeOK
<1>4. fired' \subseteq Providers /\ limit' = limit /\ setup' = setup
  BY <1>1 DEF IInv, TypeOK
<1>5. CASE \E p \in Phases, l \in Loads : ChangeLoad(p, l)
  <2>1. load' \in [Phases -> Loads] /\ active' \in BOOLEAN BY <1>3, <1>5 DEF ChangeLoad
  <2>2. PoolTypeOK' BY <1>5, Frame DEF ChangeLoad
  <2>3. Counted' BY <1>1, <1>5, SpendCounted DEF ChangeLoad, Kinds
  <2> QED BY <1>2, <1>4, <2>1, <2>2, <2>3, Together
<1>6. CASE Toggle
  <2>1. load' \in [Phases -> Loads] /\ active' \in BOOLEAN BY <1>3, <1>6 DEF Toggle
  <2>2. PoolTypeOK' BY <1>6, Frame DEF Toggle
  <2>3. Counted' BY <1>1, <1>6, SpendCounted DEF Toggle, Kinds
  <2> QED BY <1>2, <1>4, <2>1, <2>2, <2>3, Together
<1>7. CASE Weather
  <2>1. load' \in [Phases -> Loads] /\ active' \in BOOLEAN
    BY <1>3, <1>7 DEF Weather, gridVars
  <2>2. PoolTypeOK'
    <3>1. UNCHANGED <<setup, mode, pump, sampling, tick>> BY <1>7 DEF Weather
    <3>2. sun' \in BOOLEAN /\ hot' \in BOOLEAN /\ due' \in BOOLEAN
      BY <1>3, <1>7 DEF Weather, PoolTypeOK
    <3> QED BY <1>3, <3>1, <3>2 DEF PoolTypeOK
  <2>3. Counted' BY <1>1, <1>7, SpendCounted DEF Weather, Kinds
  <2> QED BY <1>2, <1>4, <2>1, <2>2, <2>3, Together
<1> QED BY <1>5, <1>6, <1>7

LEMMA OutletsSound ==
  ASSUME IInv, NEW u \in Units,
         Executed(u) \/ Lost(u) \/ SwitchedByHand(u) \/ Reported(u)
  PROVE  IInv'
<1>1. UNCHANGED <<shedVars, levelVars, actors, unit, remote, remoteWire, poolVars, gridVars,
                  fired, limit>>
  BY DEF Executed, Lost, SwitchedByHand, Reported, OutletStep
<1>2. ShedTypeOK' /\ LevelTypeOK' /\ PoolTypeOK' BY <1>1, Frame
<1>3. OutletsTypeOK'
  <2>1. "off" \in Commands /\ \A b \in BOOLEAN : Command(b) \in Commands
    BY DEF Commands, Command
  <2>2. OutletsTypeOK BY DEF IInv, TypeOK
  <2>3. CASE Executed(u)
    BY <2>2, <2>3 DEF Executed, Execute, OutletsTypeOK
  <2>4. CASE Lost(u) BY <2>2, <2>4 DEF Lost, Lose, OutletsTypeOK
  <2>5. CASE SwitchedByHand(u)
    <3> DEFINE c == Command(device[u] = "off")
    <3>1. c \in Commands BY <2>1
    <3>2. device' = [device EXCEPT ![u] = c] /\ UNCHANGED <<wire, actual>>
      BY <2>5 DEF SwitchedByHand, ByHand
    <3> HIDE DEF c
    <3> QED BY <2>2, <3>1, <3>2 DEF OutletsTypeOK
  <2>6. CASE Reported(u) BY <2>2, <2>6 DEF Reported, Report, OutletsTypeOK
  <2> QED BY <2>3, <2>4, <2>5, <2>6
<1>4. ActorsTypeOK' /\ OnlySheddable'
  <2>1. newer' = newer \/ newer' = [newer EXCEPT ![u] = "actual"]
    BY DEF Executed, Lost, SwitchedByHand, Reported
  <2>2. newer' \in [ActorNames -> {"actual", "remote"}]
    BY <2>1 DEF IInv, TypeOK, ActorsTypeOK
  <2> QED BY <1>1, <2>2 DEF IInv, TypeOK, ActorsTypeOK, OnlySheddable
<1>5. Counted'
  <2>1. CASE Executed(u) \/ Reported(u)
    BY <1>1, <2>1, SameCounted DEF Executed, Reported
  <2>2. CASE Lost(u) BY <1>1, <2>2, SpendCounted DEF Lost, Kinds
  <2>3. CASE SwitchedByHand(u) BY <1>1, <2>3, SpendCounted DEF SwitchedByHand, Kinds
  <2> QED BY <2>1, <2>2, <2>3
<1>6. /\ load' \in [Phases -> Loads] /\ active' \in BOOLEAN /\ setup' = setup
      /\ fired' \subseteq Providers /\ limit' = limit
  BY <1>1 DEF IInv, TypeOK, gridVars, poolVars
<1> QED BY <1>2, <1>3, <1>4, <1>5, <1>6, Together

LEMMA RemoteSound ==
  ASSUME IInv, NEW a \in actors,
         (\E value \in Commands : RemoteUser(a, value)) \/ RemoteAnswer(a)
  PROVE  IInv'
<1>1. UNCHANGED <<outletVars, shedVars, levelVars, poolVars, gridVars, fired, limit>>
  BY DEF RemoteUser, RemoteAnswer
<1>2. OutletsTypeOK' /\ ShedTypeOK' /\ LevelTypeOK' /\ PoolTypeOK' BY <1>1, Frame
<1>3. ActorsTypeOK BY DEF IInv, TypeOK
<1>4. ActorsTypeOK' /\ OnlySheddable'
  <2>1. CASE \E value \in Commands : RemoteUser(a, value)
    BY <1>3, <2>1 DEF RemoteUser, RemoteSet, ActorsTypeOK, IInv, OnlySheddable
  <2>2. CASE RemoteAnswer(a)
    <3>1. remoteWire[a] \in Commands \cup {None} BY <1>3 DEF ActorsTypeOK
    <3> QED BY <1>3, <2>2, <3>1
            DEF RemoteAnswer, RemoteArrives, ActorsTypeOK, IInv, OnlySheddable
  <2> QED BY <2>1, <2>2
<1>5. Counted'
  <2>1. CASE \E value \in Commands : RemoteUser(a, value)
    BY <1>1, <2>1, SpendCounted DEF RemoteUser, Kinds
  <2>2. CASE RemoteAnswer(a) BY <2>2, SameCounted DEF RemoteAnswer
  <2> QED BY <2>1, <2>2
<1>6. /\ load' \in [Phases -> Loads] /\ active' \in BOOLEAN /\ setup' = setup
      /\ fired' \subseteq Providers /\ limit' = limit
  BY <1>1 DEF IInv, TypeOK, gridVars, poolVars
<1> QED BY <1>2, <1>4, <1>5, <1>6, Together

LEMMA PassSound ==
  ASSUME IInv, Pass
  PROVE  IInv'
<1>1. UNCHANGED <<outletVars, levelVars, gridVars, limit, used, setup>>
      /\ fired' \subseteq Providers
  BY DEF Pass, PoolPass, Running
<1>2. \A m \in Nat : \A n \in 0..m : Less(n) \in 0..m BY DEF Less
<1>3. ShedTypeOK'
  <2>1. stage \in [Phases -> Stage] BY DEF IInv, TypeOK, ShedTypeOK, Stage
  <2>2. stage' = [p \in Phases |-> [stage[p] EXCEPT !.escalate = Less(@), !.recover = Less(@)]]
        /\ UNCHANGED participants
    BY DEF Pass, ShedPass
  <2>3. ASSUME NEW p \in Phases
        PROVE  [stage[p] EXCEPT !.escalate = Less(@), !.recover = Less(@)] \in Stage
    <3> DEFINE x == Less(stage[p].escalate)
               y == Less(stage[p].recover)
    <3>1. x \in 0..Settle /\ y \in 0..Recover BY <1>2, <2>1, Shedding DEF Stage
    <3> HIDE DEF x, y
    <3>2. [stage[p] EXCEPT !.escalate = x, !.recover = y] \in Stage BY <2>1, <3>1 DEF Stage
    <3> QED BY <3>2 DEF x, y
  <2>4. stage' \in [Phases -> Stage] BY <2>2, <2>3
  <2> QED BY <2>2, <2>4 DEF IInv, TypeOK, ShedTypeOK, Stage
<1>4. ActorsTypeOK' /\ OnlySheddable'
  <2>1. unit \in [ActorNames -> Unit] BY DEF IInv, TypeOK, ActorsTypeOK, Unit, Maybe
  <2>2. unit' = [a \in ActorNames |-> [unit[a] EXCEPT !.pendingSwitch = Lesser(@),
                                                      !.pendingRemote = Lesser(@)]]
        /\ UNCHANGED <<actors, remote, newer, remoteWire>>
    BY DEF Pass, ActorsPass
  <2>3. ASSUME NEW a \in ActorNames
        PROVE  /\ unit'[a] \in Unit
               /\ unit'[a].loadShedOff = unit[a].loadShedOff
    <3> DEFINE x == Lesser(unit[a].pendingSwitch)
               y == Lesser(unit[a].pendingRemote)
    <3>1. x \in Pending /\ y \in Pending BY <2>1, LessWaits DEF Unit
    <3>2. unit'[a] = [unit[a] EXCEPT !.pendingSwitch = x, !.pendingRemote = y] BY <2>2
    <3> HIDE DEF x, y
    <3> QED BY <2>1, <3>1, <3>2 DEF Unit
  <2>4. unit' \in [ActorNames -> Unit]
    <3>1. unit' = [a \in ActorNames |-> unit'[a]] BY <2>2
    <3> QED BY <2>3, <3>1
  <2>5. OnlySheddable' BY <2>3 DEF IInv, OnlySheddable
  <2> QED BY <2>2, <2>4, <2>5 DEF IInv, TypeOK, ActorsTypeOK, Unit, Maybe
<1>5. PoolTypeOK'
  <2>1. pump \in [Pumps -> PumpState] /\ sampling \in Sampled BY PoolBegins DEF IInv
  <2>2. /\ pump' = [p \in Pumps |-> [pump[p] EXCEPT !.hold = Less(@)]]
        /\ sampling' = [sampling EXCEPT !.left = Less(@), !.pause = Less(@)]
        /\ UNCHANGED <<setup, sun, hot, due, mode, tick>>
    BY DEF Pass, PoolPass
  <2>3. Hold \in Nat /\ SampleTime \in Nat /\ SamplePause \in Nat
    BY PoolAssumption DEF PoolAssumption
  <2>4. ASSUME NEW p \in Pumps PROVE [pump[p] EXCEPT !.hold = Less(@)] \in PumpState
    <3> DEFINE x == Less(pump[p].hold)
    <3>1. x \in 0..Hold BY <1>2, <2>1, <2>3 DEF PumpState
    <3> HIDE DEF x
    <3>2. [pump[p] EXCEPT !.hold = x] \in PumpState BY <2>1, <3>1 DEF PumpState
    <3> QED BY <3>2 DEF x
  <2>5. sampling' \in Sampled
    <3> DEFINE x == Less(sampling.left)
               y == Less(sampling.pause)
    <3>1. x \in 0..SampleTime /\ y \in 0..SamplePause BY <1>2, <2>1, <2>3 DEF Sampled
    <3>2. sampling' = [sampling EXCEPT !.left = x, !.pause = y] BY <2>2
    <3> HIDE DEF x, y
    <3> QED BY <2>1, <3>1, <3>2 DEF Sampled
  <2>6. pump' \in [Pumps -> PumpState] BY <2>2, <2>4
  <2> QED BY <2>2, <2>5, <2>6 DEF IInv, TypeOK, PoolTypeOK, PumpState, Sampled, Maybe
<1>6. OutletsTypeOK' /\ LevelTypeOK' BY <1>1, Frame
<1>7. Counted' BY <1>1, SameCounted
<1>8. /\ load' \in [Phases -> Loads] /\ active' \in BOOLEAN /\ setup' = setup
      /\ fired' \subseteq Providers /\ limit' = limit
  BY <1>1 DEF IInv, TypeOK, gridVars
<1> QED BY <1>3, <1>4, <1>5, <1>6, <1>7, <1>8, Together

LEMMA NextSound == IInv /\ [Next]_vars => IInv'
<1> SUFFICES ASSUME IInv, [Next]_vars PROVE IInv' OBVIOUS
<1>1. CASE ActorsTick BY <1>1, ActorsTickSound
<1>2. CASE PoolTick \/ PoolResume BY <1>2, PoolTickSound, PoolResumeSound
<1>3. CASE LevelChanged BY <1>3, LevelChangedSound
<1>4. CASE Toggle \/ Weather \/ (\E p \in Phases, l \in Loads : ChangeLoad(p, l))
  BY <1>4, HouseSound
<1>5. CASE Pass BY <1>5, PassSound
<1>6. CASE \E l \in Levels : ChangeLevel(l) BY <1>6, LevelsSound
<1>7. CASE \/ \E a \in actors : \E on \in BOOLEAN : Manual(a, on)
           \/ \E a \in actors : \E value \in Commands : RemoteUser(a, value)
           \/ \E a \in actors : RemoteAnswer(a)
  BY <1>7, ManualSound, RemoteSound
<1>8. CASE \E p \in Pumps, m \in Modes : PressMode(p, m) BY <1>8, PressModeSound
<1>9. CASE \E u \in Present : Executed(u) \/ Lost(u) \/ SwitchedByHand(u) \/ Reported(u)
  <2>1. Present \subseteq Units
    BY ManagementAssumption
       DEF ManagementAssumption, Present, IInv, TypeOK, ActorsTypeOK, PoolTypeOK
  <2> QED BY <1>9, <2>1, OutletsSound
<1>10. CASE UNCHANGED vars
  BY <1>10 DEF vars, IInv, TypeOK, OutletsTypeOK, ShedTypeOK, LevelTypeOK, ActorsTypeOK,
     PoolTypeOK, OnlySheddable, outletVars, shedVars, levelVars, actorVars, poolVars, gridVars
<1> QED BY <1>1, <1>2, <1>3, <1>4, <1>5, <1>6, <1>7, <1>8, <1>9, <1>10 DEF Next

\* TypeOK: every priority, time and command of the controllers keeps its range, the
\* doubled pauses of automation.js stop at PENDING_RETRY_MAX_MS.
THEOREM TypesHold == Spec => []TypeOK
<1>1. IInv => TypeOK BY DEF IInv
<1> QED BY <1>1, InitSound, NextSound, PTL DEF Spec

-----------------------------------------------------------------------------
\* Only a pass of a controller moves a stage, and it moves it by updateStages.
LEMMA TickMoves ==
  ASSUME IInv, ActorsTick \/ PoolTick, NEW p \in Phases
  PROVE  /\ PrioritiesForPhase(p, participants') \subseteq Priorities
         /\ stage[p] \in Stage /\ load[p] \in Loads
         /\ stage'[p] = IF active
                        THEN UpdateStage(stage[p], load[p], PrioritiesForPhase(p, participants'))
                        ELSE stage[p]
<1>1. participants' \in [Providers -> SUBSET Participants] BY ActorsRegister, PoolRegisters
<1>2. PrioritiesForPhase(p, participants') \subseteq Priorities BY <1>1, Registered
<1>3. stage' = IF active THEN Updated(load, participants') ELSE stage
  BY DEF ActorsTick, PoolTick, TickActors, TickPool
<1>4. stage[p] \in Stage /\ load[p] \in Loads BY DEF IInv, TypeOK, ShedTypeOK, Stage
<1> QED BY <1>2, <1>3, <1>4 DEF Updated

LEMMA Cutoffs ==
  ASSUME IInv, NEW p \in Phases
  PROVE  stage[p].cutoff = NoCutoff \/ stage[p].cutoff \in Nat
<1>1. stage[p] \in Stage BY DEF IInv, TypeOK, ShedTypeOK, Stage
<1>2. stage[p].cutoff \in Priorities \cup {NoCutoff} BY <1>1 DEF Stage
<1>3. Priorities \subseteq Nat BY ShedAssumption DEF ShedAssumption
<1> QED BY <1>2, <1>3

LEMMA OthersKeep ==
  ASSUME IInv, [Next]_vars, ~(ActorsTick \/ PoolTick), NEW p \in Phases
  PROVE  stage'[p].cutoff = stage[p].cutoff
<1>1. CASE UNCHANGED vars BY <1>1 DEF vars, shedVars
<1>2. CASE \/ Toggle \/ Weather \/ LevelChanged
           \/ \E l \in Levels : ChangeLevel(l)
           \/ \E q \in Phases, l \in Loads : ChangeLoad(q, l)
           \/ \E q \in Pumps, m \in Modes : PressMode(q, m)
           \/ PoolResume
  BY <1>2 DEF PoolResume, ResumePool, Toggle, Weather, LevelChanged, ChangeLevel, ChangeLoad, PressMode, shedVars
<1>3. CASE \/ \E a \in actors : \E on \in BOOLEAN : Manual(a, on)
           \/ \E a \in actors : \E value \in Commands : RemoteUser(a, value)
           \/ \E a \in actors : RemoteAnswer(a)
  BY <1>3 DEF Manual, CommandManual, RemoteUser, RemoteAnswer, shedVars
<1>4. CASE \E u \in Present : Executed(u) \/ Lost(u) \/ SwitchedByHand(u) \/ Reported(u)
  BY <1>4 DEF Executed, Lost, SwitchedByHand, Reported, OutletStep, shedVars
<1>5. CASE Pass
  <2>1. stage \in [Phases -> Stage] BY DEF IInv, TypeOK, ShedTypeOK, Stage
  <2>2. stage' = [q \in Phases |-> [stage[q] EXCEPT !.escalate = Less(@), !.recover = Less(@)]]
    BY <1>5 DEF Pass, ShedPass
  <2> QED BY <2>1, <2>2 DEF Stage
<1> QED BY <1>1, <1>2, <1>3, <1>4, <1>5 DEF Next

\* What has been taken off because of the load stays registered: the pass of
\* its controller lists it again, a pass of the other one leaves the list alone.
LEMMA StillRegistered ==
  ASSUME IInv, ActorsTick \/ PoolTick, active, NEW u \in Present, TakenOff(u),
         NEW p \in PhasesOf(u)
  PROVE  PrioritiesForPhase(p, participants') # {}
<1> SUFFICES \E k \in Providers : \E r \in participants'[k] : p \in r.phases
  BY DEF PrioritiesForPhase
<1>1. actors \subseteq ActorNames /\ setup.topics \subseteq Pumps /\ ActorNames \cap Pumps = {}
  BY ManagementAssumption DEF ManagementAssumption, IInv, TypeOK, ActorsTypeOK, PoolTypeOK
<1>2. participants \in [Providers -> SUBSET Participants] BY DEF IInv, TypeOK, ShedTypeOK
<1>3. CASE ActorsTick /\ u \notin Pumps
  <2>1. u \in actors /\ unit[u].loadShedOff /\ PhasesOf(u) = ActorType[u].phases
    BY <1>1, <1>3 DEF Present, TakenOff, PhasesOf
  <2>2. u \in Sheddable(active) BY <1>1, <2>1 DEF Sheddable, IInv, OnlySheddable
  <2> DEFINE r == [phases |-> ActorType[u].phases, priority |-> ActorType[u].priority]
  <2>3. participants' = RegisterProvider("messschalt",
          {[phases |-> ActorType[a].phases, priority |-> ActorType[a].priority] :
             a \in Sheddable(active)})
    BY <1>3 DEF ActorsTick, TickActors
  <2>4. r \in participants'["messschalt"]
    BY <1>2, <2>2, <2>3, BothProviders DEF RegisterProvider
  <2> QED BY <2>1, <2>4, BothProviders
<1>4. CASE PoolTick /\ u \in Pumps
  <2>1. u \in setup.topics /\ pump[u].loadShedOff /\ PhasesOf(u) = PumpPhases[u]
    BY <1>1, <1>4 DEF Present, TakenOff, PhasesOf
  <2> DEFINE r == [phases |-> PumpPhases[u], priority |-> EffectivePriority(Begun(active), u)]
  <2>2. r \in PoolParticipants(Begun(active))
    <3>1. Begun(active).pump[u].loadShedOff
      <4>1. pump \in [Pumps -> PumpState] BY PoolBegins DEF IInv
      <4> QED BY <1>4, <2>1, <4>1 DEF Begun, PoolWork, PumpState
    <3> QED BY <2>1, <3>1 DEF PoolParticipants
  <2>3. participants' = RegisterProvider("pool", PoolParticipants(Begun(active)))
    BY <1>4, PoolTickBegins
  <2>4. r \in participants'["pool"] BY <1>2, <2>2, <2>3, BothProviders DEF RegisterProvider
  <2> QED BY <2>1, <2>4, BothProviders
<1>5. CASE \/ ActorsTick /\ u \in Pumps
           \/ PoolTick /\ u \notin Pumps
  <2> DEFINE k == IF u \in Pumps THEN "pool" ELSE "messschalt"
             r == [phases |-> PhasesOf(u),
                   priority |-> IF u \in Pumps THEN PumpPriority[u] ELSE ActorType[u].priority]
  <2>1. r \in participants[k] BY DEF TakenOff
  <2>2. participants'[k] = participants[k] /\ k \in Providers
    BY <1>2, <1>5, BothProviders
       DEF ActorsTick, PoolTick, TickActors, TickPool, RegisterProvider
  <2> QED BY <2>1, <2>2
<1> QED BY <1>3, <1>4, <1>5

\* PausedRelease: with a consumer of its phase still off because of the load, a
\* stage opens only under a low load and after LOAD_SHED_RECOVER_MS, whichever
\* of the two controllers runs updateStages.
THEOREM StagesOpenSlowly == Spec => PausedRelease
<1> DEFINE A == \A p \in Phases :
                  /\ active /\ stage[p].cutoff # NoCutoff
                  /\ stage'[p].cutoff = NoCutoff \/ stage'[p].cutoff > stage[p].cutoff
                  /\ \E u \in Present : TakenOff(u) /\ p \in PhasesOf(u)
                  => load[p] = "low" /\ stage[p].recover = 0
<1>1. ASSUME IInv, [Next]_vars PROVE A
  <2> SUFFICES ASSUME NEW p \in Phases, active, stage[p].cutoff # NoCutoff,
                      stage'[p].cutoff = NoCutoff \/ stage'[p].cutoff > stage[p].cutoff,
                      NEW u \in Present, TakenOff(u), p \in PhasesOf(u)
               PROVE  load[p] = "low" /\ stage[p].recover = 0
    OBVIOUS
  <2>1. ActorsTick \/ PoolTick
    <3>1. stage[p].cutoff \in Nat BY <1>1, Cutoffs
    <3> QED BY <1>1, <3>1, OthersKeep
  <2>2. PrioritiesForPhase(p, participants') # {} BY <1>1, <2>1, StillRegistered
  <2> QED BY <1>1, <2>1, <2>2, TickMoves, StageMoves
<1>2. IInv /\ [Next]_vars => A BY <1>1
<1> QED BY <1>2, InitSound, NextSound, PTL DEF Spec, PausedRelease

\* StepwiseShed: a stage closes only above the maximum and after
\* LOAD_SHED_SETTLE_MS, by one priority: the greatest one registered that it
\* did not cover yet.
THEOREM StagesCloseStepwise == Spec => StepwiseShed
<1> DEFINE A == \A p \in Phases :
                  /\ stage'[p].cutoff # NoCutoff
                  /\ stage[p].cutoff = NoCutoff \/ stage'[p].cutoff < stage[p].cutoff
                  => /\ active /\ load[p] = "over" /\ stage[p].escalate = 0
                     /\ stage'[p].cutoff \in PrioritiesForPhase(p, participants')
                     /\ \A q \in PrioritiesForPhase(p, participants') :
                          stage[p].cutoff = NoCutoff \/ q < stage[p].cutoff
                            => q <= stage'[p].cutoff
<1>1. ASSUME IInv, [Next]_vars PROVE A
  <2> SUFFICES ASSUME NEW p \in Phases, stage'[p].cutoff # NoCutoff,
                      stage[p].cutoff = NoCutoff \/ stage'[p].cutoff < stage[p].cutoff
               PROVE  /\ active /\ load[p] = "over" /\ stage[p].escalate = 0
                      /\ stage'[p].cutoff \in PrioritiesForPhase(p, participants')
                      /\ \A q \in PrioritiesForPhase(p, participants') :
                           stage[p].cutoff = NoCutoff \/ q < stage[p].cutoff
                             => q <= stage'[p].cutoff
    OBVIOUS
  <2>1. stage[p].cutoff = NoCutoff \/ stage[p].cutoff \in Nat BY <1>1, Cutoffs
  <2>2. ActorsTick \/ PoolTick BY <1>1, <2>1, OthersKeep
  <2>3. active BY <1>1, <2>1, <2>2, TickMoves
  <2> QED BY <1>1, <2>2, <2>3, TickMoves, StageMoves
<1>2. IInv /\ [Next]_vars => A BY <1>1
<1> QED BY <1>2, InitSound, NextSound, PTL DEF Spec, StepwiseShed

\* PassObeys: after a pass every actor that must be off counts as off, has been
\* told so or waits for the answer, and got no command on; no pump counts as on
\* at the end of a pass of the pool while its load is shed.
THEOREM PassesObey == Spec => PassObeys
<1> DEFINE A == /\ ActorsTick => \A a \in actors : MustBeOff(a) =>
                     /\ unit'[a].output = "off"
                     /\ wire'[a] = "on" => wire[a] = "on"
                     /\ actual[a] = "on" =>
                          wire'[a] = "off" \/ IsPending(unit'[a].pendingSwitch, "off")
                /\ ShedPassEnds => \A p \in Pumps : pump'[p].output = "on" =>
                     ~ShouldShed(stage', PumpPhases[p],
                                 PumpPriority[IF sampling'.byFilter THEN "solar" ELSE p])
<1>1. ASSUME IInv, ActorsTick, NEW a \in actors, MustBeOff(a)
      PROVE  /\ unit'[a].output = "off"
             /\ wire'[a] = "on" => wire[a] = "on"
             /\ actual[a] = "on" =>
                  wire'[a] = "off" \/ IsPending(unit'[a].pendingSwitch, "off")
  <2>1. PICK work :
          /\ unit' = [c \in ActorNames |-> IF c \in actors THEN work[c].unit ELSE unit[c]]
          /\ Publish([u \in Units |-> IF u \in actors THEN work[u].switch ELSE None])
          /\ \A c \in actors :
               /\ c \in ActorNames /\ Lawful(c, work[c], MustBeOff(c))
               /\ MustBeOff(c) => /\ work[c].unit.output = "off"
                                  /\ actual[c] = "on" => Told(work[c], "off")
    BY <1>1, ActorsWork
  <2>2. a \in ActorNames /\ a \in Units
    BY <1>1, <2>1, ManagementAssumption DEF ManagementAssumption
  <2>3. unit'[a] = work[a].unit BY <1>1, <2>1, <2>2
  <2>4. wire'[a] = IF work[a].switch = None THEN wire[a] ELSE work[a].switch
    <3> DEFINE sent == [u \in Units |-> IF u \in actors THEN work[u].switch ELSE None]
    <3>1. sent[a] = work[a].switch BY <1>1, <2>2
    <3>2. Publish(sent) BY <2>1
    <3> HIDE DEF sent
    <3> QED BY <2>2, <3>1, <3>2 DEF Publish
  <2>5. work[a].switch # "on" BY <1>1, <2>1 DEF Lawful
  <2>6. actual[a] = "on" =>
          work[a].switch = "off" \/ IsPending(work[a].unit.pendingSwitch, "off")
    BY <1>1, <2>1 DEF Told
  <2>7. None # "off" BY OutletsAssumption DEF OutletsAssumption, Commands
  <2> QED BY <1>1, <2>1, <2>3, <2>4, <2>5, <2>6, <2>7
<1>2. ASSUME IInv, ShedPassEnds, NEW p \in Pumps, pump'[p].output = "on"
      PROVE  ~ShouldShed(stage', PumpPhases[p],
                         PumpPriority[IF sampling'.byFilter THEN "solar" ELSE p])
  <2>1. Ended(TRUE)
    <3>1. CASE PoolTick /\ active /\ ~tick'.under
      <4>1. active = TRUE BY <3>1 DEF IInv, TypeOK
      <4>2. tick' # [under |-> TRUE, hot |-> hot, active |-> active] BY <3>1
      <4>3. Ended(active) BY <1>2, <3>1, <4>2, PoolTickEnds
      <4> QED BY <4>1, <4>3
    <3>2. CASE PoolResume /\ tick.active
      <4>1. tick.active = TRUE BY <3>2 DEF IInv, TypeOK, PoolTypeOK
      <4>2. Ended(tick.active) BY <1>2, <3>2, PoolResumeEnds
      <4> QED BY <4>1, <4>2
    <3> QED BY <1>2, <3>1, <3>2 DEF ShedPassEnds
  <2>2. PICK w :
          /\ pump' = w.pump /\ sampling' = w.sampling
          /\ \A q \in Pumps : w.pump[q].output = "on" => ~Shed(w, q, stage', TRUE)
    BY <2>1 DEF Ended, EndsWith
  <2>3. ~Shed(w, p, stage', TRUE) BY <1>2, <2>2
  <2> QED BY <2>2, <2>3 DEF Shed, EffectivePriority
<1>3. IInv /\ [Next]_vars => A BY <1>1, <1>2
<1> QED BY <1>3, InitSound, NextSound, PTL DEF Spec, PassObeys
=============================================================================
