------------------------- MODULE GridControl_proofs -------------------------
(***************************************************************************)
(* Proofs about GridControl, for every set of triggers, every delay and    *)
(* every course of the house: types, NoCycling and EmergencyHolds.         *)
(*                                                                         *)
(* A tick is a record that is passed from one part to the next (`Now`,     *)
(* Begun, Lift, Judge, Reconcile), so most of IInv is said of such a       *)
(* record, and most of the lemmas say what a part makes of it.             *)
(***************************************************************************)
EXTENDS GridControl, TLAPS

USE GridAssumption DEF GridAssumption

-----------------------------------------------------------------------------
(* Types.                                                                  *)
MemoryType ==
  [window : [Windows -> [low : BOOLEAN, high : BOOLEAN]], shift : BOOLEAN, load : BOOLEAN,
   off : 0..OffDelay \cup {None}, initialized : BOOLEAN, adopted : BOOLEAN,
   published : BOOLEAN, zero : 0..Detection \cup {None}]

DiskType ==
  [load : BOOLEAN, off : 0..OffDelay \cup {None}, initialized : BOOLEAN, emergency : BOOLEAN]

TrackType ==
  [desired : BOOLEAN \cup {None}, since : 0..Republish, seen : 0..MaxStep \cup {None},
   unconfirmed : 0..WarnAfter, attempts : 0..MinAttempts, last : BOOLEAN \cup {None, Never},
   warned : BOOLEAN]

SeenType ==
  [soc : 0..4 \cup {None}, voltage : 0..4 \cup {None}, warning : BOOLEAN \cup {None},
   loads : Loads \cup {None},
   phases : PhaseStates \cup {None}]

Reported == [Switches -> BOOLEAN \cup {None}]

RunningType ==
  [at : {"read", "lifted", "raised"}, save : BOOLEAN, has : BOOLEAN, seen : SeenType,
   broker : Reported, connected : BOOLEAN, want : [Switches -> BOOLEAN] \cup {None}]

Causes ==
  (Windows \X {"low", "high"})
  \cup {<<"warning", "on">>, <<"loads", "on">>, <<"emergency", "on">>}

WorkType ==
  [memory : MemoryType, emergency : BOOLEAN, disk : DiskType, track : [Switches -> TrackType],
   wire : Reported, held : SUBSET Causes, tick : RunningType \cup {Idle}]

CountType ==
  [houses : Nat, drops : Nat, losses : Nat, restarts : Nat, externals : Nat, acks : Nat,
   waits : Nat]

HouseInv ==
  /\ limit \in Limits /\ input \in InputType /\ known \subseteq Measures
  /\ connected \in BOOLEAN /\ contactor \in [Switches -> BOOLEAN] /\ cache \in Reported
  /\ gap \in 0..MaxGap /\ calmFor \in 0..OffDelay \cup {None}
  /\ count \in CountType /\ count.houses \in 1..Len(limit.houses)
  /\ \A what \in DOMAIN count \ {"houses"} : count[what] <= limit[what]

-----------------------------------------------------------------------------
(* The inductive invariant.                                                *)

(* What a confirmed grid is on for has its cause in what a tick remembers, *)
(* and has it still after a restart, as soon as the tick has adopted the   *)
(* state of the contactor.                                                 *)
Founded(c) ==
  /\ \A w \in Windows, b \in {"low", "high"} :
       /\ c.memory.window[w][b] => w \in Enabled
       /\ <<w, b>> \in c.held =>
            w \in Enabled /\ (c.memory.adopted => c.memory.window[w][b])
  /\ <<"soc", "high">> \in c.held => limit.feedIn
  /\ <<"warning", "on">> \in c.held => "warning" \in Enabled
  /\ <<"loads", "on">> \in c.held => c.memory.load
  /\ <<"emergency", "on">> \in c.held => c.emergency /\ c.disk.emergency

(* The load trigger and its delay, and the file that keeps them: it may be *)
(* behind only while the tick waits to save them.                          *)
LoadKept(c) ==
  /\ c.memory.load \/ c.disk.load => "loads" \in Enabled
  /\ c.memory.off # None => c.memory.load
  /\ c.disk.off # None => c.disk.load
  /\ c.memory.initialized = c.disk.initialized
  /\ c.disk.load => c.disk.initialized
  /\ ~c.tick.save => c.memory.load = c.disk.load /\ c.memory.off = c.disk.off

(* NoCycling, and why a command to go off is never given in ignorance.     *)
Quiet(c) ==
  /\ cache["grid"] = FALSE => c.held = {}
  /\ c.track["grid"].desired = FALSE => c.memory.adopted /\ c.held = {}

(* What a tick has read is not overtaken while it waits.                   *)
Current(c) ==
  /\ c.tick.broker["grid"] # None => c.memory.adopted
  /\ c.tick.broker["grid"] = FALSE => c.held = {}
  /\ c.tick.seen["warning"] = FALSE => <<"warning", "on">> \notin c.held
  /\ c.tick.seen["phases"] = "present" => <<"emergency", "on">> \notin c.held
  /\ c.tick.save => c.tick.at = "read"
  /\ c.tick.at = "raised" =>
       c.emergency /\ c.tick.want \in [Switches -> BOOLEAN] /\ c.tick.want["grid"]

Stored(c) == c.disk.emergency = c.emergency

Sound(c) ==
  /\ c \in WorkType
  /\ Founded(c) /\ LoadKept(c) /\ Quiet(c)
  /\ c.tick # Idle => Current(c)
  /\ c.tick.at \notin {"raised", "lifted"} => Stored(c)

(* The delay of the loads is not longer than they have been low.           *)
Patient == memory.off # None => calmFor # None /\ memory.off <= calmFor

IInv == HouseInv /\ Sound(Now) /\ Patient

-----------------------------------------------------------------------------
(* Operators of the model.                                                 *)
LEMMA MinOfTwo ==
  ASSUME NEW a \in Int, NEW b \in Int
  PROVE  Min({a, b}) = IF a <= b THEN a ELSE b
<1>1. \E x \in {a, b} : \A y \in {a, b} : x =< y
  OBVIOUS
<1>2. \A x \in {a, b} : (\A y \in {a, b} : x =< y) => x = (IF a <= b THEN a ELSE b)
  OBVIOUS
<1> QED
  BY <1>1, <1>2 DEF Min

LEMMA OlderAge ==
  ASSUME HouseInv, NEW most \in Nat, NEW age \in 0..most \cup {None}
  PROVE  /\ Older(age, most) \in 0..most \cup {None}
         /\ Older(age, most) = None <=> age = None
         /\ age # None => Older(age, most) = IF age + gap <= most THEN age + gap ELSE most
<1>1. gap \in Nat /\ None \notin Nat
  BY DEF HouseInv
<1>2. CASE age = None
  BY <1>2 DEF Older
<1>3. CASE age # None
  <2>1. age \in 0..most /\ age + gap \in Nat
    BY <1>1, <1>3
  <2>2. Older(age, most) = Min({age + gap, most})
    BY <1>3 DEF Older
  <2>3. Min({age + gap, most}) = IF age + gap <= most THEN age + gap ELSE most
    BY <2>1, MinOfTwo
  <2> QED
    BY <1>1, <1>3, <2>1, <2>2, <2>3
<1> QED
  BY <1>2, <1>3

LEMMA SeenTyped ==
  ASSUME HouseInv
  PROVE  /\ Seen \in SeenType
         /\ \A m \in Measures : Seen[m] \in {None, input[m]}
<1>1. input \in InputType /\ DOMAIN Seen = Measures
  BY DEF HouseInv, Seen
<1>2. \A m \in Measures : Seen[m] \in {None, input[m]}
  BY DEF Seen
<1>3. Seen = [soc |-> Seen["soc"], voltage |-> Seen["voltage"], warning |-> Seen["warning"],
              loads |-> Seen["loads"], phases |-> Seen["phases"]]
  BY DEF Seen, Measures, Windows
<1>4. /\ Seen["soc"] \in 0..4 \cup {None} /\ Seen["voltage"] \in 0..4 \cup {None}
      /\ Seen["warning"] \in BOOLEAN \cup {None}
      /\ Seen["loads"] \in Loads \cup {None}
      /\ Seen["phases"] \in PhaseStates \cup {None}
  BY <1>1, <1>2 DEF Measures, Windows, InputType
<1> QED
  BY <1>2, <1>3, <1>4 DEF SeenType

LEMMA OpenedTyped ==
  ASSUME NEW level, NEW before \in [low : BOOLEAN, high : BOOLEAN]
  PROVE  Opened(level, before) \in [low : BOOLEAN, high : BOOLEAN]
BY DEF Opened

(* What the windows are after the readings: a reason that the tick does    *)
(* not see to be over is still there, once the contactor is known.         *)
LEMMA WindowsAfter ==
  ASSUME HouseInv, Sound(Now), NEW w \in Windows
  PROVE  /\ WindowAfter(w) \in [low : BOOLEAN, high : BOOLEAN]
         /\ \A b \in {"low", "high"} : WindowAfter(w)[b] => w \in Enabled
         /\ \A b \in {"low", "high"} :
              /\ <<w, b>> \in held \ Over
              /\ memory.adopted \/ cache["grid"] = TRUE
              => WindowAfter(w)[b]
<1>1. memory \in MemoryType /\ memory.window[w] \in [low : BOOLEAN, high : BOOLEAN]
  BY DEF Sound, WorkType, Now, MemoryType
<1>2. Seen[w] \in 0..4 \cup {None} /\ None \notin 0..4
  BY SeenTyped DEF SeenType, Windows
<1>3. CASE w \notin Enabled
  <2>1. WindowAfter(w) = Closed
    BY <1>3 DEF WindowAfter
  <2>2. \A b \in {"low", "high"} : <<w, b>> \notin held
    BY <1>3 DEF Sound, Founded, Now
  <2> QED
    BY <2>1, <2>2 DEF Closed
<1>4. CASE w \in Enabled
  <2> DEFINE adopt == ~memory.adopted /\ cache["grid"] = TRUE
             before == IF adopt THEN [low |-> TRUE, high |-> TRUE] ELSE memory.window[w]
  <2>1. before \in [low : BOOLEAN, high : BOOLEAN]
    BY <1>1
  <2>2. ASSUME NEW b \in {"low", "high"}, <<w, b>> \in held,
               memory.adopted \/ cache["grid"] = TRUE
        PROVE  before[b]
    <3>1. CASE adopt
      BY <3>1
    <3>2. CASE ~adopt
      <4>1. memory.adopted /\ Now.held = held /\ Now.memory = memory
        BY <2>2, <3>2 DEF Now
      <4>2. memory.window[w][b]
        BY <2>2, <4>1 DEF Sound, Founded
      <4> QED
        BY <3>2, <4>2
    <3> QED
      BY <3>1, <3>2
  <2>3. WindowAfter(w) = IF Seen[w] = None THEN before ELSE Opened(Seen[w], before)
    BY <1>4 DEF WindowAfter
  <2>4. /\ <<w, "low">> \notin Over => Seen[w] = None \/ Seen[w] \in 0..1
        /\ <<w, "high">> \notin Over => Seen[w] = None \/ Seen[w] \in 3..4
    BY <1>2 DEF Over
  <2> HIDE DEF before
  <2>5. ASSUME NEW b \in {"low", "high"}, <<w, b>> \in held \ Over,
               memory.adopted \/ cache["grid"] = TRUE
        PROVE  WindowAfter(w)[b]
    <3>1. before[b]
      BY <2>2, <2>5
    <3>2. CASE Seen[w] = None
      BY <2>3, <3>1, <3>2
    <3>3. CASE Seen[w] # None
      <4>1. WindowAfter(w) = Opened(Seen[w], before)
        BY <2>3, <3>3
      <4>2. CASE b = "low"
        <5>1. Seen[w] \in 0..1
          BY <2>4, <2>5, <3>3, <4>2
        <5>2. WindowAfter(w)["low"] = (Seen[w] = 0 \/ (before["low"] /\ Seen[w] = 1))
          BY <4>1 DEF Opened
        <5>3. Seen[w] = 0 \/ Seen[w] = 1
          BY <5>1
        <5> QED
          BY <3>1, <4>2, <5>2, <5>3, Zenon
      <4>3. CASE b = "high"
        <5>1. Seen[w] \in 3..4
          BY <2>4, <2>5, <3>3, <4>3
        <5>2. WindowAfter(w)["high"] = (Seen[w] = 4 \/ (before["high"] /\ Seen[w] = 3))
          BY <4>1 DEF Opened
        <5>3. Seen[w] = 3 \/ Seen[w] = 4
          BY <5>1
        <5> QED
          BY <3>1, <4>3, <5>2, <5>3, Zenon
      <4> QED
        BY <4>2, <4>3
    <3> QED
      BY <3>2, <3>3
  <2>6. WindowAfter(w) \in [low : BOOLEAN, high : BOOLEAN]
    BY <2>1, <2>3, OpenedTyped
  <2> QED
    BY <1>4, <2>5, <2>6
<1> QED
  BY <1>3, <1>4

(* The load trigger after the readings: it goes only when the loads have   *)
(* been low for the whole delay, and the delay is counted by the file too. *)
LEMMA LoadAfterReading ==
  ASSUME HouseInv, Sound(Now), Patient
  PROVE  /\ LoadAfter \in [load : BOOLEAN, off : 0..OffDelay \cup {None}]
         /\ LoadAfter.load => "loads" \in Enabled
         /\ LoadAfter.off # None =>
              LoadAfter.load /\ Seen["loads"] = "below"
         /\ LoadAfter.off # None /\ memory.off # None =>
              LoadAfter.off = Older(memory.off, OffDelay)
         /\ LoadAfter.off # None /\ memory.off = None => LoadAfter.off = 0
         /\ memory.load /\ ~LoadAfter.load /\ "loads" \in Enabled => <<"loads", "on">> \in Over
         /\ cache["grid"] = None /\ ~memory.load /\ LoadAfter.load => Seen["loads"] = "over"
<1> DEFINE before == memory.load \/ (~memory.initialized /\ cache["grid"] = TRUE)
           age == IF memory.off = None THEN 0 ELSE Older(memory.off, OffDelay)
           on == [load |-> TRUE, off |-> None]
           gone == [load |-> FALSE, off |-> None]
<1>1. /\ memory.off \in 0..OffDelay \cup {None} /\ memory.load \in BOOLEAN
      /\ None \notin 0..OffDelay /\ None \notin Nat
  BY DEF Sound, WorkType, Now, MemoryType
<1>2. age \in 0..OffDelay
  BY <1>1, OlderAge
<1>3. /\ Seen["loads"] \in {"over", "between", "below", None}
      /\ None \notin {"over", "between", "below"}
  BY SeenTyped DEF SeenType, Loads
<1>4. LoadAfter = CASE "loads" \notin Enabled -> gone
                    [] "loads" \in Enabled /\ Seen["loads"] = "over" -> on
                    [] "loads" \in Enabled /\ Seen["loads"] # "over" /\ ~before -> gone
                    [] "loads" \in Enabled /\ Seen["loads"] \in {"between", None} /\ before -> on
                    [] OTHER -> IF age >= OffDelay THEN gone ELSE [load |-> TRUE, off |-> age]
  BY DEF LoadAfter
<1>5. age >= OffDelay /\ Seen["loads"] = "below" => <<"loads", "on">> \in Over
  <2> SUFFICES ASSUME age >= OffDelay, Seen["loads"] = "below"
               PROVE  (IF calmFor = None THEN 0 ELSE calmFor + gap) >= OffDelay
    BY DEF Over
  <2>1. gap \in Nat /\ calmFor \in Nat \cup {None}
    BY DEF HouseInv
  <2>2. CASE memory.off = None
    BY <1>1, <2>1, <2>2
  <2>3. CASE memory.off # None
    <3>1. /\ memory.off \in Nat /\ calmFor \in Nat /\ memory.off <= calmFor
      BY <1>1, <2>1, <2>3 DEF Patient
    <3>2. memory.off + gap >= OffDelay
      BY <1>1, <2>1, <2>3, <3>1, OlderAge
    <3> QED
      BY <1>1, <2>1, <3>1, <3>2
  <2> QED
    BY <2>2, <2>3
<1> HIDE DEF age
<1>6. CASE "loads" \notin Enabled
  BY <1>1, <1>4, <1>6
<1>7. CASE "loads" \in Enabled /\ Seen["loads"] = "over"
  BY <1>1, <1>3, <1>4, <1>7
<1>8. CASE "loads" \in Enabled /\ Seen["loads"] # "over" /\ ~before
  BY <1>1, <1>3, <1>4, <1>8
<1>9. CASE "loads" \in Enabled /\ Seen["loads"] \in {"between", None} /\ before
  BY <1>1, <1>3, <1>4, <1>9
<1>10. CASE "loads" \in Enabled /\ Seen["loads"] = "below" /\ before
  <2>1. LoadAfter = IF age >= OffDelay THEN gone ELSE [load |-> TRUE, off |-> age]
    BY <1>3, <1>4, <1>10
  <2>2. before /\ (cache["grid"] = None /\ ~memory.load => ~before)
    BY <1>10
  <2> HIDE DEF before
  <2>3. CASE age >= OffDelay
    BY <1>1, <1>5, <1>10, <2>1, <2>3
  <2>4. CASE ~(age >= OffDelay)
    BY <1>1, <1>2, <1>10, <2>1, <2>2, <2>4 DEF age
  <2> QED
    BY <2>3, <2>4
<1> QED
  BY <1>3, <1>6, <1>7, <1>8, <1>9, <1>10

-----------------------------------------------------------------------------
(* The parts of a tick.                                                    *)

(* A tick that has stored what it had to.                                  *)
Ready(c) ==
  /\ c \in WorkType /\ c.tick \in RunningType
  /\ Founded(c) /\ LoadKept(c) /\ Quiet(c) /\ Current(c) /\ Stored(c)
  /\ ~c.tick.save

(* A tick that has decided: it lets the grid go only when nothing holds it. *)
Decided(c) ==
  /\ c.tick.want \in [Switches -> BOOLEAN]
  /\ ~c.tick.want["grid"] /\ Measured(c, "grid") => c.held = {}

LEMMA DeviationTyped ==
  ASSUME HouseInv, NEW c \in WorkType, c.tick \in RunningType,
         c.tick.want \in [Switches -> BOOLEAN], NEW s \in Switches
  PROVE  Deviation(c, s) \in
           [unconfirmed : 0..WarnAfter, attempts : 0..MinAttempts, warned : BOOLEAN]
<1> DEFINE none == [unconfirmed |-> 0, attempts |-> 0, warned |-> FALSE]
           before == IF NewWish(c, s) THEN none ELSE c.track[s]
           elapsed == IF c.tick.connected /\ c.track[s].seen # None THEN c.track[s].seen ELSE 0
           lasting == Min({before.unconfirmed + elapsed, WarnAfter})
           one == IF Publishes(c, s) THEN 1 ELSE 0
           attempts == Min({before.attempts + one, MinAttempts})
           relevant == c.tick.want[s] \/ cache[s] = TRUE
           persistent == /\ c.tick.connected /\ relevant
                         /\ lasting = WarnAfter /\ attempts = MinAttempts
<1>1. c.track[s] \in TrackType
  BY DEF WorkType
<1>2. /\ before.unconfirmed \in Nat /\ before.attempts \in Nat /\ before.warned \in BOOLEAN
      /\ elapsed \in Nat
  <2>1. CASE NewWish(c, s)
    BY <1>1, <2>1 DEF TrackType
  <2>2. CASE ~NewWish(c, s)
    BY <1>1, <2>2 DEF TrackType
  <2> QED
    BY <2>1, <2>2
<1> HIDE DEF before, elapsed
<1>3. lasting \in 0..WarnAfter
  BY <1>2, MinOfTwo
<1>4. attempts \in 0..MinAttempts
  BY <1>2, MinOfTwo
<1> HIDE DEF lasting, attempts, relevant
<1>5. (before.warned \/ persistent) \in BOOLEAN
  OBVIOUS
<1>6. Deviation(c, s) = IF Confirmed(c, s) THEN none
                        ELSE [unconfirmed |-> lasting, attempts |-> attempts,
                              warned |-> before.warned \/ persistent]
  BY DEF Deviation, before, elapsed, lasting, attempts, relevant
<1> HIDE DEF persistent
<1> QED
  BY <1>3, <1>4, <1>5, <1>6

LEMMA TrackTyped ==
  ASSUME HouseInv, NEW c \in WorkType, c.tick \in RunningType,
         c.tick.want \in [Switches -> BOOLEAN], NEW s \in Switches
  PROVE  /\ TrackAfter(c, s) \in TrackType
         /\ Measured(c, s) => TrackAfter(c, s).desired = c.tick.want[s]
         /\ ~Measured(c, s) => TrackAfter(c, s) = c.track[s]
<1> DEFINE deviation == Deviation(c, s)
           since == CASE Publishes(c, s) -> 0
                      [] NewWish(c, s) /\ ~Publishes(c, s) -> Republish
                      [] OTHER -> c.track[s].since
<1>1. c.track[s] \in TrackType /\ cache[s] \in BOOLEAN \cup {None}
  BY DEF WorkType, HouseInv, Reported
<1>2. since \in 0..Republish
  BY <1>1 DEF TrackType
<1>3. /\ deviation.unconfirmed \in 0..WarnAfter /\ deviation.attempts \in 0..MinAttempts
      /\ deviation.warned \in BOOLEAN
  BY DeviationTyped
<1>4. TrackAfter(c, s) =
        IF ~Measured(c, s) THEN c.track[s]
        ELSE [desired |-> c.tick.want[s], seen |-> 0, last |-> cache[s], since |-> since,
              unconfirmed |-> deviation.unconfirmed, attempts |-> deviation.attempts,
              warned |-> deviation.warned]
  BY DEF TrackAfter
<1> HIDE DEF deviation, since
<1> QED
  BY <1>1, <1>2, <1>3, <1>4 DEF TrackType

(* The reasons of a confirmed grid have their causes.                      *)
LEMMA ReasonsFounded ==
  ASSUME NEW c, Ready(c)
  PROVE  /\ Reasons(c) \subseteq Causes
         /\ \A w \in Windows, b \in {"low", "high"} :
              <<w, b>> \in Reasons(c) => w \in Enabled /\ c.memory.window[w][b]
         /\ <<"soc", "high">> \in Reasons(c) => limit.feedIn
         /\ <<"warning", "on">> \in Reasons(c) => "warning" \in Enabled
         /\ <<"loads", "on">> \in Reasons(c) => c.memory.load
         /\ <<"emergency", "on">> \in Reasons(c) => c.emergency /\ c.disk.emergency
<1>1. Reasons(c) \subseteq Causes
  BY DEF Reasons, Causes
<1>2. \A w \in Windows, b \in {"low", "high"} :
        <<w, b>> \in Reasons(c) => /\ c.memory.window[w][b]
                                   /\ <<w, b>> = <<"soc", "high">> => limit.feedIn
  BY DEF Reasons, Windows
<1>3. <<"warning", "on">> \in Reasons(c) => "warning" \in Enabled
  BY DEF Reasons, Windows
<1>4. <<"loads", "on">> \in Reasons(c) => c.memory.load
  BY DEF Reasons, Windows
<1>5. <<"emergency", "on">> \in Reasons(c) => c.emergency
  BY DEF Reasons, Windows
<1>6. c.emergency => c.disk.emergency
  BY DEF Ready, Stored
<1>7. \A w \in Windows, b \in {"low", "high"} : c.memory.window[w][b] => w \in Enabled
  BY DEF Ready, Founded
<1> QED
  BY <1>1, <1>2, <1>3, <1>4, <1>5, <1>6, <1>7 DEF Windows

LEMMA ReconcileSound ==
  ASSUME HouseInv, NEW c, Ready(c), Decided(c)
  PROVE  /\ Sound(Reconcile(c)) /\ Reconcile(c).tick = Idle
         /\ Reconcile(c).emergency = c.emergency
         /\ Reconcile(c).memory.off = c.memory.off
<1> DEFINE r == Reconcile(c)
           confirmed == c.tick.want["grid"] /\ Measured(c, "grid") /\ Confirmed(c, "grid")
<1>1. /\ c \in WorkType /\ c.memory \in MemoryType /\ c.tick \in RunningType
      /\ c.tick.want \in [Switches -> BOOLEAN] /\ c.wire \in Reported
      /\ "grid" \in Switches
  BY DEF Ready, WorkType, Decided, Switches
<1>2. /\ r = [memory |-> r.memory, emergency |-> c.emergency, disk |-> c.disk,
              track |-> r.track, wire |-> r.wire, held |-> r.held, tick |-> Idle]
      /\ r.memory = [c.memory EXCEPT !.published = @ \/ c.tick.has]
      /\ r.track = [s \in Switches |-> TrackAfter(c, s)]
      /\ r.wire = [s \in Switches |-> IF Publishes(c, s) THEN c.tick.want[s] ELSE c.wire[s]]
      /\ r.held = IF confirmed THEN c.held \cup Reasons(c) ELSE c.held
  <2>1. /\ c = [memory |-> c.memory, emergency |-> c.emergency, disk |-> c.disk,
               track |-> c.track, wire |-> c.wire, held |-> c.held, tick |-> c.tick]
        /\ c.wire = [s \in Switches |-> c.wire[s]]
    BY <1>1 DEF WorkType, Reported
  <2>2. r.memory = [c.memory EXCEPT !.published = @ \/ c.tick.has]
    BY <2>1 DEF Reconcile
  <2>3. r.track = [s \in Switches |-> TrackAfter(c, s)]
    BY <2>1 DEF Reconcile
  <2>4. r.wire = [s \in Switches |-> IF Publishes(c, s) THEN c.tick.want[s] ELSE c.wire[s]]
    BY <2>1 DEF Reconcile
  <2>5. r.held = IF confirmed THEN c.held \cup Reasons(c) ELSE c.held
    BY <2>1 DEF Reconcile
  <2>6. r = [memory |-> r.memory, emergency |-> c.emergency, disk |-> c.disk,
             track |-> r.track, wire |-> r.wire, held |-> r.held, tick |-> Idle]
    <3>1. r.emergency = c.emergency
      BY <2>1 DEF Reconcile
    <3>2. r.disk = c.disk
      BY <2>1 DEF Reconcile
    <3>3. r.tick = Idle
      BY <2>1 DEF Reconcile
    <3>4. /\ DOMAIN r = {"memory", "emergency", "disk", "track", "wire", "held", "tick"}
          /\ r = [x \in DOMAIN r |-> r[x]]
      BY <2>1 DEF Reconcile
    <3> HIDE DEF r
    <3> QED
      BY <3>1, <3>2, <3>3, <3>4
  <2> QED
    BY <2>2, <2>3, <2>4, <2>5, <2>6
<1> HIDE DEF r, confirmed
<1>3. /\ r.memory \in MemoryType /\ r.memory.window = c.memory.window
      /\ r.memory.load = c.memory.load /\ r.memory.off = c.memory.off
      /\ r.memory.initialized = c.memory.initialized /\ r.memory.adopted = c.memory.adopted
  BY <1>1, <1>2 DEF MemoryType
<1>4. r.track \in [Switches -> TrackType]
  BY <1>1, <1>2, TrackTyped
<1>5. r.wire \in Reported
  BY <1>1, <1>2 DEF Reported
<1>6. r.held \subseteq c.held \cup Reasons(c) /\ c.held \subseteq Causes
  BY <1>1, <1>2 DEF WorkType
<1>7. r \in WorkType
  <2>1. r.held \subseteq Causes
    BY <1>6, ReasonsFounded
  <2> QED
    BY <1>1, <1>2, <1>3, <1>4, <1>5, <2>1 DEF WorkType
<1>8. Founded(r)
  <2>1. Founded(c) /\ r.disk = c.disk /\ r.emergency = c.emergency
    BY <1>2 DEF Ready
  <2>2. /\ \A w \in Windows, b \in {"low", "high"} :
             /\ r.memory.window[w][b] => w \in Enabled
             /\ <<w, b>> \in r.held =>
                  w \in Enabled /\ (r.memory.adopted => r.memory.window[w][b])
    BY <1>3, <1>6, <2>1, ReasonsFounded DEF Founded
  <2>3. /\ <<"soc", "high">> \in r.held => limit.feedIn
        /\ <<"warning", "on">> \in r.held => "warning" \in Enabled
        /\ <<"loads", "on">> \in r.held => r.memory.load
        /\ <<"emergency", "on">> \in r.held => r.emergency /\ r.disk.emergency
    BY <1>3, <1>6, <2>1, ReasonsFounded DEF Founded
  <2> QED
    BY <2>2, <2>3 DEF Founded
<1>9. LoadKept(r)
  <2>1. LoadKept(c) /\ ~c.tick.save /\ r.disk = c.disk
    BY <1>2 DEF Ready
  <2> QED
    BY <1>3, <2>1 DEF LoadKept
<1>10. Quiet(r)
  <2>1. Quiet(c) /\ Current(c)
    BY DEF Ready
  <2>2. confirmed => cache["grid"] # FALSE
    BY <1>1 DEF confirmed, Confirmed
  <2>3. cache["grid"] = FALSE => r.held = {}
    BY <1>2, <2>1, <2>2 DEF Quiet
  <2>4. CASE Measured(c, "grid") /\ c.tick.want["grid"]
    <3>1. TrackAfter(c, "grid").desired = c.tick.want["grid"]
      BY <1>1, <2>4, TrackTyped
    <3>2. r.track["grid"].desired
      BY <1>1, <1>2, <2>4, <3>1
    <3> QED
      BY <2>3, <3>2 DEF Quiet
  <2>5. CASE Measured(c, "grid") /\ ~c.tick.want["grid"]
    <3>1. c.held = {} /\ ~confirmed
      BY <2>5 DEF Decided, confirmed
    <3>2. c.tick.broker["grid"] # None
      BY <2>5 DEF Measured
    <3>3. c.memory.adopted /\ r.held = {}
      BY <1>2, <2>1, <3>1, <3>2 DEF Current
    <3> QED
      BY <1>3, <2>3, <3>3 DEF Quiet
  <2>6. CASE ~Measured(c, "grid")
    <3>1. r.track["grid"] = c.track["grid"] /\ r.held = c.held
      BY <1>1, <1>2, <2>6, TrackTyped DEF confirmed
    <3> QED
      BY <1>3, <2>1, <2>3, <3>1 DEF Quiet
  <2> QED
    BY <2>4, <2>5, <2>6
<1>11. Stored(r) /\ r.tick = Idle /\ r.emergency = c.emergency
  BY <1>2 DEF Ready, Stored
<1> QED
  BY <1>3, <1>7, <1>8, <1>9, <1>10, <1>11 DEF Sound, r

(* A wish to let the grid go, by a tick that knows the contactor: every    *)
(* reason that could hold it is ruled out by what the tick remembers or    *)
(* has seen, and a reading that is missing would have held it.             *)
LEMMA WishKeeps ==
  ASSUME HouseInv, NEW c, Ready(c)
  PROVE  /\ Wish(c) \in [Switches -> BOOLEAN]
         /\ ~Wish(c)["grid"] /\ c.tick.broker["grid"] # None => c.held = {}
<1> DEFINE unknown == \E m \in Enabled : c.tick.seen[m] = None
           grid == \/ LowOrTemperature(c)
                   \/ c.memory.window["voltage"].high
                   \/ c.memory.window["soc"].high /\ limit.feedIn
                   \/ c.emergency
                   \/ unknown /\ c.tick.broker["grid"] = TRUE
<1>1. /\ c.emergency \in BOOLEAN /\ limit.feedIn \in BOOLEAN
      /\ \A w \in Windows, b \in {"low", "high"} : c.memory.window[w][b] \in BOOLEAN
      /\ c.memory.load \in BOOLEAN /\ c.held \subseteq Causes
      /\ c.tick.seen["warning"] \in BOOLEAN \cup {None}
      /\ c.tick.broker["grid"] \in BOOLEAN \cup {None}
  BY DEF Ready, WorkType, MemoryType, HouseInv, LimitType, RunningType, SeenType, Reported,
         Switches
<1>2. /\ DOMAIN Wish(c) = Switches /\ Wish(c) = [s \in Switches |-> Wish(c)[s]]
      /\ Wish(c)["grid"] \in BOOLEAN /\ Wish(c)["feedIn"] \in BOOLEAN
  BY DEF Wish, Switches
<1>3. Wish(c) \in [Switches -> BOOLEAN]
  BY <1>2 DEF Switches
<1>4. Wish(c)["grid"] <=> grid
  BY DEF Wish
<1>5. SUFFICES ASSUME ~grid, c.tick.broker["grid"] # None
               PROVE  c.held = {}
  BY <1>3, <1>4
<1>6. Founded(c) /\ Current(c) /\ c.memory.adopted
  BY <1>5 DEF Ready, Current
<1>7. /\ ~LowOrTemperature(c) /\ ~c.memory.window["voltage"].high /\ ~c.emergency
      /\ ~(c.memory.window["soc"].high /\ limit.feedIn)
      /\ ~(unknown /\ c.tick.broker["grid"] = TRUE)
  BY <1>5
<1> HIDE DEF grid
<1>8. \A w \in Windows : <<w, "low">> \notin c.held
  BY <1>6, <1>7 DEF LowOrTemperature, Founded
<1>9. \A w \in Windows : <<w, "high">> \notin c.held
  <2>1. <<"voltage", "high">> \notin c.held
    <3>1. "voltage" \in Windows /\ "high" \in {"low", "high"}
      BY DEF Windows
    <3> QED
      BY <1>6, <1>7, <3>1 DEF Founded
  <2>2. <<"soc", "high">> \notin c.held
    <3>1. "soc" \in Windows /\ "high" \in {"low", "high"}
      BY DEF Windows
    <3> QED
      BY <1>6, <1>7, <3>1 DEF Founded
  <2> QED
    BY <2>1, <2>2 DEF Windows
<1>10. <<"loads", "on">> \notin c.held
  BY <1>6, <1>7 DEF LowOrTemperature, Founded
<1>11. <<"emergency", "on">> \notin c.held
  BY <1>6, <1>7 DEF Founded
<1>12. <<"warning", "on">> \in c.held => c.held = {}
  <2> SUFFICES ASSUME <<"warning", "on">> \in c.held
               PROVE  c.held = {}
    OBVIOUS
  <2>1. "warning" \in Enabled
    BY <1>6 DEF Founded
  <2>2. c.tick.seen["warning"] # FALSE
    BY <1>6 DEF Current
  <2>3. c.tick.seen["warning"] # TRUE
    BY <1>7, <2>1 DEF LowOrTemperature
  <2>4. unknown
    BY <1>1, <2>1, <2>2, <2>3
  <2>5. c.tick.broker["grid"] = FALSE
    BY <1>1, <1>5, <1>7, <2>4
  <2> QED
    BY <1>6, <2>5 DEF Current
<1>13. ASSUME c.held # {}
       PROVE  FALSE
  <2>1. PICK r \in c.held : TRUE
    BY <1>13
  <2>2. r \in Causes
    BY <1>1, <2>1
  <2>3. \/ \E w \in Windows : r = <<w, "low">> \/ r = <<w, "high">>
        \/ r = <<"warning", "on">> \/ r = <<"loads", "on">> \/ r = <<"emergency", "on">>
    BY <2>2 DEF Causes
  <2> QED
    BY <1>8, <1>9, <1>10, <1>11, <1>12, <1>13, <2>1, <2>3
<1> QED
  BY <1>13

(* What a part of a tick may change before it reconciles.                  *)
Retold(c, d, on, want, at) ==
  /\ d \in WorkType /\ d.tick \in RunningType
  /\ d.memory.window = c.memory.window /\ d.memory.load = c.memory.load
  /\ d.memory.off = c.memory.off /\ d.memory.initialized = c.memory.initialized
  /\ d.memory.adopted = c.memory.adopted
  /\ d.emergency = on /\ d.disk = c.disk /\ d.track = c.track /\ d.held = c.held
  /\ d.tick.broker = c.tick.broker /\ d.tick.seen = c.tick.seen
  /\ d.tick.save = c.tick.save /\ d.tick.has = c.tick.has
  /\ d.tick.want = want /\ d.tick.at = at

LEMMA RetoldZero ==
  ASSUME NEW c \in WorkType, c.tick \in RunningType, NEW zero \in 0..Detection \cup {None}
  PROVE  Retold(c, [c EXCEPT !.memory.zero = zero], c.emergency, c.tick.want, c.tick.at)
<1> DEFINE m == [c.memory EXCEPT !.zero = zero]
           d == [c EXCEPT !.memory = m]
<1>1. c.memory \in MemoryType
  BY DEF WorkType
<1>2. /\ m \in MemoryType /\ m.window = c.memory.window /\ m.load = c.memory.load
      /\ m.off = c.memory.off /\ m.initialized = c.memory.initialized
      /\ m.adopted = c.memory.adopted
  BY <1>1 DEF MemoryType
<1>3. d = [c EXCEPT !.memory.zero = zero]
  OBVIOUS
<1> HIDE DEF m
<1>4. /\ d \in WorkType /\ d.memory = m /\ d.emergency = c.emergency /\ d.disk = c.disk
      /\ d.track = c.track /\ d.held = c.held /\ d.tick = c.tick
  BY <1>2 DEF WorkType
<1> HIDE DEF d
<1> QED
  BY <1>2, <1>3, <1>4 DEF Retold

LEMMA RetoldWant ==
  ASSUME NEW c \in WorkType, c.tick \in RunningType,
         NEW want \in [Switches -> BOOLEAN] \cup {None}
  PROVE  Retold(c, [c EXCEPT !.tick.want = want], c.emergency, want, c.tick.at)
<1> DEFINE t == [c.tick EXCEPT !.want = want]
           d == [c EXCEPT !.tick = t]
<1>1. /\ t \in RunningType /\ t.broker = c.tick.broker /\ t.seen = c.tick.seen
      /\ t.save = c.tick.save /\ t.want = want /\ t.has = c.tick.has /\ t.at = c.tick.at
  BY DEF RunningType
<1>2. d = [c EXCEPT !.tick.want = want]
  OBVIOUS
<1> HIDE DEF t
<1>3. /\ d \in WorkType /\ d.memory = c.memory /\ d.emergency = c.emergency
      /\ d.disk = c.disk /\ d.track = c.track /\ d.held = c.held /\ d.tick = t
  BY <1>1 DEF WorkType
<1> HIDE DEF d
<1> QED
  BY <1>1, <1>2, <1>3 DEF Retold

LEMMA RetoldAt ==
  ASSUME NEW c \in WorkType, c.tick \in RunningType, NEW at \in {"read", "lifted", "raised"}
  PROVE  Retold(c, Wait(c, at), c.emergency, c.tick.want, at)
<1> DEFINE t == [c.tick EXCEPT !.at = at]
           d == [c EXCEPT !.tick = t]
<1>1. /\ t \in RunningType /\ t.broker = c.tick.broker /\ t.seen = c.tick.seen
      /\ t.save = c.tick.save /\ t.want = c.tick.want /\ t.has = c.tick.has /\ t.at = at
  BY DEF RunningType
<1>2. d = Wait(c, at)
  BY DEF Wait
<1> HIDE DEF t
<1>3. /\ d \in WorkType /\ d.memory = c.memory /\ d.emergency = c.emergency
      /\ d.disk = c.disk /\ d.track = c.track /\ d.held = c.held /\ d.tick = t
  BY <1>1 DEF WorkType
<1> HIDE DEF d
<1> QED
  BY <1>1, <1>2, <1>3 DEF Retold

LEMMA RetoldEmergency ==
  ASSUME NEW c \in WorkType, c.tick \in RunningType, NEW on \in BOOLEAN
  PROVE  Retold(c, [c EXCEPT !.emergency = on], on, c.tick.want, c.tick.at)
<1> DEFINE d == [c EXCEPT !.emergency = on]
<1>1. /\ d \in WorkType /\ d.memory = c.memory /\ d.emergency = on
      /\ d.disk = c.disk /\ d.track = c.track /\ d.held = c.held /\ d.tick = c.tick
  BY DEF WorkType
<1> HIDE DEF d
<1> QED
  BY <1>1 DEF Retold, d

LEMMA JudgedForm ==
  ASSUME NEW c \in WorkType, c.tick \in RunningType, NEW zero \in 0..Detection \cup {None},
         NEW want \in [Switches -> BOOLEAN]
  PROVE  Retold(c, [c EXCEPT !.memory.zero = zero, !.tick.want = want],
                c.emergency, want, c.tick.at)
<1> DEFINE x == [c EXCEPT !.memory.zero = zero]
           y == [x EXCEPT !.tick.want = want]
<1>1. y = [c EXCEPT !.memory.zero = zero, !.tick.want = want]
  BY DEF WorkType
<1>2. Retold(c, x, c.emergency, c.tick.want, c.tick.at)
  BY RetoldZero
<1>3. x \in WorkType /\ x.tick \in RunningType
  BY <1>2 DEF Retold
<1> HIDE DEF x
<1>4. Retold(x, y, x.emergency, want, x.tick.at)
  BY <1>3, RetoldWant
<1> HIDE DEF y
<1> QED
  BY <1>1, <1>2, <1>4 DEF Retold

LEMMA RaisedForm ==
  ASSUME NEW c \in WorkType, c.tick \in RunningType, NEW want \in [Switches -> BOOLEAN]
  PROVE  Retold(c, Wait([c EXCEPT !.emergency = TRUE, !.tick.want = want], "raised"),
                TRUE, want, "raised")
<1> DEFINE x == [c EXCEPT !.emergency = TRUE]
           y == [x EXCEPT !.tick.want = want]
           z == Wait(y, "raised")
<1>1. y = [c EXCEPT !.emergency = TRUE, !.tick.want = want]
  BY DEF WorkType
<1>2. Retold(c, x, TRUE, c.tick.want, c.tick.at)
  BY RetoldEmergency
<1>3. x \in WorkType /\ x.tick \in RunningType
  BY <1>2 DEF Retold
<1> HIDE DEF x
<1>4. Retold(x, y, x.emergency, want, x.tick.at)
  BY <1>3, RetoldWant
<1>5. y \in WorkType /\ y.tick \in RunningType
  BY <1>4 DEF Retold
<1> HIDE DEF y
<1>6. Retold(y, z, y.emergency, y.tick.want, "raised")
  BY <1>5, RetoldAt
<1> HIDE DEF z
<1>7. Retold(c, z, TRUE, want, "raised")
  BY <1>2, <1>4, <1>6 DEF Retold
<1> QED
  BY <1>1, <1>7 DEF z

LEMMA LiftedForm ==
  ASSUME NEW c \in WorkType, c.tick \in RunningType
  PROVE  Retold(c, Wait([c EXCEPT !.emergency = FALSE, !.memory.zero = None], "lifted"),
                FALSE, c.tick.want, "lifted")
<1> DEFINE x == [c EXCEPT !.emergency = FALSE]
           y == [x EXCEPT !.memory.zero = None]
           z == Wait(y, "lifted")
<1>1. y = [c EXCEPT !.emergency = FALSE, !.memory.zero = None]
  BY DEF WorkType
<1>2. Retold(c, x, FALSE, c.tick.want, c.tick.at)
  BY RetoldEmergency
<1>3. x \in WorkType /\ x.tick \in RunningType
  BY <1>2 DEF Retold
<1> HIDE DEF x
<1>4. Retold(x, y, x.emergency, x.tick.want, x.tick.at)
  BY <1>3, RetoldZero
<1>5. y \in WorkType /\ y.tick \in RunningType
  BY <1>4 DEF Retold
<1> HIDE DEF y
<1>6. Retold(y, z, y.emergency, y.tick.want, "lifted")
  BY <1>5, RetoldAt
<1> HIDE DEF z
<1>7. Retold(c, z, FALSE, c.tick.want, "lifted")
  BY <1>2, <1>4, <1>6 DEF Retold
<1> QED
  BY <1>1, <1>7 DEF z

(* What such a change leaves true.                                         *)
LEMMA RetoldSound ==
  ASSUME HouseInv, NEW c, Ready(c), NEW d, NEW on, NEW want, NEW at,
         Retold(c, d, on, want, at),
         <<"emergency", "on">> \in c.held => on,
         at = "raised" => on /\ want \in [Switches -> BOOLEAN] /\ want["grid"]
  PROVE  /\ on = c.emergency => Ready(d)
         /\ at \in {"raised", "lifted"} => Sound(d)
<1>1. /\ Founded(c) /\ LoadKept(c) /\ Quiet(c) /\ Current(c) /\ Stored(c) /\ ~c.tick.save
  BY DEF Ready
<1>2. Founded(d)
  BY <1>1 DEF Founded, Retold
<1>3. LoadKept(d)
  BY <1>1 DEF LoadKept, Retold
<1>4. Quiet(d)
  BY <1>1 DEF Quiet, Retold
<1>5. Current(d)
  BY <1>1 DEF Current, Retold
<1>6. on = c.emergency => Ready(d)
  BY <1>1, <1>2, <1>3, <1>4, <1>5 DEF Ready, Stored, Retold
<1>7. at \in {"raised", "lifted"} => Sound(d)
  BY <1>2, <1>3, <1>4, <1>5 DEF Sound, Retold
<1> QED
  BY <1>6, <1>7

(* The outage is written and waited for, or the tick goes on to the end.   *)
LEMMA JudgeSound ==
  ASSUME HouseInv, NEW c, Ready(c), c.tick.at \in {"read", "lifted"}
  PROVE  /\ Sound(Judge(c)) /\ Judge(c).memory.off = c.memory.off
         /\ c.emergency => Judge(c).emergency
<1> DEFINE failing == ~c.emergency /\ Wish(c)["grid"] /\ PhaseFailure(c)
           begun == IF c.memory.zero = None THEN 0 ELSE c.memory.zero
           zero == IF failing THEN begun ELSE IF c.emergency THEN c.memory.zero ELSE None
           off == [grid |-> TRUE, feedIn |-> FALSE]
           judged == [c EXCEPT !.memory.zero = zero, !.tick.want = Wish(c)]
           raised == Wait([judged EXCEPT !.emergency = TRUE, !.tick.want = off], "raised")
<1>1. /\ c \in WorkType /\ c.tick \in RunningType /\ c.emergency \in BOOLEAN
      /\ Wish(c) \in [Switches -> BOOLEAN] /\ c.memory.zero \in 0..Detection \cup {None}
      /\ Founded(c)
  BY WishKeeps DEF Ready, WorkType, MemoryType
<1>2. off \in [Switches -> BOOLEAN] /\ off["grid"]
  <2>1. /\ DOMAIN off = Switches /\ off = [s \in DOMAIN off |-> off[s]]
        /\ off["grid"] = TRUE /\ off["feedIn"] = FALSE
    BY DEF Switches
  <2> HIDE DEF off
  <2> QED
    BY <2>1 DEF Switches
<1>3. zero \in 0..Detection \cup {None}
  <2>1. begun \in 0..Detection \cup {None}
    BY <1>1
  <2> HIDE DEF begun, failing
  <2> QED
    BY <1>1, <2>1
<1>4. Judge(c) = IF failing /\ begun >= Detection THEN raised ELSE Reconcile(judged)
  BY DEF Judge
<1> HIDE DEF zero
<1>5. Retold(c, judged, c.emergency, Wish(c), c.tick.at)
  BY <1>1, <1>3, JudgedForm
<1> HIDE DEF judged, begun, off
<1>6. judged \in WorkType /\ judged.tick \in RunningType
  BY <1>5 DEF Retold
<1>7. Retold(judged, raised, TRUE, off, "raised")
  BY <1>2, <1>6, RaisedForm
<1> HIDE DEF raised
<1>8. Ready(judged)
  <2>1. <<"emergency", "on">> \in c.held => c.emergency
    BY <1>1 DEF Founded
  <2>2. c.tick.at # "raised"
    OBVIOUS
  <2> QED
    BY <1>5, <2>1, <2>2, RetoldSound
<1>9. Decided(judged)
  <2>1. judged.tick.want = Wish(c) /\ judged.tick.broker = c.tick.broker /\ judged.held = c.held
    BY <1>5 DEF Retold
  <2>2. Measured(judged, "grid") /\ ~Wish(c)["grid"] => c.tick.broker["grid"] # None
    BY <2>1 DEF Measured
  <2> QED
    BY <1>1, <2>1, <2>2, WishKeeps DEF Decided
<1>10. judged.emergency = c.emergency /\ judged.memory.off = c.memory.off
  BY <1>5 DEF Retold
<1>11. CASE failing /\ begun >= Detection
  <2>1. Sound(raised)
    BY <1>2, <1>7, <1>8, RetoldSound
  <2>2. raised.emergency = TRUE /\ raised.memory.off = c.memory.off
    BY <1>7, <1>10 DEF Retold
  <2> QED
    BY <1>4, <1>11, <2>1, <2>2
<1>12. CASE ~(failing /\ begun >= Detection)
  BY <1>4, <1>8, <1>9, <1>10, <1>12, ReconcileSound
<1> QED
  BY <1>11, <1>12

(* The emergency is lifted only by three phases that this tick has seen.   *)
LEMMA LiftSound ==
  ASSUME HouseInv, NEW c, Ready(c), c.tick.at = "read"
  PROVE  /\ Sound(Lift(c)) /\ Lift(c).memory.off = c.memory.off
         /\ c.emergency /\ ~Lift(c).emergency => c.tick.seen["phases"] = "present"
<1>1. CASE c.emergency /\ c.tick.seen["phases"] = "present"
  <2> DEFINE lifted == Wait([c EXCEPT !.emergency = FALSE, !.memory.zero = None], "lifted")
  <2>1. /\ c \in WorkType /\ c.tick \in RunningType /\ <<"emergency", "on">> \notin c.held
    BY <1>1 DEF Ready, Current
  <2>2. Lift(c) = lifted
    BY <1>1 DEF Lift
  <2>3. Retold(c, lifted, FALSE, c.tick.want, "lifted")
    BY <2>1, LiftedForm
  <2> HIDE DEF lifted
  <2>4. Sound(lifted)
    BY <2>1, <2>3, RetoldSound
  <2>5. lifted.memory.off = c.memory.off
    BY <2>3 DEF Retold
  <2> QED
    BY <1>1, <2>2, <2>4, <2>5
<1>2. CASE ~(c.emergency /\ c.tick.seen["phases"] = "present")
  <2>1. Lift(c) = Judge(c)
    BY <1>2 DEF Lift
  <2> QED
    BY <1>2, <2>1, JudgeSound
<1> QED
  BY <1>1, <1>2

-----------------------------------------------------------------------------
(* How a tick begins.                                                      *)
LEMMA MemoryTyped ==
  ASSUME HouseInv, Sound(Now), Patient
  PROVE  MemoryAfter \in MemoryType
<1>1. memory \in MemoryType
  BY DEF Sound, Now, WorkType
<1>2. \A w \in Windows : WindowAfter(w) \in [low : BOOLEAN, high : BOOLEAN]
  BY WindowsAfter
<1>3. LoadAfter.load \in BOOLEAN /\ LoadAfter.off \in 0..OffDelay \cup {None}
  BY LoadAfterReading
<1>4. Older(memory.zero, Detection) \in 0..Detection \cup {None}
  <2>1. memory.zero \in 0..Detection \cup {None}
    BY <1>1 DEF MemoryType
  <2> QED
    BY <2>1, OlderAge
<1>5. ShiftAfter \in BOOLEAN
  BY DEF ShiftAfter
<1>6. (memory.adopted \/ cache["grid"] # None) \in BOOLEAN
  OBVIOUS
<1> QED
  BY <1>1, <1>2, <1>3, <1>4, <1>5, <1>6 DEF MemoryAfter, MemoryType

LEMMA TrackOlder ==
  ASSUME HouseInv, Sound(Now), NEW s \in Switches
  PROVE  /\ Begun.track[s] \in TrackType
         /\ Begun.track[s].desired = track[s].desired
<1> DEFINE x == [track[s] EXCEPT !.since = Older(@, Republish)]
           y == [x EXCEPT !.seen = Older(@, MaxStep)]
<1>1. track[s] \in TrackType
  BY DEF Sound, Now, WorkType
<1>2. Older(track[s].since, Republish) \in 0..Republish
  <2>1. track[s].since \in 0..Republish /\ None \notin 0..Republish
    BY <1>1 DEF TrackType
  <2>2. Older(track[s].since, Republish) \in 0..Republish \cup {None}
    BY <2>1, OlderAge
  <2>3. Older(track[s].since, Republish) # None
    BY <2>1, OlderAge
  <2> QED
    BY <2>2, <2>3
<1>3. Older(track[s].seen, MaxStep) \in 0..MaxStep \cup {None}
  <2>1. track[s].seen \in 0..MaxStep \cup {None}
    BY <1>1 DEF TrackType
  <2> QED
    BY <2>1, OlderAge
<1>4. x \in TrackType /\ x.desired = track[s].desired /\ x.seen = track[s].seen
  BY <1>1, <1>2 DEF TrackType
<1>5. Begun.track[s] = y
  BY <1>1 DEF Begun, TrackType
<1> HIDE DEF x
<1>6. y \in TrackType /\ y.desired = x.desired
  BY <1>3, <1>4 DEF TrackType
<1> QED
  BY <1>4, <1>5, <1>6

LEMMA BegunTyped ==
  ASSUME HouseInv, Sound(Now), Patient
  PROVE  Begun \in WorkType /\ Begun.tick \in RunningType
<1>1. /\ emergency \in BOOLEAN /\ disk \in DiskType /\ track \in [Switches -> TrackType]
      /\ wire \in Reported /\ held \subseteq Causes
  BY DEF Sound, Now, WorkType
<1>2. Begun.memory \in MemoryType
  BY MemoryTyped DEF Begun
<1>3. Begun.disk \in DiskType
  <2>1. Older(disk.off, OffDelay) \in 0..OffDelay \cup {None}
    <3>1. disk.off \in 0..OffDelay \cup {None}
      BY <1>1 DEF DiskType
    <3> QED
      BY <3>1, OlderAge
  <2>2. Begun.disk = [disk EXCEPT !.off = Older(disk.off, OffDelay)]
    BY DEF Begun
  <2> QED
    BY <1>1, <2>1, <2>2 DEF DiskType
<1>4. Begun.track \in [Switches -> TrackType]
  <2>1. Begun.track = [s \in Switches |-> Begun.track[s]]
    BY DEF Begun
  <2> QED
    BY <2>1, TrackOlder
<1>5. Begun.tick \in RunningType
  <2>1. Saves \in BOOLEAN /\ HasMeasurement \in BOOLEAN
    BY DEF Saves, HasMeasurement
  <2>2. cache \in Reported /\ connected \in BOOLEAN /\ Seen \in SeenType
    BY SeenTyped DEF HouseInv
  <2>3. Begun.tick = [at |-> "read", save |-> Saves, has |-> HasMeasurement, seen |-> Seen,
                      broker |-> cache, connected |-> connected, want |-> None]
    BY DEF Begun
  <2> QED
    BY <2>1, <2>2, <2>3 DEF RunningType
<1>6. Begun = [memory |-> Begun.memory, emergency |-> emergency, disk |-> Begun.disk,
               track |-> Begun.track, wire |-> wire, held |-> held \ Over,
               tick |-> Begun.tick]
  BY DEF Begun
<1> QED
  BY <1>1, <1>2, <1>3, <1>4, <1>5, <1>6 DEF WorkType

LEMMA BegunSound ==
  ASSUME HouseInv, Sound(Now), Patient, tick = Idle
  PROVE  /\ Sound(Begun) /\ Begun.tick \in RunningType /\ Begun.tick.at = "read"
         /\ Stored(Begun) /\ Current(Begun)
         /\ Begun.tick.save = Saves /\ Begun.tick.seen = Seen /\ Begun.emergency = emergency
<1>1. /\ Begun.memory = MemoryAfter /\ Begun.emergency = emergency
      /\ Begun.disk = [disk EXCEPT !.off = Older(disk.off, OffDelay)]
      /\ Begun.held = held \ Over
      /\ Begun.tick.at = "read" /\ Begun.tick.save = Saves /\ Begun.tick.seen = Seen
      /\ Begun.tick.broker = cache
  BY DEF Begun
<1>2. /\ MemoryAfter.window = [w \in Windows |-> WindowAfter(w)]
      /\ MemoryAfter.load = LoadAfter.load /\ MemoryAfter.off = LoadAfter.off
      /\ MemoryAfter.initialized = memory.initialized
      /\ MemoryAfter.adopted = (memory.adopted \/ cache["grid"] # None)
  BY DEF MemoryAfter
<1>3. /\ disk \in DiskType /\ memory \in MemoryType /\ held \subseteq Causes
      /\ cache["grid"] \in BOOLEAN \cup {None}
      /\ disk.off \in 0..OffDelay \cup {None} /\ disk.load \in BOOLEAN
      /\ memory.load \in BOOLEAN /\ memory.initialized \in BOOLEAN
      /\ disk.initialized \in BOOLEAN
  BY DEF Sound, Now, WorkType, HouseInv, Reported, Switches, DiskType, MemoryType
<1>4. /\ Begun.disk.load = disk.load /\ Begun.disk.initialized = disk.initialized
      /\ Begun.disk.emergency = disk.emergency
      /\ Begun.disk.off = Older(disk.off, OffDelay)
  BY <1>1, <1>3 DEF DiskType
<1>5. Idle.at = "idle" /\ Idle.save = FALSE
  BY DEF Idle
<1>6. Founded(Now) /\ LoadKept(Now) /\ Quiet(Now) /\ disk.emergency = emergency
  BY <1>5 DEF Sound, Stored, Now
<1>7. Now.memory = memory /\ Now.disk = disk /\ Now.held = held /\ Now.track = track
      /\ Now.emergency = emergency /\ Now.tick = tick
  BY DEF Now
<1>8. Founded(Begun)
  <2>1. ASSUME NEW w \in Windows, NEW b \in {"low", "high"}
        PROVE  /\ Begun.memory.window[w][b] => w \in Enabled
               /\ <<w, b>> \in Begun.held =>
                    w \in Enabled /\ (Begun.memory.adopted => Begun.memory.window[w][b])
    <3>1. Begun.memory.window[w] = WindowAfter(w)
      BY <1>1, <1>2
    <3>2. <<w, b>> \in Begun.held /\ Begun.memory.adopted =>
            memory.adopted \/ cache["grid"] = TRUE
      BY <1>1, <1>2, <1>3, <1>6, <1>7 DEF Quiet
    <3>3. <<w, b>> \in Begun.held => w \in Enabled
      BY <1>1, <1>6, <1>7 DEF Founded
    <3>4. <<w, b>> \in Begun.held /\ Begun.memory.adopted => WindowAfter(w)[b]
      BY <1>1, <3>2, WindowsAfter
    <3>5. WindowAfter(w)[b] => w \in Enabled
      BY WindowsAfter
    <3> QED
      BY <3>1, <3>3, <3>4, <3>5
  <2>2. <<"loads", "on">> \in Begun.held => Begun.memory.load
    <3>1. <<"loads", "on">> \in held => memory.load /\ "loads" \in Enabled
      BY <1>6, <1>7 DEF Founded, LoadKept
    <3> QED
      BY <1>1, <1>2, <3>1, LoadAfterReading
  <2>3. /\ <<"soc", "high">> \in Begun.held => limit.feedIn
        /\ <<"warning", "on">> \in Begun.held => "warning" \in Enabled
        /\ <<"emergency", "on">> \in Begun.held => Begun.emergency /\ Begun.disk.emergency
    BY <1>1, <1>4, <1>6, <1>7 DEF Founded
  <2> QED
    BY <2>1, <2>2, <2>3 DEF Founded
<1>9. LoadKept(Begun)
  <2>1. LoadAfter.load \/ disk.load => "loads" \in Enabled
    BY <1>6, <1>7, LoadAfterReading DEF LoadKept
  <2>2. LoadAfter.off # None => LoadAfter.load
    BY LoadAfterReading
  <2>3. Older(disk.off, OffDelay) # None => disk.load
    BY <1>3, <1>6, <1>7, OlderAge DEF LoadKept
  <2>4. memory.initialized = disk.initialized /\ (disk.load => disk.initialized)
    BY <1>6, <1>7 DEF LoadKept
  <2>5. memory.load = disk.load /\ memory.off = disk.off
    BY <1>5, <1>6, <1>7 DEF LoadKept
  <2>6. ASSUME ~Saves
        PROVE  LoadAfter.load = disk.load /\ LoadAfter.off = Older(disk.off, OffDelay)
    <3>1. CASE memory.initialized
      <4>1. /\ LoadAfter.load = memory.load
            /\ (LoadAfter.off = None) = (memory.off = None)
        BY <1>2, <2>6, <3>1 DEF Saves
      <4>2. CASE memory.off = None
        BY <1>3, <2>5, <4>1, <4>2, OlderAge
      <4>3. CASE memory.off # None
        BY <2>5, <4>1, <4>3, LoadAfterReading
      <4> QED
        BY <2>5, <4>1, <4>2, <4>3
    <3>2. CASE ~memory.initialized
      <4>1. ~LoadAfter.load
        BY <1>2, <2>6, <3>2 DEF Saves
      <4>2. ~disk.load
        BY <2>4, <3>2
      <4>3. LoadAfter.load \in BOOLEAN
        BY LoadAfterReading
      <4>4. LoadAfter.off = None /\ Older(disk.off, OffDelay) = None
        BY <2>2, <2>3, <4>1, <4>2
      <4> QED
        BY <1>3, <4>1, <4>2, <4>3, <4>4
    <3> QED
      BY <3>1, <3>2
  <2> QED
    BY <1>1, <1>2, <1>4, <2>1, <2>2, <2>3, <2>4, <2>6 DEF LoadKept
<1>10. Quiet(Begun)
  <2>1. Begun.track["grid"].desired = track["grid"].desired
    BY TrackOlder DEF Switches
  <2> QED
    BY <1>1, <1>2, <1>6, <1>7, <2>1 DEF Quiet
<1>11. Current(Begun)
  <2>1. cache["grid"] = FALSE => Begun.held = {}
    BY <1>1, <1>6, <1>7 DEF Quiet
  <2>2. Seen["warning"] = FALSE => <<"warning", "on">> \notin Begun.held
    BY <1>1 DEF Over
  <2>3. Seen["phases"] = "present" => <<"emergency", "on">> \notin Begun.held
    BY <1>1 DEF Over
  <2> QED
    BY <1>1, <1>2, <2>1, <2>2, <2>3 DEF Current
<1>12. Stored(Begun)
  BY <1>1, <1>4, <1>6 DEF Stored
<1> QED
  BY <1>1, <1>8, <1>9, <1>10, <1>11, <1>12, BegunTyped DEF Sound

(* How a tick goes on when the database has written.                       *)
LEMMA WrittenReady ==
  ASSUME HouseInv, Sound(Now), tick # Idle
  PROVE  /\ Ready(Written) /\ Written.memory.off = memory.off
         /\ Written.emergency = emergency /\ Written.tick.at = tick.at
         /\ Written.tick.want = tick.want /\ Written.tick.seen = tick.seen
<1> DEFINE w == Written
           full == [load |-> memory.load, off |-> memory.off, initialized |-> TRUE,
                    emergency |-> emergency]
           m == IF tick.save THEN [memory EXCEPT !.initialized = TRUE] ELSE memory
           f == IF tick.save THEN full ELSE [disk EXCEPT !.emergency = emergency]
           t == [tick EXCEPT !.save = FALSE]
<1>1. /\ memory \in MemoryType /\ disk \in DiskType /\ emergency \in BOOLEAN
      /\ track \in [Switches -> TrackType] /\ wire \in Reported /\ held \subseteq Causes
      /\ tick \in RunningType /\ tick.save \in BOOLEAN
      /\ Founded(Now) /\ LoadKept(Now) /\ Quiet(Now) /\ Current(Now)
      /\ memory.off \in 0..OffDelay \cup {None} /\ memory.load \in BOOLEAN
  BY DEF Sound, Now, WorkType, RunningType, MemoryType
<1>2. /\ Now.memory = memory /\ Now.disk = disk /\ Now.held = held /\ Now.track = track
      /\ Now.emergency = emergency /\ Now.tick = tick
  BY DEF Now
<1>3. /\ m \in MemoryType /\ m.window = memory.window /\ m.load = memory.load
      /\ m.off = memory.off /\ m.adopted = memory.adopted
      /\ tick.save => m.initialized = TRUE
      /\ ~tick.save => m.initialized = memory.initialized
  BY <1>1 DEF MemoryType
<1>4. /\ f \in DiskType /\ f.emergency = emergency
      /\ tick.save => f.load = memory.load /\ f.off = memory.off /\ f.initialized = TRUE
      /\ ~tick.save => /\ f.load = disk.load /\ f.off = disk.off
                       /\ f.initialized = disk.initialized
  BY <1>1 DEF DiskType
<1>5. /\ t \in RunningType /\ t.at = tick.at /\ t.seen = tick.seen /\ t.want = tick.want
      /\ t.broker = tick.broker /\ t.save = FALSE
  BY <1>1 DEF RunningType
<1>6. w = [memory |-> m, emergency |-> emergency, disk |-> f, track |-> track,
           wire |-> wire, held |-> held, tick |-> t]
  <2>1. Now = [memory |-> memory, emergency |-> emergency, disk |-> disk, track |-> track,
               wire |-> wire, held |-> held, tick |-> tick]
    BY DEF Now
  <2>2. CASE tick.save
    <3> DEFINE stored == [Now EXCEPT !.disk = full]
               marked == [stored EXCEPT !.memory.initialized = TRUE]
    <3>1. m = [memory EXCEPT !.initialized = TRUE] /\ f = full
      BY <2>2
    <3>2. w = [marked EXCEPT !.tick.save = FALSE]
      <4>1. w = [[Now EXCEPT !.disk = full, !.memory.initialized = TRUE]
                   EXCEPT !.tick.save = FALSE]
        BY <2>2 DEF Written
      <4>2. [Now EXCEPT !.disk = full, !.memory.initialized = TRUE] = marked
        BY <2>1
      <4> QED
        BY <4>1, <4>2
    <3> HIDE DEF w, m, f, full
    <3>3. stored = [memory |-> memory, emergency |-> emergency, disk |-> f, track |-> track,
                    wire |-> wire, held |-> held, tick |-> tick]
      BY <2>1, <3>1
    <3> HIDE DEF stored
    <3>4. marked = [memory |-> m, emergency |-> emergency, disk |-> f, track |-> track,
                    wire |-> wire, held |-> held, tick |-> tick]
      <4>1. stored.memory = memory
        BY <3>3
      <4>2. marked = [stored EXCEPT !.memory = m]
        BY <3>1, <4>1
      <4> HIDE DEF marked
      <4> QED
        BY <3>3, <4>2
    <3> HIDE DEF marked
    <3> QED
      BY <3>2, <3>4
  <2>3. CASE ~tick.save
    <3> DEFINE stored == [Now EXCEPT !.disk.emergency = emergency]
    <3>1. m = memory /\ f = [disk EXCEPT !.emergency = emergency]
      BY <2>3
    <3>2. w = [stored EXCEPT !.tick.save = FALSE]
      BY <2>3 DEF Written
    <3> HIDE DEF w, m, f
    <3>3. stored = [memory |-> m, emergency |-> emergency, disk |-> f, track |-> track,
                    wire |-> wire, held |-> held, tick |-> tick]
      BY <2>1, <3>1
    <3> HIDE DEF stored
    <3> QED
      BY <3>2, <3>3
  <2> QED
    BY <2>2, <2>3
<1> HIDE DEF w, m, f, t, full
<1>7. w \in WorkType
  BY <1>1, <1>3, <1>4, <1>5, <1>6 DEF WorkType
<1>8. Founded(w)
  BY <1>1, <1>2, <1>3, <1>4, <1>6 DEF Founded
<1>9. LoadKept(w)
  <2>1. CASE tick.save
    BY <1>1, <1>2, <1>3, <1>4, <1>6, <2>1 DEF LoadKept
  <2>2. CASE ~tick.save
    BY <1>1, <1>2, <1>3, <1>4, <1>6, <2>2 DEF LoadKept
  <2> QED
    BY <2>1, <2>2
<1>10. Quiet(w)
  BY <1>1, <1>2, <1>3, <1>6 DEF Quiet
<1>11. Current(w)
  BY <1>1, <1>2, <1>3, <1>5, <1>6 DEF Current
<1>12. Stored(w)
  BY <1>4, <1>6 DEF Stored
<1> QED
  BY <1>3, <1>5, <1>6, <1>7, <1>8, <1>9, <1>10, <1>11, <1>12 DEF Ready, w

-----------------------------------------------------------------------------
(* The actions.                                                            *)
LEMMA Becomes ==
  ASSUME NEW c \in WorkType, Become(c)
  PROVE  Now' = c
<1>1. c = [memory |-> c.memory, emergency |-> c.emergency, disk |-> c.disk,
           track |-> c.track, wire |-> c.wire, held |-> c.held, tick |-> c.tick]
  BY DEF WorkType
<1> QED
  BY <1>1 DEF Become, Now

LEMMA Carried ==
  ASSUME NEW c, Sound(c), Become(c), UNCHANGED <<cache, limit>>
  PROVE  Sound(Now)' /\ memory'.off = c.memory.off /\ emergency' = c.emergency
<1>1. c \in WorkType
  BY DEF Sound
<1>2. Now' = c
  BY <1>1, Becomes
<1> QED
  BY <1>2 DEF Sound, Founded, LoadKept, Quiet, Current, Stored, Become

LEMMA SpendTyped ==
  ASSUME HouseInv, NEW k \in {"drops", "losses", "restarts", "externals", "acks", "waits"},
         Spend(k)
  PROVE  /\ count' \in CountType /\ count'.houses \in 1..Len(limit.houses)
         /\ \A what \in DOMAIN count' \ {"houses"} : count'[what] <= limit[what]
<1>1. /\ count \in CountType /\ count.houses \in 1..Len(limit.houses)
      /\ \A what \in DOMAIN count \ {"houses"} : count[what] <= limit[what]
      /\ count[k] < limit[k] /\ count' = [count EXCEPT ![k] = count[k] + 1]
      /\ limit[k] \in Nat /\ count[k] \in Nat /\ k \in DOMAIN count
  BY DEF HouseInv, Spend, LimitType, CountType
<1>2. count' \in CountType
  <2>1. count[k] + 1 \in Nat
    BY <1>1
  <2>2. \A n \in Nat : [count EXCEPT ![k] = n] \in CountType
    <3>1. CASE k = "drops"
      BY <1>1, <3>1 DEF CountType
    <3>2. CASE k = "losses"
      BY <1>1, <3>2 DEF CountType
    <3>3. CASE k = "restarts"
      BY <1>1, <3>3 DEF CountType
    <3>4. CASE k = "externals"
      BY <1>1, <3>4 DEF CountType
    <3>5. CASE k = "acks"
      BY <1>1, <3>5 DEF CountType
    <3>6. CASE k = "waits"
      BY <1>1, <3>6 DEF CountType
    <3> QED
      BY <3>1, <3>2, <3>3, <3>4, <3>5, <3>6
  <2> QED
    BY <1>1, <2>1, <2>2
<1>3. DOMAIN count' = DOMAIN count /\ count'.houses = count.houses
  BY <1>1 DEF CountType
<1>4. ASSUME NEW what \in DOMAIN count \ {"houses"}
      PROVE  count'[what] <= limit[what]
  BY <1>1, <1>4
<1> QED
  BY <1>1, <1>2, <1>3, <1>4

LEMMA InitSound == Init => IInv
<1> SUFFICES ASSUME Init PROVE IInv
  OBVIOUS
<1>1. /\ limit \in LimitType /\ limit.houses \in Seq(InputType) /\ limit.houses # <<>>
      /\ Len(limit.houses) \in Nat /\ Len(limit.houses) >= 1
      /\ limit.houses[1] \in InputType
  BY DEF Init, LimitType
<1>2. cache \in Reported /\ wire \in Reported
  BY DEF Init, Reported
<1>3. HouseInv
  <2>1. count \in CountType /\ count.houses = 1
    BY DEF Init, CountType
  <2>2. \A what \in DOMAIN count \ {"houses"} : count[what] <= limit[what]
    BY <1>1 DEF Init, LimitType
  <2>3. /\ limit \in Limits /\ input \in InputType /\ known \subseteq Measures
        /\ connected \in BOOLEAN /\ contactor \in [Switches -> BOOLEAN]
    BY <1>1 DEF Init
  <2>4. gap \in 0..MaxGap /\ calmFor \in 0..OffDelay \cup {None}
    BY DEF Init
  <2>5. count.houses \in 1..Len(limit.houses)
    BY <1>1, <2>1
  <2> QED
    BY <1>2, <2>1, <2>2, <2>3, <2>4, <2>5 DEF HouseInv
<1>4. Now \in WorkType
  <2>1. disk \in DiskType
    BY DEF Init, DiskType
  <2>2. memory \in MemoryType
    BY DEF Init, Fresh, Closed, MemoryType
  <2>3. track \in [Switches -> TrackType]
    BY DEF Init, NoTrack, TrackType
  <2> QED
    BY <1>2, <2>1, <2>2, <2>3 DEF Init, Now, WorkType
<1>5. Founded(Now) /\ LoadKept(Now) /\ Quiet(Now) /\ Stored(Now) /\ Patient
  <2>1. /\ held = {} /\ memory.off = None /\ memory.load = FALSE /\ memory.initialized = FALSE
        /\ memory.window = [w \in Windows |-> [low |-> FALSE, high |-> FALSE]]
        /\ disk.off = None /\ disk.load = FALSE /\ disk.initialized = FALSE
        /\ disk.emergency = FALSE /\ emergency = FALSE
    BY DEF Init, Fresh, Closed
  <2>2. track["grid"].desired = None /\ None # FALSE
    BY DEF Init, NoTrack, Switches
  <2>3. /\ Now.memory = memory /\ Now.disk = disk /\ Now.held = held /\ Now.track = track
        /\ Now.emergency = emergency
    BY DEF Now
  <2>4. \A w \in Windows, b \in {"low", "high"} : memory.window[w][b] = FALSE
    BY <2>1
  <2>5. Founded(Now)
    BY <2>1, <2>3, <2>4 DEF Founded
  <2>6. LoadKept(Now)
    BY <2>1, <2>3 DEF LoadKept
  <2>7. Quiet(Now)
    BY <2>1, <2>2, <2>3 DEF Quiet
  <2> QED
    BY <2>1, <2>3, <2>5, <2>6, <2>7 DEF Stored, Patient
<1> QED
  BY <1>3, <1>4, <1>5 DEF IInv, Sound, Init, Now

(* A tick begins: time is counted anew, and the loads have been low for as *)
(* long as the tick has counted.                                           *)
LEMMA ReadSound ==
  ASSUME IInv, Read
  PROVE  IInv' /\ (emergency /\ ~emergency' => Seen["phases"] = "present")
<1>1. /\ HouseInv /\ Sound(Now) /\ Patient /\ tick = Idle
      /\ UNCHANGED <<input, known, connected, cache, contactor, limit>> /\ gap' = 0
      /\ calmFor' = IF Seen["loads"] # "below" THEN None
                    ELSE IF calmFor = None THEN 0 ELSE Older(calmFor, OffDelay)
  BY DEF IInv, Read, houseVars
<1>2. /\ Sound(Begun) /\ Begun.tick \in RunningType /\ Begun.tick.at = "read"
      /\ Stored(Begun) /\ Current(Begun) /\ Begun.tick.save = Saves
      /\ Begun.tick.seen = Seen /\ Begun.emergency = emergency
  BY <1>1, BegunSound
<1>3. ~Saves => /\ Sound(Lift(Begun)) /\ Lift(Begun).memory.off = Begun.memory.off
                /\ Begun.emergency /\ ~Lift(Begun).emergency =>
                     Begun.tick.seen["phases"] = "present"
  <2> SUFFICES ASSUME ~Saves
               PROVE  Ready(Begun)
    BY <1>1, <1>2, LiftSound
  <2> QED
    BY <1>2 DEF Ready, Sound
<1>4. /\ UNCHANGED count \/ Spend("waits")
      /\ \/ ~Saves /\ Become(Lift(Begun))
         \/ Become(Begun)
  BY DEF Read
<1>5. /\ Sound(Now)' /\ memory'.off = Begun.memory.off
      /\ emergency /\ ~emergency' => Seen["phases"] = "present"
  <2>1. CASE ~Saves /\ Become(Lift(Begun))
    BY <1>1, <1>2, <1>3, <2>1, Carried
  <2>2. CASE Become(Begun)
    BY <1>1, <1>2, <2>2, Carried
  <2> QED
    BY <1>4, <2>1, <2>2
<1>6. calmFor \in 0..OffDelay \cup {None} /\ gap \in Nat /\ None \notin Nat
  BY <1>1 DEF HouseInv
<1>7. calmFor' \in 0..OffDelay \cup {None}
  BY <1>1, <1>6, OlderAge
<1>8. Patient'
  <2>1. Begun.memory.off = LoadAfter.off
    BY DEF Begun, MemoryAfter
  <2> SUFFICES ASSUME LoadAfter.off # None
               PROVE  calmFor' # None /\ LoadAfter.off <= calmFor'
    BY <1>5, <2>1 DEF Patient
  <2>2. /\ LoadAfter.load /\ Seen["loads"] = "below" /\ LoadAfter.off \in 0..OffDelay
        /\ memory.off # None => LoadAfter.off = Older(memory.off, OffDelay)
        /\ memory.off = None => LoadAfter.off = 0
    BY <1>1, LoadAfterReading
  <2>3. calmFor' = IF calmFor = None THEN 0 ELSE Older(calmFor, OffDelay)
    BY <1>1, <2>2
  <2>4. CASE memory.off = None
    <3>1. calmFor' \in 0..OffDelay
      <4>1. CASE calmFor = None
        BY <2>3, <4>1
      <4>2. CASE calmFor # None
        BY <1>1, <1>6, <2>3, <4>2, OlderAge
      <4> QED
        BY <4>1, <4>2
    <3> QED
      BY <1>6, <2>2, <2>4, <3>1
  <2>5. CASE memory.off # None
    <3>1. memory.off \in 0..OffDelay
      BY <1>1, <2>5 DEF Sound, Now, WorkType, MemoryType
    <3>2. calmFor \in 0..OffDelay /\ memory.off <= calmFor
      BY <1>1, <1>6, <2>5 DEF Patient
    <3>3. LoadAfter.off =
            IF memory.off + gap <= OffDelay THEN memory.off + gap ELSE OffDelay
      <4>1. LoadAfter.off = Older(memory.off, OffDelay)
        BY <2>2, <2>5
      <4> QED
        BY <1>1, <1>6, <2>5, <3>1, <4>1, OlderAge
    <3>4. calmFor' = IF calmFor + gap <= OffDelay THEN calmFor + gap ELSE OffDelay
      <4>1. calmFor # None
        BY <1>6, <3>2
      <4>2. calmFor' = Older(calmFor, OffDelay)
        BY <2>3, <4>1
      <4> QED
        BY <1>1, <3>2, <4>1, <4>2, OlderAge
    <3> QED
      BY <1>6, <3>1, <3>2, <3>3, <3>4
  <2> QED
    BY <2>4, <2>5
<1>9. HouseInv'
  <2>1. /\ count' \in CountType /\ count'.houses \in 1..Len(limit.houses)
        /\ \A what \in DOMAIN count' \ {"houses"} : count'[what] <= limit[what]
    BY <1>1, <1>4, SpendTyped DEF HouseInv
  <2> QED
    BY <1>1, <1>7, <2>1 DEF HouseInv
<1> QED
  BY <1>5, <1>8, <1>9 DEF IInv

(* The database answers: a tick has either not begun to write what ends    *)
(* the emergency, or has ended it in an earlier step.                      *)
LEMMA ResumeSound ==
  ASSUME IInv, Resume
  PROVE  IInv' /\ (emergency /\ ~emergency' => tick.seen["phases"] = "present")
<1>1. /\ HouseInv /\ Sound(Now) /\ Patient /\ tick # Idle
      /\ UNCHANGED <<input, known, connected, cache, contactor, calmFor, gap, limit, count>>
  BY DEF IInv, Resume, houseVars
<1>2. /\ Ready(Written) /\ Written.memory.off = memory.off
      /\ Written.emergency = emergency /\ Written.tick.at = tick.at
      /\ Written.tick.want = tick.want /\ Written.tick.seen = tick.seen
  BY <1>1, WrittenReady
<1>3. tick.at \in {"read", "lifted", "raised"}
  BY <1>1 DEF Sound, Now, WorkType, RunningType
<1>4. /\ Sound(Now)' /\ memory'.off = memory.off
      /\ emergency /\ ~emergency' => tick.seen["phases"] = "present"
  <2>1. CASE tick.at = "read"
    <3>1. Become(Lift(Written))
      BY <2>1 DEF Resume
    <3>2. /\ Sound(Lift(Written)) /\ Lift(Written).memory.off = Written.memory.off
          /\ Written.emergency /\ ~Lift(Written).emergency =>
               Written.tick.seen["phases"] = "present"
      BY <1>1, <1>2, <2>1, LiftSound
    <3> QED
      BY <1>1, <1>2, <3>1, <3>2, Carried
  <2>2. CASE tick.at = "lifted"
    <3>1. Become(Judge(Written))
      BY <2>2 DEF Resume
    <3>2. /\ Sound(Judge(Written)) /\ Judge(Written).memory.off = Written.memory.off
          /\ Written.emergency => Judge(Written).emergency
      BY <1>1, <1>2, <2>2, JudgeSound
    <3> QED
      BY <1>1, <1>2, <3>1, <3>2, Carried
  <2>3. CASE tick.at = "raised"
    <3>1. Become(Reconcile(Written))
      BY <2>3 DEF Resume
    <3>2. Decided(Written)
      BY <1>2, <2>3 DEF Ready, Current, Decided
    <3>3. /\ Sound(Reconcile(Written)) /\ Reconcile(Written).emergency = Written.emergency
          /\ Reconcile(Written).memory.off = Written.memory.off
      BY <1>1, <1>2, <3>2, ReconcileSound
    <3> QED
      BY <1>1, <1>2, <3>1, <3>3, Carried
  <2> QED
    BY <1>3, <2>1, <2>2, <2>3
<1>5. Patient'
  BY <1>1, <1>4 DEF Patient
<1>6. HouseInv'
  BY <1>1 DEF HouseInv
<1> QED
  BY <1>4, <1>5, <1>6 DEF IInv

(* The process ends and starts.  A reason for the load is given up with a  *)
(* write that is lost; every other cause is in the file, or is taken over  *)
(* from the contactor before anything is sent off.                         *)
LEMMA RestartSound ==
  ASSUME IInv, Restart
  PROVE  IInv' /\ emergency' = disk.emergency
<1>1. /\ HouseInv /\ Sound(Now) /\ Patient
      /\ memory' = Fresh(disk) /\ emergency' = disk.emergency /\ known' = {}
      /\ connected' = FALSE /\ cache' = [s \in Switches |-> None]
      /\ track' = [s \in Switches |-> NoTrack] /\ tick' = Idle
      /\ held' = IF tick.save THEN held \ {<<"loads", "on">>} ELSE held
      /\ calmFor' = IF tick.save THEN disk.off ELSE calmFor
      /\ UNCHANGED wire \/ wire' = [s \in Switches |-> None]
      /\ UNCHANGED <<input, contactor, disk, gap, limit>>
  BY DEF IInv, Restart
<1>2. /\ Founded(Now) /\ LoadKept(Now) /\ Quiet(Now)
      /\ disk \in DiskType /\ wire \in Reported /\ held \subseteq Causes
      /\ Now.memory = memory /\ Now.disk = disk /\ Now.held = held /\ Now.tick = tick
      /\ Now.emergency = emergency
  BY <1>1 DEF Sound, Now, WorkType
<1>3. /\ disk.load \in BOOLEAN /\ disk.off \in 0..OffDelay \cup {None}
      /\ disk.initialized \in BOOLEAN /\ disk.emergency \in BOOLEAN
  BY <1>2 DEF DiskType
<1>4. /\ memory'.load = disk.load /\ memory'.off = disk.off
      /\ memory'.initialized = disk.initialized /\ memory'.adopted = FALSE
      /\ \A w \in Windows, b \in {"low", "high"} : memory'.window[w][b] = FALSE
      /\ memory' \in MemoryType
  BY <1>1, <1>3 DEF Fresh, Closed, MemoryType
<1>5. track' \in [Switches -> TrackType] /\ track'["grid"].desired = None
  BY <1>1 DEF NoTrack, TrackType, Switches
<1>6. cache' \in Reported /\ wire' \in Reported /\ cache'["grid"] = None
  BY <1>1, <1>2 DEF Reported, Switches
<1>7. held' \subseteq held
  BY <1>1
<1>8. (Now \in WorkType)'
  BY <1>1, <1>2, <1>3, <1>4, <1>5, <1>6, <1>7 DEF Now, WorkType
<1>9. Founded(Now)'
  <2>1. <<"loads", "on">> \in held' => disk.load
    BY <1>1, <1>2 DEF Founded, LoadKept
  <2> QED
    BY <1>1, <1>2, <1>4, <1>7, <2>1 DEF Founded, Now
<1>10. LoadKept(Now)'
  BY <1>1, <1>2, <1>4 DEF LoadKept, Now
<1>11. Quiet(Now)'
  BY <1>5, <1>6 DEF Quiet, Now
<1>12. Stored(Now)' /\ tick' = Idle
  BY <1>1 DEF Stored, Now
<1>13. Sound(Now)'
  BY <1>8, <1>9, <1>10, <1>11, <1>12 DEF Sound, Now
<1>14. Patient'
  <2>1. CASE tick.save
    BY <1>1, <1>3, <1>4, <2>1 DEF Patient
  <2>2. CASE ~tick.save
    <3>1. memory.off = disk.off /\ calmFor' = calmFor
      BY <1>1, <1>2, <2>2 DEF LoadKept
    <3> QED
      BY <1>1, <1>4, <3>1 DEF Patient
  <2> QED
    BY <2>1, <2>2
<1>15. HouseInv'
  <2>1. Spend("restarts")
    BY DEF Restart
  <2>2. calmFor' \in 0..OffDelay \cup {None}
    BY <1>1, <1>3 DEF HouseInv
  <2> QED
    BY <1>1, <1>6, <2>1, <2>2, SpendTyped DEF HouseInv
<1> QED
  BY <1>1, <1>13, <1>14, <1>15 DEF IInv

(* A step that leaves the process and its file alone.                      *)
LEMMA Apart ==
  ASSUME IInv, UNCHANGED <<memory, emergency, disk, tick, limit>>,
         track' \in [Switches -> TrackType], track'["grid"].desired = track["grid"].desired,
         wire' \in Reported, held' \subseteq held,
         cache'["grid"] = FALSE => cache["grid"] = FALSE \/ held' = {}
  PROVE  Sound(Now)'
<1>1. /\ Sound(Now) /\ Now \in WorkType
      /\ Founded(Now) /\ LoadKept(Now) /\ Quiet(Now) /\ (tick # Idle => Current(Now))
      /\ (tick.at \notin {"raised", "lifted"} => Stored(Now))
  BY DEF IInv, Sound, Now
<1>2. (Now \in WorkType)'
  BY <1>1 DEF Now, WorkType
<1>3. Founded(Now)'
  BY <1>1 DEF Founded, Now
<1>4. LoadKept(Now)'
  BY <1>1 DEF LoadKept, Now
<1>5. Quiet(Now)'
  BY <1>1 DEF Quiet, Now
<1>6. tick # Idle => Current(Now)'
  BY <1>1 DEF Current, Now
<1>7. tick.at \notin {"raised", "lifted"} => Stored(Now)'
  BY <1>1 DEF Stored, Now
<1> QED
  BY <1>2, <1>3, <1>4, <1>5, <1>6, <1>7 DEF Sound, Now

LEMMA AcknowledgeSound ==
  ASSUME IInv, Acknowledge
  PROVE  IInv'
<1>1. /\ HouseInv /\ Patient /\ Now \in WorkType /\ Spend("acks")
      /\ UNCHANGED <<input, known, connected, cache, contactor, wire, memory, emergency, disk,
                     tick, gap, held, calmFor, limit>>
  BY DEF IInv, Sound, Acknowledge, houseVars, wireVars, historyVars
<1>2. ASSUME NEW s \in Switches
      PROVE  track'[s] \in TrackType /\ track'[s].desired = track[s].desired
  <2>1. track[s] \in TrackType
    BY <1>1 DEF Now, WorkType
  <2> DEFINE u == [track[s] EXCEPT !.unconfirmed = 0]
             v == [u EXCEPT !.attempts = 0]
             x == [v EXCEPT !.warned = FALSE]
             y == [x EXCEPT !.seen = None]
  <2>2. track'[s] = y
    BY <2>1 DEF Acknowledge
  <2>3. u \in TrackType /\ u.desired = track[s].desired
    <3>1. 0 \in 0..WarnAfter
      OBVIOUS
    <3> QED
      BY <2>1, <3>1 DEF TrackType
  <2> HIDE DEF u
  <2>4. v \in TrackType /\ v.desired = u.desired
    BY <2>3 DEF TrackType
  <2> HIDE DEF v
  <2>5. x \in TrackType /\ x.desired = v.desired
    BY <2>4 DEF TrackType
  <2> HIDE DEF x
  <2>6. y \in TrackType /\ y.desired = x.desired
    BY <2>5 DEF TrackType
  <2> HIDE DEF y
  <2> QED
    BY <2>2, <2>3, <2>4, <2>5, <2>6
<1>3. track' \in [Switches -> TrackType] /\ track'["grid"].desired = track["grid"].desired
  <2>1. track' = [s \in Switches |-> track'[s]]
    BY DEF Acknowledge
  <2>2. track' \in [Switches -> TrackType]
    BY <1>2, <2>1
  <2> QED
    BY <1>2, <2>2 DEF Switches
<1>4. wire \in Reported
  BY <1>1 DEF Now, WorkType
<1>5. Sound(Now)'
  BY <1>1, <1>3, <1>4, Apart
<1>6. HouseInv'
  BY <1>1, SpendTyped DEF HouseInv
<1> QED
  BY <1>1, <1>5, <1>6 DEF IInv, Patient

(* What happens in the house and on the wire.                              *)
Outside ==
  \/ Pass \/ Connect \/ Close \/ Expire \/ Change
  \/ \E m \in Measures : Arrive(m)
  \/ \E s \in Switches : Execute(s) \/ Lose(s) \/ Report(s) \/ External(s)

LEMMA OutsideSound ==
  ASSUME IInv, Outside
  PROVE  IInv'
<1>1. /\ HouseInv /\ Patient /\ wire \in Reported /\ track \in [Switches -> TrackType]
      /\ cache["grid"] = FALSE => held = {}
  BY DEF IInv, Sound, Now, WorkType, Quiet
<1>2. UNCHANGED <<memory, emergency, disk, track, tick, calmFor, limit>>
  BY DEF Outside, Pass, Connect, Close, Expire, Change, Arrive, Execute, Lose, Report,
         External, houseVars, wireVars, processVars, historyVars
<1>3. /\ wire' \in Reported /\ held' \subseteq held
      /\ cache'["grid"] = FALSE => cache["grid"] = FALSE \/ held' = {}
      /\ cache' \in Reported /\ contactor' \in [Switches -> BOOLEAN]
  <2>1. cache \in Reported /\ contactor \in [Switches -> BOOLEAN]
    BY <1>1 DEF HouseInv
  <2>2. CASE Pass \/ Connect \/ Close \/ Expire \/ Change \/ \E m \in Measures : Arrive(m)
    BY <1>1, <2>1, <2>2
    DEF Pass, Connect, Close, Expire, Change, Arrive, wireVars, historyVars
  <2>3. CASE \E s \in Switches : Execute(s)
    BY <1>1, <2>1, <2>3 DEF Execute, historyVars, Reported
  <2>4. CASE \E s \in Switches : Lose(s)
    BY <1>1, <2>1, <2>4 DEF Lose, historyVars, Reported
  <2>5. ASSUME NEW s \in Switches, Report(s)
        PROVE  <1>3
    <3>1. /\ cache' = [cache EXCEPT ![s] = contactor[s]] /\ wire' = wire
          /\ held' = IF s = "grid" /\ ~contactor[s] THEN {} ELSE held
          /\ contactor' = contactor
      BY <2>5 DEF Report
    <3>2. cache' \in Reported
      BY <2>1, <3>1 DEF Reported
    <3> QED
      BY <1>1, <2>1, <3>1, <3>2 DEF Reported, Switches
  <2>6. ASSUME NEW s \in Switches, External(s)
        PROVE  <1>3
    <3>1. /\ contactor' = [contactor EXCEPT ![s] = ~contactor[s]] /\ wire' = wire
          /\ cache' = cache /\ held' \subseteq held
      BY <2>6 DEF External
    <3> QED
      BY <1>1, <2>1, <3>1
  <2> QED
    BY <2>2, <2>3, <2>4, <2>5, <2>6 DEF Outside
<1>4. Sound(Now)'
  BY <1>1, <1>2, <1>3, Apart
<1>5. /\ count' \in CountType /\ count'.houses \in 1..Len(limit.houses)
      /\ \A what \in DOMAIN count' \ {"houses"} : count'[what] <= limit[what]
      /\ input' \in InputType
  <2>1. /\ limit.houses \in Seq(InputType) /\ input \in InputType
        /\ count \in CountType /\ count.houses \in 1..Len(limit.houses)
        /\ \A what \in DOMAIN count \ {"houses"} : count[what] <= limit[what]
    BY <1>1 DEF HouseInv, LimitType
  <2>2. CASE Change
    <3>1. /\ count.houses < Len(limit.houses) /\ Len(limit.houses) \in Nat
          /\ count' = [count EXCEPT !.houses = count.houses + 1]
          /\ input' = limit.houses[count'.houses]
      BY <2>1, <2>2 DEF Change
    <3>2. /\ count'.houses = count.houses + 1 /\ count' \in CountType
          /\ \A what \in DOMAIN count' \ {"houses"} :
               what \in DOMAIN count \ {"houses"} /\ count'[what] = count[what]
      <4>1. count.houses + 1 \in Nat
        BY <2>1
      <4>2. \A n \in Nat : /\ [count EXCEPT !.houses = n].houses = n
                           /\ [count EXCEPT !.houses = n] \in CountType
                           /\ \A what \in DOMAIN count \ {"houses"} :
                                [count EXCEPT !.houses = n][what] = count[what]
        BY <2>1 DEF CountType
      <4>3. DOMAIN count' = DOMAIN count
        BY <3>1
      <4> QED
        BY <3>1, <4>1, <4>2, <4>3
    <3>3. count'.houses \in 1..Len(limit.houses)
      BY <2>1, <3>1, <3>2
    <3> QED
      BY <2>1, <3>1, <3>2, <3>3
  <2>3. CASE UNCHANGED <<count, input>>
    BY <2>1, <2>3
  <2>4. ASSUME NEW k \in {"drops", "losses", "externals"}, Spend(k), UNCHANGED input
        PROVE  <1>5
    BY <1>1, <2>1, <2>4, SpendTyped
  <2>5. \/ Change \/ UNCHANGED <<count, input>>
        \/ \E k \in {"drops", "losses", "externals"} : Spend(k) /\ UNCHANGED input
    BY DEF Outside, Pass, Connect, Close, Expire, Arrive, Execute, Lose, Report, External,
           houseVars
  <2> QED
    BY <2>2, <2>3, <2>4, <2>5
<1>6. known' \subseteq Measures /\ connected' \in BOOLEAN /\ gap' \in 0..MaxGap
  <2>1. /\ known \subseteq Measures /\ connected \in BOOLEAN /\ gap \in 0..MaxGap
        /\ Configured \subseteq Measures
    BY <1>1 DEF HouseInv, Configured, Measures, Windows
  <2>2. CASE Pass
    BY <2>1, <2>2 DEF Pass, houseVars
  <2>3. CASE ~Pass
    <3>1. gap' = gap
      BY <2>3 DEF Outside, Connect, Close, Expire, Change, Arrive, Execute, Lose, Report,
                  External, processVars
    <3>2. known' \subseteq Measures /\ connected' \in BOOLEAN
      BY <2>1, <2>3 DEF Outside, Connect, Close, Expire, Change, Arrive, Execute, Lose, Report,
                        External, houseVars
    <3> QED
      BY <2>1, <3>1, <3>2
  <2> QED
    BY <2>2, <2>3
<1>7. HouseInv'
  BY <1>1, <1>2, <1>3, <1>5, <1>6 DEF HouseInv
<1>8. Patient'
  BY <1>1, <1>2 DEF Patient
<1> QED
  BY <1>4, <1>7, <1>8 DEF IInv

LEMMA NextSound == IInv /\ [Next]_vars => IInv'
<1> SUFFICES ASSUME IInv, [Next]_vars
             PROVE  IInv'
  OBVIOUS
<1>1. CASE Read
  BY <1>1, ReadSound
<1>2. CASE Resume
  BY <1>2, ResumeSound
<1>3. CASE Restart
  BY <1>3, RestartSound
<1>4. CASE Acknowledge
  BY <1>4, AcknowledgeSound
<1>5. CASE Outside
  BY <1>5, OutsideSound
<1>6. CASE UNCHANGED vars
  <2>1. Now' = Now
    BY <1>6 DEF Now, vars, houseVars, wireVars, processVars, historyVars
  <2> QED
    BY <1>6, <2>1
    DEF IInv, HouseInv, Sound, Founded, LoadKept, Quiet, Current, Stored, Patient, vars,
        houseVars, wireVars, processVars, historyVars
<1> QED
  BY <1>1, <1>2, <1>3, <1>4, <1>5, <1>6 DEF Next, Outside

-----------------------------------------------------------------------------
LEMMA Inductive == Spec => []IInv
BY InitSound, NextSound, PTL DEF Spec

(* Every variable has its type, the ages stay within their delays, and the *)
(* bounds of a behaviour are kept: TypeOK of GridControl.                  *)
THEOREM TypesHold == Spec => []TypeOK
<1>1. IInv => TypeOK
  <2> SUFFICES ASSUME IInv
               PROVE  TypeOK
    OBVIOUS
  <2>1. HouseInv /\ Sound(Now)
    BY DEF IInv
  <2>2. /\ memory \in MemoryType /\ emergency \in BOOLEAN /\ disk \in DiskType
        /\ track \in [Switches -> TrackType] /\ wire \in Reported
        /\ tick \in RunningType \cup {Idle}
        /\ (memory.off # None => memory.load)
    BY <2>1 DEF Sound, Now, WorkType, LoadKept
  <2>3. tick.at \in {"idle", "read", "lifted", "raised"}
    BY <2>2 DEF RunningType, Idle
  <2>4. ASSUME NEW what \in DOMAIN count \ {"houses"}
        PROVE  count[what] \in 0..limit[what]
    <3>1. limit \in LimitType /\ count \in CountType /\ count[what] <= limit[what]
      BY <2>1 DEF HouseInv
    <3>2. count[what] \in Nat /\ limit[what] \in Nat
      BY <3>1 DEF LimitType, CountType
    <3> QED
      BY <3>1, <3>2
  <2> QED
    BY <2>1, <2>2, <2>3, <2>4 DEF TypeOK, HouseInv, MemoryType, DiskType, TrackType, Reported
<1> QED
  BY <1>1, Inductive, PTL

(* PROJECT_CONTEXT.md:635-646: whatever is missing, lost or restarted, a   *)
(* grid that was confirmed is not sent off before every trigger that holds *)
(* it is over.                                                             *)
THEOREM ContactorSpared == Spec => []NoCycling
<1>1. IInv => NoCycling
  BY DEF IInv, Sound, Quiet, Now, NoCycling
<1> QED
  BY <1>1, Inductive, PTL

(* The emergency mode ends with three phases that the tick has read, or    *)
(* with a process that had not yet written it to the file.                 *)
THEOREM EmergencyEndsSeen == Spec => EmergencyHolds
<1> DEFINE Ends == emergency /\ ~emergency' =>
                     \/ (IF tick = Idle THEN Seen ELSE tick.seen)["phases"] = "present"
                     \/ ~disk.emergency
<1>1. IInv /\ [Next]_vars => [Ends]_vars
  <2> SUFFICES ASSUME IInv, Next, emergency, ~emergency'
               PROVE  Ends
    OBVIOUS
  <2>1. CASE Read
    BY <2>1, ReadSound DEF Read
  <2>2. CASE Resume
    BY <2>2, ResumeSound DEF Resume
  <2>3. CASE Restart
    BY <2>3, RestartSound
  <2>4. CASE Acknowledge
    BY <2>4 DEF Acknowledge
  <2>5. CASE Outside
    <3>1. emergency' = emergency
      BY <2>5 DEF Outside, Pass, Connect, Close, Expire, Change, Arrive, Execute, Lose, Report,
                  External, processVars
    <3> QED
      BY <3>1
  <2> QED
    BY <2>1, <2>2, <2>3, <2>4, <2>5 DEF Next, Outside
<1> QED
  BY <1>1, Inductive, PTL DEF Spec, EmergencyHolds
=============================================================================
