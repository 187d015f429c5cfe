---------------------------- MODULE GridControl ----------------------------
(***************************************************************************)
(* src/src/grid-control/automation.js: the ticks that decide whether the   *)
(* house is on the grid and whether it feeds in, and the closed loop that  *)
(* writes the decision to the contactor until the broker confirms it.      *)
(*                                                                         *)
(* A tick reads everything, then goes on after each write to the database  *)
(* it waits for (`waiting`); only there, and between ticks, something else *)
(* happens.  Time is counted in steps that pass before a tick reads;       *)
(* ages are kept where the code keeps the time of the beginning.           *)
(*                                                                         *)
(* A reading of SoC or voltage is 0 at or beyond the lower threshold, 1 in *)
(* its hysteresis, 2 between the windows, 3 in the hysteresis of the upper *)
(* threshold and 4 at or beyond it.  The three phases are taken together.  *)
(***************************************************************************)
EXTENDS Integers, Sequences, FiniteSetsExt

CONSTANTS Enabled,      \* triggers that are configured
          None,         \* a value that is not known
          Never,        \* lastBrokerCmp before the first look
          OffDelay,     \* loadOffDelaySeconds
          Detection,    \* gridDetectionSeconds
          Republish,    \* COMMAND_REPUBLISH_MS
          MaxStep,      \* COMMAND_MAX_STEP_MS
          WarnAfter,    \* COMMAND_WARN_AFTER_MS
          MinAttempts,  \* COMMAND_WARN_MIN_ATTEMPTS
          MaxGap,       \* bound: steps of time between two ticks
          Limits        \* bounds a behaviour may have, see `limit`

Windows == {"soc", "voltage"}
Measures == Windows \cup {"warning", "loads", "phases"}
Configured == Enabled \cup {"soc", "phases"}
Switches == {"grid", "feedIn"}

Loads == {"over", "between", "below"}
PhaseStates == {"zero", "high", "partial", "present"}
InputType == [soc : 0..4, voltage : 0..4, warning : BOOLEAN, loads : Loads,
              phases : PhaseStates]

(* What the house goes through, and how often something disturbs it.       *)
LimitType == [houses : Seq(InputType), drops : Nat, losses : Nat, restarts : Nat,
              externals : Nat, acks : Nat, waits : Nat, broken : BOOLEAN, feedIn : BOOLEAN]

ASSUME GridAssumption ==
  /\ Enabled \subseteq {"soc", "voltage", "warning", "loads"}
  /\ {OffDelay, Detection} \subseteq Nat
  /\ {Republish, MaxStep, WarnAfter, MinAttempts, MaxGap} \subseteq Nat \ {0}
  /\ Limits \subseteq LimitType /\ \A l \in Limits : l.houses # <<>>
  /\ None \notin BOOLEAN /\ None \notin Loads \cup PhaseStates /\ None \notin Nat
  /\ Never \notin BOOLEAN \cup {None}

VARIABLES
  input,      \* the house
  known,      \* measures with a fresh entry in the cache
  connected,  \* the MQTT connection
  cache,      \* the reported state of each switch in the cache
  contactor,  \* the switches
  wire,       \* the last command on its way to each switch
  memory,     \* `state`, and what guards it
  emergency,  \* emergencyMode of operating-state.js
  disk,       \* grid_control_runtime, and emergencyMode in operating_state
  track,      \* commandTracks
  tick,       \* the tick under way
  gap,        \* time since the last tick began
  held,       \* history: why the grid is on, as confirmed and not yet over
  calmFor,    \* history: for how long every tick has seen low loads, or
              \* the file says so since a write to it was lost
  limit,      \* the bounds of this behaviour, `broken` is a dead contactor
  count       \* counters for these bounds

houseVars == <<input, known, connected>>
wireVars == <<cache, contactor, wire>>
processVars == <<memory, emergency, disk, track, tick, gap>>
historyVars == <<held, calmFor>>
vars == <<houseVars, wireVars, processVars, historyVars, limit, count>>

-----------------------------------------------------------------------------
(* The switches with a topic.                                              *)
Topics == IF limit.feedIn THEN Switches ELSE {"grid"}

Closed == [low |-> FALSE, high |-> FALSE]
NoTrack == [desired |-> None, since |-> Republish, seen |-> None, unconfirmed |-> 0,
            attempts |-> 0, last |-> Never, warned |-> FALSE]
Idle == [at |-> "idle", save |-> FALSE]

Fresh(runtime) ==
  [window |-> [w \in Windows |-> Closed], shift |-> TRUE, load |-> runtime.load,
   off |-> runtime.off, initialized |-> runtime.initialized, adopted |-> FALSE,
   published |-> FALSE, zero |-> None]

Init ==
  /\ limit \in Limits
  /\ input = limit.houses[1]
  /\ known = {} /\ connected = FALSE
  /\ cache = [s \in Switches |-> None]
  /\ contactor \in [Switches -> BOOLEAN] /\ (limit.feedIn \/ ~contactor["feedIn"])
  /\ wire = [s \in Switches |-> None]
  /\ disk = [load |-> FALSE, off |-> None, initialized |-> FALSE, emergency |-> FALSE]
  /\ memory = Fresh(disk)
  /\ emergency = FALSE
  /\ track = [s \in Switches |-> NoTrack]
  /\ tick = Idle /\ gap = 0
  /\ held = {} /\ calmFor = None
  /\ count = [houses |-> 1, drops |-> 0, losses |-> 0, restarts |-> 0, externals |-> 0,
              acks |-> 0, waits |-> 0]

-----------------------------------------------------------------------------
Spend(what) ==
  /\ count[what] < limit[what]
  /\ count' = [count EXCEPT ![what] = @ + 1]

(* What a tick sees: None for a measure that is missing or too old.        *)
Seen == [m \in Measures |-> IF m \in known THEN input[m] ELSE None]

(* updateExtremeWindows().                                                 *)
Opened(level, before) ==
  [low |-> level = 0 \/ (before.low /\ level = 1),
   high |-> level = 4 \/ (before.high /\ level = 3)]

\* Mutant: the windows forget the grid that was on before a restart.
WindowAfter_NoAdoption(w) ==
  CASE w \notin Enabled -> Closed
    [] w \in Enabled /\ Seen[w] = None -> memory.window[w]
    [] OTHER -> Opened(Seen[w], memory.window[w])

(* The grid reported as on when this process first hears of it counts as   *)
(* switched on by the windows; a missing value leaves a window as it is.   *)
WindowAfter(w) ==
  LET adopt == ~memory.adopted /\ cache["grid"] = TRUE
      before == IF adopt THEN [low |-> TRUE, high |-> TRUE] ELSE memory.window[w]
  IN CASE w \notin Enabled -> Closed
       [] w \in Enabled /\ Seen[w] = None -> before
       [] OTHER -> Opened(Seen[w], before)

(* frequencyShiftPossible: the upper threshold of the SoC, window or not.  *)
ShiftAfter ==
  Seen["soc"] = None
  \/ Opened(Seen["soc"], [low |-> FALSE, high |-> memory.shift]).high

(* An age, up to the bound beyond which it makes no difference.            *)
Older(age, most) == IF age = None THEN None ELSE Min({age + gap, most})

(* updateLoadSwitchDelayed(), with the adoption of a runtime that has no   *)
(* row yet.                                                                *)
LoadAfter ==
  LET before == memory.load \/ (~memory.initialized /\ cache["grid"] = TRUE)
      age == IF memory.off = None THEN 0 ELSE Older(memory.off, OffDelay)
      on == [load |-> TRUE, off |-> None]
      gone == [load |-> FALSE, off |-> None]
  IN CASE "loads" \notin Enabled -> gone
       [] "loads" \in Enabled /\ Seen["loads"] = "over" -> on
       [] "loads" \in Enabled /\ Seen["loads"] # "over" /\ ~before -> gone
       [] "loads" \in Enabled /\ Seen["loads"] \in {"between", None} /\ before -> on
       [] OTHER -> IF age >= OffDelay THEN gone ELSE [load |-> TRUE, off |-> age]

(* History: the reasons that this tick sees to be over.                    *)
Over ==
  {<<w, "low">> : w \in {v \in Windows : Seen[v] \in 2..4}}
    \cup {<<w, "high">> : w \in {v \in Windows : Seen[v] \in 0..2}}
    \cup (IF Seen["warning"] = FALSE THEN {<<"warning", "on">>} ELSE {})
    \cup (IF Seen["loads"] = "below"
             /\ (IF calmFor = None THEN 0 ELSE calmFor + gap) >= OffDelay
          THEN {<<"loads", "on">>} ELSE {})
    \cup (IF Seen["phases"] = "present" THEN {<<"emergency", "on">>} ELSE {})

-----------------------------------------------------------------------------
(* What a tick works on, `want` once it has decided.  Each part of the     *)
(* tick gives the next; the last one ends it, or it waits.                 *)
Now == [memory |-> memory, emergency |-> emergency, disk |-> disk, track |-> track,
        wire |-> wire, held |-> held, tick |-> tick]

Become(c) ==
  /\ memory' = c.memory /\ emergency' = c.emergency /\ disk' = c.disk
  /\ track' = c.track /\ wire' = c.wire /\ held' = c.held /\ tick' = c.tick

Wait(c, at) == [c EXCEPT !.tick.at = at]

LowOrTemperature(c) ==
  \/ \E w \in Windows : c.memory.window[w].low
  \/ "warning" \in Enabled /\ c.tick.seen["warning"] = TRUE
  \/ c.memory.load

(* The wish for each switch.  While a reading is missing, a switch that is *)
(* reported as on stays on.                                                *)
Wish(c) ==
  LET high == \E w \in Windows : c.memory.window[w].high
      highForGrid == c.memory.window["voltage"].high
                     \/ (c.memory.window["soc"].high /\ limit.feedIn)
      unknown == \E m \in Enabled : c.tick.seen[m] = None
      hold(s) == unknown /\ c.tick.broker[s] = TRUE
  IN [grid |-> LowOrTemperature(c) \/ highForGrid \/ c.emergency \/ hold("grid"),
      feedIn |-> /\ limit.feedIn /\ ~LowOrTemperature(c) /\ ~c.emergency
                 /\ high \/ hold("feedIn")]

(* reconcileCommand(): the cache is read again here, the connection is the *)
(* one the tick began with.                                                *)
Confirmed(c, s) == c.tick.connected /\ cache[s] = c.tick.want[s]

Measured(c, s) == /\ s \in Topics /\ c.tick.has
                  /\ c.tick.broker[s] # None \/ c.tick.want[s]

NewWish(c, s) == c.track[s].desired # c.tick.want[s]

\* Mutant: a command is written once and not repeated.
Publishes_Once(c, s) == Measured(c, s) /\ ~Confirmed(c, s) /\ NewWish(c, s)

(* A new wish and a new deviation are sent at once, then now and again.    *)
Publishes(c, s) ==
  /\ Measured(c, s) /\ ~Confirmed(c, s)
  /\ \/ NewWish(c, s)
     \/ c.track[s].last \notin {Never, cache[s]}
     \/ c.track[s].since >= Republish

(* For how long and how often the wish has been without confirmation.      *)
Deviation(c, s) ==
  LET none == [unconfirmed |-> 0, attempts |-> 0, warned |-> FALSE]
      before == IF NewWish(c, s) THEN none ELSE c.track[s]
      elapsed == IF c.tick.connected /\ c.track[s].seen # None THEN c.track[s].seen ELSE 0
      lasting == Min({before.unconfirmed + elapsed, WarnAfter})
      attempts == Min({before.attempts + (IF Publishes(c, s) THEN 1 ELSE 0), MinAttempts})
      relevant == c.tick.want[s] \/ cache[s] = TRUE
      persistent == /\ c.tick.connected /\ relevant
                    /\ lasting = WarnAfter /\ attempts = MinAttempts
  IN IF Confirmed(c, s) THEN none
     ELSE [unconfirmed |-> lasting, attempts |-> attempts,
           warned |-> before.warned \/ persistent]

TrackAfter(c, s) ==
  IF ~Measured(c, s) THEN c.track[s]
  ELSE LET deviation == Deviation(c, s)
       IN [desired |-> c.tick.want[s], seen |-> 0, last |-> cache[s],
           since |-> CASE Publishes(c, s) -> 0
                       [] NewWish(c, s) /\ ~Publishes(c, s) -> Republish
                       [] OTHER -> c.track[s].since,
           unconfirmed |-> deviation.unconfirmed, attempts |-> deviation.attempts,
           warned |-> deviation.warned]

(* History: what a confirmed grid is on for; a high SoC only to feed in.   *)
Reasons(c) ==
  {r \in Windows \X {"low", "high"} :
     c.memory.window[r[1]][r[2]] /\ (r = <<"soc", "high">> => limit.feedIn)}
    \cup (IF "warning" \in Enabled /\ c.tick.seen["warning"] = TRUE
          THEN {<<"warning", "on">>} ELSE {})
    \cup (IF c.memory.load THEN {<<"loads", "on">>} ELSE {})
    \cup (IF c.emergency THEN {<<"emergency", "on">>} ELSE {})

(* The last part: every wish is compared with what the broker reports.     *)
Reconcile(c) ==
  [c EXCEPT
     !.track = [s \in Switches |-> TrackAfter(c, s)],
     !.wire = [s \in Switches |-> IF Publishes(c, s) THEN c.tick.want[s] ELSE @[s]],
     !.memory.published = @ \/ c.tick.has,
     !.held = IF c.tick.want["grid"] /\ Measured(c, "grid") /\ Confirmed(c, "grid")
              THEN @ \cup Reasons(c) ELSE @,
     !.tick = Idle]

(* hasPhaseFailure().                                                      *)
PhaseFailure(c) ==
  \/ c.tick.seen["phases"] = "zero"
  \/ c.tick.seen["phases"] = "high" /\ ~c.memory.shift

(* The wishes, and the detection of an outage, which is written first.     *)
Judge(c) ==
  LET failing == ~c.emergency /\ Wish(c)["grid"] /\ PhaseFailure(c)
      zero == IF c.memory.zero = None THEN 0 ELSE c.memory.zero
      judged == [c EXCEPT !.memory.zero = IF failing THEN zero
                                          ELSE IF c.emergency THEN @ ELSE None,
                          !.tick.want = Wish(c)]
      raised == [judged EXCEPT !.emergency = TRUE,
                               !.tick.want = [grid |-> TRUE, feedIn |-> FALSE]]
  IN IF failing /\ zero >= Detection THEN Wait(raised, "raised") ELSE Reconcile(judged)

\* Mutant: the emergency ends as soon as no phase is dead.
Lift_NoneDead(c) ==
  IF c.emergency /\ c.tick.seen["phases"] # "zero"
  THEN Wait([c EXCEPT !.emergency = FALSE, !.memory.zero = None], "lifted")
  ELSE Judge(c)

(* All three phases are there: the emergency ends, which is written first. *)
Lift(c) ==
  IF c.emergency /\ c.tick.seen["phases"] = "present"
  THEN Wait([c EXCEPT !.emergency = FALSE, !.memory.zero = None], "lifted")
  ELSE Judge(c)

(* What the readings make of `state`.                                      *)
MemoryAfter ==
  [window |-> [w \in Windows |-> WindowAfter(w)], shift |-> ShiftAfter,
   load |-> LoadAfter.load, off |-> LoadAfter.off, initialized |-> memory.initialized,
   adopted |-> memory.adopted \/ cache["grid"] # None, published |-> memory.published,
   zero |-> Older(memory.zero, Detection)]

(* The runtime is saved when it is new, or has changed.                    *)
Saves ==
  /\ memory.initialized \/ cache["grid"] # None \/ MemoryAfter.load
  /\ \/ ~memory.initialized
     \/ MemoryAfter.load # memory.load
     \/ (MemoryAfter.off = None) # (memory.off = None)

HasMeasurement ==
  \/ \E m \in Enabled \cap Windows : Seen[m] # None
  \/ \E m \in {"warning", "loads", "phases"} : Seen[m] # None
  \/ memory.published \/ emergency

(* What a tick begins with; all that has an age is older by now.           *)
Begun ==
  [memory |-> MemoryAfter, emergency |-> emergency,
   disk |-> [disk EXCEPT !.off = Older(@, OffDelay)],
   track |-> [s \in Switches |-> [track[s] EXCEPT !.since = Older(@, Republish),
                                                 !.seen = Older(@, MaxStep)]],
   wire |-> wire, held |-> held \ Over,
   tick |-> [at |-> "read", save |-> Saves, has |-> HasMeasurement, seen |-> Seen,
             broker |-> cache, connected |-> connected, want |-> None]]

(* tick(), up to the first write it waits for: the runtime it saves, or    *)
(* the day, its self-sufficiency, the lowest SoC that has just changed,    *)
(* which is left open.                                                     *)
Read ==
  /\ tick = Idle
  /\ \/ ~Saves /\ UNCHANGED count /\ \E next \in {Lift(Begun)} : Become(next)
     \/ Saves /\ UNCHANGED count /\ \E next \in {Begun} : Become(next)
     \/ /\ ~Saves /\ ("soc" \in Enabled => Seen["soc"] # None)
        /\ Spend("waits")
        /\ \E next \in {Begun} : Become(next)
  /\ calmFor' = IF Seen["loads"] # "below" THEN None
                ELSE IF calmFor = None THEN 0 ELSE Older(calmFor, OffDelay)
  /\ gap' = 0
  /\ UNCHANGED <<houseVars, cache, contactor, limit>>

(* The database has written: the tick goes on.                             *)
Written ==
  LET saved == IF tick.save
               THEN [Now EXCEPT !.disk = [load |-> memory.load, off |-> memory.off,
                                          initialized |-> TRUE, emergency |-> emergency],
                                !.memory.initialized = TRUE]
               ELSE [Now EXCEPT !.disk.emergency = emergency]
  IN [saved EXCEPT !.tick.save = FALSE]

Resume ==
  /\ tick # Idle
  /\ \E next \in {CASE tick.at = "read" -> Lift(Written)
                     [] tick.at = "lifted" -> Judge(Written)
                     [] tick.at = "raised" -> Reconcile(Written)} : Become(next)
  /\ UNCHANGED <<houseVars, cache, contactor, calmFor, gap, limit, count>>

-----------------------------------------------------------------------------
(* What happens between ticks and while one waits for the database.        *)
(* acknowledgeWarnings().                                                  *)
Acknowledge ==
  /\ Spend("acks")
  /\ track' = [s \in Switches |->
                 [track[s] EXCEPT !.unconfirmed = 0, !.attempts = 0, !.warned = FALSE,
                                  !.seen = None]]
  /\ UNCHANGED <<houseVars, wireVars, memory, emergency, disk, tick, gap, historyVars, limit>>

(* The process ends and starts: the file and the house stay.  A write that *)
(* was under way is lost, and with it what it was to keep: the load that   *)
(* had gone too high, or the delay that had begun or been given up.        *)
Restart ==
  /\ Spend("restarts")
  /\ memory' = Fresh(disk)
  /\ emergency' = disk.emergency
  /\ known' = {} /\ connected' = FALSE
  /\ cache' = [s \in Switches |-> None]
  /\ track' = [s \in Switches |-> NoTrack]
  /\ tick' = Idle
  /\ held' = IF tick.save THEN held \ {<<"loads", "on">>} ELSE held
  /\ calmFor' = IF tick.save THEN disk.off ELSE calmFor
  /\ \/ UNCHANGED wire
     \/ ~connected /\ wire' = [s \in Switches |-> None]
  /\ UNCHANGED <<input, contactor, disk, gap, limit>>

(* Time passes, between ticks and while one waits.                         *)
Pass ==
  /\ gap < MaxGap
  /\ gap' = gap + 1
  /\ UNCHANGED <<houseVars, wireVars, memory, emergency, disk, track, tick, historyVars,
                 limit, count>>

Connect ==
  /\ ~connected
  /\ connected' = TRUE
  /\ UNCHANGED <<input, known, wireVars, processVars, historyVars, limit, count>>

(* The cache stays when the connection goes.                               *)
Close ==
  /\ connected /\ Spend("drops")
  /\ connected' = FALSE
  /\ UNCHANGED <<input, known, wireVars, processVars, historyVars, limit>>

(* A measure arrives, for the first time or anew.                          *)
Arrive(m) ==
  /\ connected /\ m \in Configured \ known
  /\ known' = known \cup {m}
  /\ UNCHANGED <<input, connected, wireVars, processVars, historyVars, limit, count>>

(* freshCacheValue(): frequencies grow too old without a connection.       *)
Expire ==
  /\ ~connected /\ "phases" \in known
  /\ known' = known \ {"phases"}
  /\ UNCHANGED <<input, connected, wireVars, processVars, historyVars, limit, count>>

(* The house changes.                                                      *)
Change ==
  /\ count.houses < Len(limit.houses)
  /\ count' = [count EXCEPT !.houses = @ + 1]
  /\ input' = limit.houses[count'.houses]
  /\ UNCHANGED <<known, connected, wireVars, processVars, historyVars, limit>>

(* A contactor executes a command, at a time of its own.                   *)
Execute(s) ==
  /\ connected /\ wire[s] # None
  /\ contactor' = [contactor EXCEPT ![s] = IF limit.broken THEN @ ELSE wire[s]]
  /\ wire' = [wire EXCEPT ![s] = None]
  /\ UNCHANGED <<houseVars, cache, processVars, historyVars, limit, count>>

(* The command is lost.                                                    *)
Lose(s) ==
  /\ wire[s] # None /\ Spend("losses")
  /\ wire' = [wire EXCEPT ![s] = None]
  /\ UNCHANGED <<houseVars, cache, contactor, processVars, historyVars, limit>>

(* The broker reports a switch.  A grid that is off is held by nothing.    *)
Report(s) ==
  /\ connected /\ s \in Topics /\ cache[s] # contactor[s]
  /\ cache' = [cache EXCEPT ![s] = contactor[s]]
  /\ held' = IF s = "grid" /\ ~contactor[s] THEN {} ELSE held
  /\ UNCHANGED <<houseVars, contactor, wire, processVars, calmFor, limit, count>>

(* Somebody else switches.                                                 *)
External(s) ==
  /\ s \in Topics /\ ~limit.broken /\ Spend("externals")
  /\ contactor' = [contactor EXCEPT ![s] = ~@]
  /\ held' = IF s = "grid" THEN {} ELSE held
  /\ UNCHANGED <<houseVars, cache, wire, processVars, calmFor, limit>>

Next ==
  \/ Read
  \/ Resume
  \/ Pass
  \/ Acknowledge
  \/ Restart
  \/ Connect
  \/ Close
  \/ \E m \in Measures : Arrive(m)
  \/ Expire
  \/ Change
  \/ \E s \in Switches : Execute(s) \/ Lose(s) \/ Report(s) \/ External(s)

Spec == Init /\ [][Next]_vars

(* Time passes; the interval ticks again and again, and only a tick sets   *)
(* `gap` back; the database answers; the connection is made again; the     *)
(* broker and a contactor that works do their part.                        *)
Fairness ==
  /\ WF_vars(Pass)
  /\ WF_gap(gap' = 0)
  /\ WF_tick(tick # Idle /\ tick' = Idle)
  /\ WF_vars(Connect)
  /\ \A m \in Configured : WF_vars(Arrive(m))
  /\ \A s \in Switches : WF_vars(Execute(s)) /\ WF_vars(Report(s))

FairSpec == Spec /\ Fairness

-----------------------------------------------------------------------------
(* Types and ranges.                                                       *)
TypeOK ==
  /\ limit \in Limits /\ input \in InputType
  /\ known \subseteq Measures
  /\ {connected, emergency} \subseteq BOOLEAN
  /\ contactor \in [Switches -> BOOLEAN]
  /\ {cache, wire} \subseteq [Switches -> BOOLEAN \cup {None}]
  /\ memory \in [window : [Windows -> [low : BOOLEAN, high : BOOLEAN]],
                 shift : BOOLEAN, load : BOOLEAN, off : 0..OffDelay \cup {None},
                 initialized : BOOLEAN, adopted : BOOLEAN, published : BOOLEAN,
                 zero : 0..Detection \cup {None}]
  /\ disk \in [load : BOOLEAN, off : 0..OffDelay \cup {None}, initialized : BOOLEAN,
               emergency : BOOLEAN]
  /\ memory.off # None => memory.load
  /\ track \in [Switches ->
                  [desired : BOOLEAN \cup {None}, since : 0..Republish,
                   seen : 0..MaxStep \cup {None}, unconfirmed : 0..WarnAfter,
                   attempts : 0..MinAttempts, last : BOOLEAN \cup {None, Never},
                   warned : BOOLEAN]]
  /\ gap \in 0..MaxGap /\ calmFor \in 0..OffDelay \cup {None}
  /\ tick.at \in {"idle", "read", "lifted", "raised"}
  /\ \A what \in DOMAIN count \ {"houses"} : count[what] \in 0..limit[what]

(* PROJECT_CONTEXT.md:635-646: the contactor is spared.  A grid that was   *)
(* switched on and confirmed is not sent off before every trigger that     *)
(* holds it has been seen beyond its hysteresis, or for the whole delay,   *)
(* whatever is missing, lost or restarted meanwhile.                       *)
NoCycling == track["grid"].desired = FALSE => held = {}

(* The emergency mode ends when a tick sees all three phases, and survives *)
(* a restart once it is in the file.                                       *)
EmergencyHolds ==
  [][emergency /\ ~emergency' =>
       \/ (IF tick = Idle THEN Seen ELSE tick.seen)["phases"] = "present"
       \/ ~disk.emergency]_vars

(* What the readings alone decide.                                         *)
Demanded ==
  \/ \E w \in Windows \cap Enabled : input[w] = 0
  \/ "voltage" \in Enabled /\ input["voltage"] = 4
  \/ "soc" \in Enabled /\ input["soc"] = 4 /\ limit.feedIn
  \/ "warning" \in Enabled /\ input["warning"]
  \/ "loads" \in Enabled /\ input["loads"] = "over"

Released ==
  /\ \A w \in Windows \cap Enabled : input[w] = 2
  /\ "warning" \in Enabled => ~input["warning"]
  /\ "loads" \in Enabled => input["loads"] = "below"
  /\ input["phases"] = "present"

(* The closed loop: in the end the grid is as the readings demand, over    *)
(* lost commands, lost connections and restarts; and what a contactor does *)
(* not obey is reported to the user.                                       *)
GridFollows ==
  <>[](/\ Demanded /\ ~contactor["grid"] => limit.broken /\ track["grid"].warned
       /\ Released /\ contactor["grid"] => limit.broken /\ track["grid"].warned)

(* automation.js:594-597: a switch that is reported as on is not sent off  *)
(* while readings are missing; the exception is a reading that is there    *)
(* and demands it.                                                         *)
FeedInHeld ==
  [][/\ cache["feedIn"] = TRUE /\ ~emergency' /\ limit.feedIn
     /\ {m \in Enabled : Seen[m] = None} # {}
     /\ {w \in Windows \cap Enabled : Seen[w] \in 0..1} = {}
     /\ "warning" \in Enabled => Seen["warning"] # TRUE
     /\ ~memory'.load
     => track["feedIn"].desired = FALSE \/ track'["feedIn"].desired # FALSE]_vars
=============================================================================
