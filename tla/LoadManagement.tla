--------------------------- MODULE LoadManagement ---------------------------
(***************************************************************************)
(* The controllers of consumers together: the actors of Measuring and      *)
(* switching and the pumps of the pool, each with passes of its own, share *)
(* the stages of the load shed and the operating level.  Loads, level,     *)
(* weather, users and faults change a bounded number of times.             *)
(***************************************************************************)
EXTENDS Actors, Pool

CONSTANT Limits   \* the bounds a behaviour may have, see `limit`

Kinds == {"loads", "levels", "toggles", "weather", "users", "hands", "losses"}

ASSUME ManagementAssumption ==
  /\ Units = ActorNames \cup Pumps /\ Consumers = Units /\ ActorNames \cap Pumps = {}
  /\ Providers = {"messschalt", "pool"}
  /\ Priorities \subseteq Levels
  /\ \A l \in Limits : /\ l.actors \subseteq ActorNames
                       /\ l.setup \in [topics : SUBSET Pumps, sample : BOOLEAN,
                                       follow : BOOLEAN]
                       /\ l.level \in Levels /\ l.active \in BOOLEAN
                       /\ l.max \in [Kinds -> Nat]

VARIABLES
  load,    \* the measured loads of the phases
  active,  \* the grid control is enabled, with the load shed
  fired,   \* controllers whose timer has fired, their pass is to come
  limit,   \* the consumers of this behaviour, and its bounds
  used     \* counters for these bounds

gridVars == <<load, active>>
vars == <<outletVars, shedVars, levelVars, actorVars, poolVars, gridVars, fired, limit, used>>

(* Controllers with something to switch: it takes their timers to do so.    *)
Running == {k \in Providers : IF k = "pool" THEN setup.topics # {} ELSE actors # {}}
PhasesOf(u) == IF u \in Pumps THEN PumpPhases[u] ELSE ActorType[u].phases
Present == actors \cup setup.topics

TypeOK ==
  /\ OutletsTypeOK /\ ShedTypeOK /\ LevelTypeOK /\ ActorsTypeOK /\ PoolTypeOK
  /\ load \in [Phases -> Loads] /\ active \in BOOLEAN
  /\ fired \subseteq Providers
  /\ limit \in Limits /\ \A k \in Kinds : used[k] <= limit.max[k]

Init ==
  /\ limit \in Limits
  /\ used = [k \in Kinds |-> 0]
  /\ OutletsInit /\ ShedInit /\ LevelInit /\ ActorsInit /\ PoolInit
  /\ actors = limit.actors /\ setup = limit.setup
  /\ load = [p \in Phases |-> "low"] /\ active = limit.active
  /\ operatingLevel = limit.level
  /\ fired = Running
  /\ \A u \in Units \ Present : device[u] = "off"

Spend(k) == used[k] < limit.max[k] /\ used' = [used EXCEPT ![k] = @ + 1]

(* A pass: on the timer, or because a value has changed.                    *)
ActorsTick ==
  /\ UNCHANGED <<poolVars, gridVars, limit, used>>
  /\ fired' = fired \ {"messschalt"}
  /\ TickActors(load, active)

PoolTick ==
  /\ setup.topics # {}
  /\ UNCHANGED <<actorVars, gridVars, limit, used>>
  /\ fired' = fired \ {"pool"}
  /\ TickPool(load, active)

PoolResume ==
  /\ UNCHANGED <<actorVars, gridVars, fired, limit, used>>
  /\ ResumePool

Manual(a, on) ==
  /\ Spend("users")
  /\ CommandManual(a, on)
  /\ UNCHANGED <<poolVars, gridVars, fired, limit>>

PressMode(p, m) ==
  /\ setup.topics # {}
  /\ Spend("users")
  /\ SetPumpMode(p, m)
  /\ UNCHANGED <<outletVars, shedVars, levelVars, actorVars, gridVars, fired, limit>>

ChangeLevel(l) ==
  /\ Spend("levels")
  /\ SetOperatingLevel(l)
  /\ UNCHANGED <<outletVars, shedVars, actorVars, poolVars, gridVars, fired, limit>>

(* applyLevel calls back every consumer that may no longer run.            *)
LevelChanged ==
  /\ LevelSaved
  /\ \E off \in {MustTurnOff(operatingLevel)} :
     \E work \in {[a \in off \cap ActorNames |-> Forced(a)]} :
       /\ unit' = [a \in ActorNames |-> IF a \in off THEN work[a].unit ELSE unit[a]]
       /\ pump' = [p \in Pumps |-> IF p \in off THEN ForcedPump(p) ELSE pump[p]]
       /\ Publish([u \in Units |-> IF u \notin off THEN None
                                   ELSE IF u \in Pumps THEN "off" ELSE work[u].switch])
       /\ remoteWire' = [a \in ActorNames |->
            IF a \in off /\ work[a].remote # None THEN work[a].remote ELSE remoteWire[a]]
  /\ UNCHANGED <<device, actual, shedVars, actors, remote, newer, setup, sun, hot, due,
                 mode, sampling, tick, gridVars, fired, limit, used>>

ChangeLoad(p, l) ==
  /\ l # load[p]
  /\ \E u \in Present : p \in PhasesOf(u)
  /\ Spend("loads")
  /\ load' = [load EXCEPT ![p] = l]
  /\ UNCHANGED <<outletVars, shedVars, levelVars, actorVars, poolVars, active, fired, limit>>

(* The grid control or its load trigger is switched on or off.             *)
Toggle ==
  /\ Spend("toggles")
  /\ active' = ~active
  /\ UNCHANGED <<outletVars, shedVars, levelVars, actorVars, poolVars, load, fired, limit>>

Weather ==
  /\ setup.topics # {}
  /\ Spend("weather")
  /\ \/ sun' = ~sun /\ UNCHANGED <<hot, due>>
     \/ hot' = ~hot /\ UNCHANGED <<sun, due>>
     \/ due' = ~due /\ UNCHANGED <<sun, hot>>
  /\ UNCHANGED <<outletVars, shedVars, levelVars, actorVars, setup, mode, pump, sampling,
                 tick, gridVars, fired, limit>>

OutletStep ==
  UNCHANGED <<shedVars, levelVars, actors, unit, remote, remoteWire, poolVars, gridVars, fired, limit>>

Executed(u) == u \in Present /\ Execute(u) /\ OutletStep /\ UNCHANGED <<newer, used>>
Lost(u) == Lose(u) /\ Spend("losses") /\ OutletStep /\ UNCHANGED newer
SwitchedByHand(u) == ByHand(u) /\ Spend("hands") /\ OutletStep /\ UNCHANGED newer

Reported(u) ==
  /\ u \in Present
  /\ Report(u)
  /\ newer' = IF u \in ActorNames /\ remote[u] # None
              THEN [newer EXCEPT ![u] = "actual"] ELSE newer
  /\ OutletStep /\ UNCHANGED used

RemoteUser(a, value) ==
  /\ value # remote[a]
  /\ Spend("users")
  /\ RemoteSet(a, value)
  /\ UNCHANGED <<outletVars, shedVars, levelVars, poolVars, gridVars, fired, limit>>

RemoteAnswer(a) ==
  /\ RemoteArrives(a)
  /\ UNCHANGED <<outletVars, shedVars, levelVars, poolVars, gridVars, fired, limit, used>>

(* A step of time; it is longer than the database takes to answer.         *)
Pass ==
  /\ ~tick.under
  /\ ShedPass /\ ActorsPass /\ PoolPass
  /\ fired' = Running
  /\ UNCHANGED <<outletVars, levelVars, gridVars, limit, used>>

Next ==
  \/ ActorsTick \/ PoolTick \/ PoolResume \/ LevelChanged \/ Toggle \/ Weather \/ Pass
  \/ \E l \in Levels : ChangeLevel(l)
  \/ \E p \in Phases, l \in Loads : ChangeLoad(p, l)
  \/ \E a \in actors : \/ \E on \in BOOLEAN : Manual(a, on)
                       \/ \E value \in Commands : RemoteUser(a, value)
                       \/ RemoteAnswer(a)
  \/ \E p \in Pumps, m \in Modes : PressMode(p, m)
  \/ \E u \in Present : Executed(u) \/ Lost(u) \/ SwitchedByHand(u) \/ Reported(u)

(* The passes are repeated every thirty seconds and end, a save ends, time *)
(* goes on; an outlet answers to what reaches it.                          *)
Fairness ==
  /\ \A k \in Providers : WF_fired(k \in fired /\ fired' = fired \ {k})
  /\ WF_tick(tick.under /\ tick' = NoTick)
  /\ WF_levelVars(LevelSaved)
  /\ WF_<<shedVars, actorVars, poolVars, fired>>(
       ShedPass /\ ActorsPass /\ PoolPass /\ fired' = Running)
  /\ \A u \in Units : WF_outletVars(u \in Present /\ (Execute(u) \/ Report(u)))
  /\ \A a \in ActorNames : WF_actorVars(RemoteArrives(a))

Spec == Init /\ [][Next]_vars
FairSpec == Spec /\ Fairness

-----------------------------------------------------------------------------
(* What the filter pump does for the solar pump.  It takes samples whatever *)
(* its own mode is.  A press of the solar pump's mode while its pass waits  *)
(* may leave a sample behind that nothing ends, and that keeps the filter   *)
(* pump from its automatic mode until the solar pump is back in its own.    *)
TakesSamples == setup.sample /\ hot /\ mode["solar"] = "auto"
SampleLeftBehind == sampling.byFilter /\ mode["solar"] # "auto"

(* What must not run: an actor below its level, a pump that is off by hand  *)
(* or, in automatic mode, below its level; a solar pump in water that is    *)
(* too warm and a filter pump at a sample are left to the samples.          *)
Barred(u) ==
  \/ u \in actors /\ ~IsAllowed(ActorType[u].priority)
  \/ /\ u \in setup.topics
     /\ u = "filter" => ~TakesSamples
     /\ \/ mode[u] = "off"
        \/ /\ mode[u] = "auto" /\ ~IsAllowed(PumpPriority[u])
           /\ ~IF u = "solar" THEN hot ELSE SampleLeftBehind

(* An outlet that must not run does not keep running: what the level or    *)
(* the user forbids is off again and again until it may run, whatever was  *)
(* lost, switched by hand or asked for by a remote topic in between.       *)
Obeys == \A u \in Units : []<>(Barred(u) => device[u] = "off")

Calm(phases) == active => \A p \in phases : load[p] = "low"

Entitled(u) ==
  \/ /\ u \in actors /\ ActorType[u].alwaysOn /\ ~ActorType[u].remote
     /\ IsAllowed(ActorType[u].priority) /\ Calm(ActorType[u].phases)
  \/ /\ u \in setup.topics /\ Calm(PumpPhases[u])
     /\ \/ mode[u] = "on" /\ (u = "filter" => ~TakesSamples)
        \/ u = "solar" /\ mode[u] = "auto" /\ sun /\ ~hot /\ IsAllowed(PumpPriority[u])

(* Nothing stays off for good: an actor that is always on, or a pump that  *)
(* is wanted, runs in the end when its level is reached and its phases     *)
(* stay calm; the stages of the load shed all open again.                  *)
ComesBack == \A u \in Units : <>[]Entitled(u) => <>[](device[u] = "on")

(* A stage does not open by itself: as long as a consumer that was taken   *)
(* off because of the load waits in its phase, the stage opens only under  *)
(* a low load and after the pause, whichever controller updates it.        *)
TakenOff(u) ==
  /\ IF u \in Pumps THEN pump[u].loadShedOff ELSE unit[u].loadShedOff
  /\ [phases |-> PhasesOf(u),
      priority |-> IF u \in Pumps THEN PumpPriority[u] ELSE ActorType[u].priority]
     \in participants[IF u \in Pumps THEN "pool" ELSE "messschalt"]

PausedRelease ==
  [][\A p \in Phases :
       /\ active /\ stage[p].cutoff # NoCutoff
       /\ stage'[p].cutoff = NoCutoff \/ stage'[p].cutoff > stage[p].cutoff
       /\ \E u \in Present : TakenOff(u) /\ p \in PhasesOf(u)
       => load[p] = "low" /\ stage[p].recover = 0]_vars

(* A stage closes by one priority at a time, the greatest one registered   *)
(* goes first, and only above the maximum and after the pause.             *)
StepwiseShed ==
  [][\A p \in Phases :
       /\ stage'[p].cutoff # NoCutoff
       /\ stage[p].cutoff = NoCutoff \/ stage'[p].cutoff < stage[p].cutoff
       => /\ active /\ load[p] = "over" /\ stage[p].escalate = 0
          /\ stage'[p].cutoff \in PrioritiesForPhase(p, participants')
          /\ \A q \in PrioritiesForPhase(p, participants') :
               stage[p].cutoff = NoCutoff \/ q < stage[p].cutoff
                 => q <= stage'[p].cutoff]_vars

(* A pass of the pool ends that has found the load shed active.            *)
ShedPassEnds ==
  \/ PoolTick /\ active /\ ~tick'.under
  \/ PoolResume /\ tick.active

(* A pass leaves nothing on that must be off: an actor below the level or  *)
(* shed is told to go off, or waits for the answer to such a command, and  *)
(* is not told to go on, whatever its remote topic asks for; of the pumps  *)
(* none counts as on while its load is shed.                               *)
MustBeOff(a) == ~IsAllowed(ActorType[a].priority) \/ IsShed(a, stage', active)

PassObeys ==
  [][/\ ActorsTick => \A a \in actors : MustBeOff(a) =>
          /\ unit'[a].output = "off"
          /\ wire'[a] = "on" => wire[a] = "on"
          /\ actual[a] = "on" =>
               wire'[a] = "off" \/ IsPending(unit'[a].pendingSwitch, "off")
     /\ ShedPassEnds => \A p \in Pumps : pump'[p].output = "on" =>
          ~ShouldShed(stage', PumpPhases[p],
                      PumpPriority[IF sampling'.byFilter THEN "solar" ELSE p])]_vars

(* MQTT.md, rule 6: a remote topic that asks for on and is refused is set  *)
(* back to off.                                                            *)
RefusedIsTakenBack ==
  \A a \in ActorNames :
    (a \in actors /\ remote[a] = "on" /\ ~IsAllowed(ActorType[a].priority))
      ~> (remote[a] = "off" \/ IsAllowed(ActorType[a].priority))

(* LEVEL_HANDLING.md, principle 4: in automatic mode the level always has  *)
(* precedence; a pump of the pool does not run against it.                 *)
GateHasPrecedence ==
  \A p \in Pumps :
    []<>(mode[p] = "auto" /\ ~IsAllowed(PumpPriority[p]) => device[p] = "off")

(* The same of the filter pump as soon as it is to take no samples: a       *)
(* sample that is left behind is against it.                                *)
FilterObeys ==
  []<>(mode["filter"] = "auto" /\ ~TakesSamples /\ ~IsAllowed(PumpPriority["filter"])
         => device["filter"] = "off")
=============================================================================
