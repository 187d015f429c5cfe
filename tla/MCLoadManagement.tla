-------------------------- MODULE MCLoadManagement --------------------------
(* Instances of LoadManagement for TLC: consumers, and what happens.       *)
EXTENDS LoadManagement, TLC

Actor(phases, priority, alwaysOn, withRemote) ==
  [phases |-> phases, priority |-> priority, alwaysOn |-> alwaysOn,
   remote |-> withRemote, sheds |-> TRUE]

SomeActors ==
  "heater" :> Actor({"l1"}, 3, TRUE, FALSE) @@ "lamp" :> Actor({"l1"}, 2, FALSE, TRUE)
  @@ "server" :> Actor({"l1"}, 2, TRUE, FALSE)

SomeUnits == DOMAIN SomeActors \cup {"solar", "filter"}
SomePhases == [p \in {"solar", "filter"} |-> {"l1"}]
SomePriority == [p \in {"solar", "filter"} |-> IF p = "solar" THEN 2 ELSE 3]

None0 == [k \in Kinds |-> 0]
Bounded(names, pumps, max) ==
  [actors |-> names, setup |-> [topics |-> pumps, sample |-> FALSE, follow |-> FALSE],
   level |-> 3, active |-> TRUE, max |-> max @@ None0]

(* Stages of two priorities close and open again; a command that is lost.  *)
ActorLimits == {Bounded({"heater", "server"}, {}, "loads" :> 2),
                Bounded({"heater"}, {}, "loads" :> 2 @@ "losses" :> 1)}
(* The remote topic, its user and the level.                              *)
LampLimits == {Bounded({"lamp"}, {}, "users" :> 1 @@ "levels" :> 1)}
(* Mode buttons and weather.                                              *)
PumpLimits == {Bounded({}, {p}, "weather" :> 1 @@ "users" :> 1) : p \in Pumps}
(* Level down and up, an outlet switched by hand, a command that is lost. *)
LevelLimits == {Bounded({"heater"}, {}, "levels" :> 2 @@ "hands" :> 1 @@ "losses" :> 1)}
(* Two controllers share a phase.                                         *)
BothLimits == {Bounded({"heater"}, {"solar"}, "loads" :> 1)}
(* The load shed is disabled or enabled while it has taken something off.  *)
ToggleLimits == {Bounded({"heater"}, {}, "loads" :> 2 @@ "toggles" :> 1)}
(* The filter pump takes the samples: it follows the solar pump, or it is   *)
(* below its level and the mode buttons are pressed.                        *)
SampleLimits == {[Bounded({}, Pumps, "weather" :> 1) EXCEPT !.setup.sample = TRUE, !.setup.follow = TRUE]}
PressLimits == {[Bounded({}, Pumps, "weather" :> 1 @@ "users" :> 1) EXCEPT
                   !.setup.sample = TRUE, !.level = 2]}

SomeLimits == ActorLimits \cup LampLimits \cup PumpLimits \cup LevelLimits
              \cup BothLimits \cup ToggleLimits \cup SampleLimits \cup PressLimits
=============================================================================
