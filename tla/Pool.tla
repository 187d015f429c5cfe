-------------------------------- MODULE Pool --------------------------------
(***************************************************************************)
(* src/src/pool/automation.js: the solar pump and the filter pump of a     *)
(* pool.  In automatic mode the solar pump follows the sun and, when the   *)
(* water is too warm, only takes samples; the filter pump follows its time *)
(* windows or the solar pump, and may take the samples.  Both obey the     *)
(* operating level in automatic mode and the load shed in every mode.      *)
(*                                                                         *)
(* A pass that finds the solar pump in automatic mode waits for the        *)
(* database to learn of the sun, and the mode buttons, the level and the   *)
(* other controllers go on meanwhile.                                      *)
(*                                                                         *)
(* Each pump has a status topic.  Of two commands of one pass for the same *)
(* pump the later one counts.  The times are kept as what is left of them. *)
(***************************************************************************)
EXTENDS LoadShed, OperatingLevel, Outlets

CONSTANTS Hold,         \* HOLD_MS
          SampleTime,   \* solarPumpTempOnSeconds
          SamplePause,  \* solarPumpTempPauseMinutes
          PumpPhases, PumpPriority

Pumps == {"solar", "filter"}
Modes == {"auto", "on", "off"}

ASSUME PoolAssumption ==
  /\ {Hold, SampleTime, SamplePause} \subseteq Nat \ {0}
  /\ PumpPhases \in [Pumps -> SUBSET Phases]
  /\ PumpPriority \in [Pumps -> Priorities]

VARIABLES
  setup,    \* the pool's configuration: the pumps with a command topic, the
            \* filter pump takes the samples, it follows the solar pump
  sun,      \* hasSun
  hot,      \* overTemp
  due,      \* a time window of the filter pump, or a full battery
  mode,     \* pumpModes
  pump,     \* solar and filter: output, loadShedOff, what is left of the hold
  sampling, \* tempMode, tempSampling, their times and _filterActsAsSolar
  tick      \* the pass that waits for the database: overTemp and
            \* loadShedActive as it has read them

poolVars == <<setup, sun, hot, due, mode, pump, sampling, tick>>

NewPump == [output |-> None, hold |-> 0, loadShedOff |-> FALSE]
NoSampling == [hotMode |-> FALSE, running |-> FALSE, left |-> 0, pause |-> 0, byFilter |-> FALSE]
NoTick == [under |-> FALSE, hot |-> FALSE, active |-> FALSE]

PoolTypeOK ==
  /\ setup \in [topics : SUBSET Pumps, sample : BOOLEAN, follow : BOOLEAN]
  /\ sun \in BOOLEAN /\ hot \in BOOLEAN /\ due \in BOOLEAN
  /\ mode \in [Pumps -> Modes]
  /\ pump \in [Pumps -> [output : Commands \cup {None}, hold : 0..Hold, loadShedOff : BOOLEAN]]
  /\ sampling \in [hotMode : BOOLEAN, running : BOOLEAN, left : 0..SampleTime,
                   pause : 0..SamplePause, byFilter : BOOLEAN]
  /\ tick \in [under : BOOLEAN, hot : BOOLEAN, active : BOOLEAN]

PoolInit ==
  /\ sun \in BOOLEAN /\ hot = FALSE /\ due = FALSE
  /\ mode = [p \in Pumps |-> "auto"]
  /\ pump = [p \in Pumps |-> NewPump]
  /\ sampling = NoSampling
  /\ tick = NoTick

(* What a pass has made of the pool, and what it has published.            *)
PoolWork == [pump |-> pump, sampling |-> sampling, sent |-> [p \in Pumps |-> None]]

(* The filter pump keeps no time when it is not its own pass that switches *)
Sends(w, p, command) == [w EXCEPT !.sent[p] = command, !.pump[p].output = command]
Held(w, p) == [w EXCEPT !.pump[p].hold = Hold]
SendsSample(w, p, command) ==
  IF p = "solar" THEN Held(Sends(w, p, command), p) ELSE Sends(w, p, command)

EffectivePriority(w, p) == PumpPriority[IF w.sampling.byFilter THEN "solar" ELSE p]

(* The goal is compared with the status; a pump off its goal is switched,  *)
(* but not before the last switch has been held.                           *)
Switches(w, p, desired, shed, on) ==
  LET target == Command(on)
      reached == IF actual[p] # None THEN actual[p] = target ELSE w.pump[p].output = target
      switched == Held(Sends(w, p, target), p)
  IN IF reached THEN [w EXCEPT !.pump[p].output = target]
     ELSE IF w.pump[p].hold = 0
     THEN [switched EXCEPT !.pump[p].loadShedOff = desired /\ shed]
     ELSE w

(* By hand the level does not matter, the load shed does.                  *)
ByMode(w, p, shed) == Switches(w, p, mode[p] = "on", shed, mode[p] = "on" /\ ~shed)

Automatic(w, p, desired, shed) ==
  Switches(w, p, desired, shed,
           desired /\ ~shed /\ IsAllowed(EffectivePriority(w, p)))

(* Too warm: a sample is run while the sun shines, and finished without.   *)
EnterHot(w) ==
  LET fresh == [w EXCEPT !.sampling.hotMode = TRUE, !.sampling.running = FALSE,
                         !.sampling.pause = 0]
  IN IF w.sampling.hotMode THEN w
     ELSE IF setup.sample /\ w.pump["solar"].output = "on"
     THEN Held(Sends(fresh, "solar", "off"), "solar")
     ELSE fresh

Sample(w) ==
  LET sampler == IF setup.sample THEN "filter" ELSE "solar"
      start == ~w.sampling.running /\ sun /\ w.sampling.pause = 0
  IN IF w.sampling.running /\ w.sampling.left = 0
     THEN [SendsSample(w, sampler, "off") EXCEPT !.sampling.running = FALSE,
                                                 !.sampling.pause = SamplePause]
     ELSE IF start /\ setup.sample /\ actual["filter"] = "on"
     THEN [w EXCEPT !.sampling.pause = SamplePause]
     ELSE IF start /\ IsAllowed(PumpPriority["solar"])
     THEN [SendsSample(w, sampler, "on") EXCEPT !.sampling.running = TRUE,
                                                !.sampling.left = SampleTime]
     ELSE w

LeaveHot(w) ==
  LET left == [w EXCEPT !.sampling.hotMode = FALSE, !.sampling.running = FALSE]
  IN IF ~w.sampling.hotMode THEN w
     ELSE IF setup.sample /\ w.sampling.running THEN Sends(left, "filter", "off")
     ELSE left

SolarByHand(w, shed) ==
  IF "solar" \in setup.topics THEN ByMode(w, "solar", shed) ELSE w

SolarAutomatic(w, shed, overTemp) ==
  IF overTemp THEN Sample(EnterHot(w)) ELSE Automatic(LeaveHot(w), "solar", sun, shed)

Filter(w, shed) ==
  LET desired == IF setup.follow THEN w.pump["solar"].output = "on" \/ due ELSE due
  IN IF "filter" \notin setup.topics THEN w
     ELSE IF mode["filter"] # "auto" THEN ByMode(w, "filter", shed)
     ELSE IF w.sampling.byFilter THEN w
     ELSE Automatic(w, "filter", desired, shed)

(* In the end nothing runs that is to be taken off.                        *)
TakeOff(w, p, shed) ==
  LET off == [Sends(w, p, "off") EXCEPT !.pump[p].loadShedOff = TRUE]
  IN IF w.pump[p].output # "on" \/ ~shed THEN w
     ELSE IF p = "solar" THEN Held(off, p) ELSE off

PoolParticipants(w) ==
  {[phases |-> PumpPhases[p], priority |-> EffectivePriority(w, p)] :
     p \in {q \in setup.topics : w.pump[q].output = "on" \/ w.pump[q].loadShedOff}}

Shed(w, p, stages, active) ==
  active /\ ShouldShed(stages, PumpPhases[p], EffectivePriority(w, p))

(* What a pass does once it is through with the solar pump.                *)
Finished(w, stages, active) ==
  LET marked == [w EXCEPT !.sampling.byFilter =
                   setup.sample /\ w.sampling.hotMode /\ w.sampling.running]
      filter == Filter(marked, Shed(marked, "filter", stages, active))
      rid == TakeOff(filter, "solar", Shed(filter, "solar", stages, active))
  IN TakeOff(rid, "filter", Shed(rid, "filter", stages, active))

(* The end of a pass; a pump is registered for the level in automatic mode *)
(* only, in the mode it is in by then.                                     *)
EndsWith(w) ==
  /\ pump' = w.pump
  /\ sampling' = w.sampling
  /\ Publish([u \in Units |-> IF u \in Pumps THEN w.sent[u] ELSE None])
  /\ registered' = [c \in Consumers |->
       IF c \notin Pumps THEN registered[c]
       ELSE IF c \in setup.topics /\ mode[c] = "auto" THEN EffectivePriority(w, c) ELSE 0]

AwaitsSky == "solar" \in setup.topics /\ mode["solar"] = "auto"

(* A pass up to its end, or, with the solar pump in automatic mode, up to  *)
(* the question whether the sun shines.                                    *)
TickPool(loads, active) ==
  /\ ~tick.under
  /\ UNCHANGED <<setup, sun, hot, due, mode, device, actual, operatingLevel, saving, currentLevel>>
  /\ \E w \in {[PoolWork EXCEPT !.pump = [p \in Pumps |->
                  [pump[p] EXCEPT !.loadShedOff = @ /\ active]]]} :
       /\ participants' = RegisterProvider("pool", PoolParticipants(w))
       /\ stage' = IF active THEN Updated(loads, participants') ELSE stage
       /\ IF AwaitsSky
          THEN /\ tick' = [under |-> TRUE, hot |-> hot, active |-> active]
               /\ pump' = w.pump
               /\ UNCHANGED <<sampling, wire, registered>>
          ELSE /\ UNCHANGED tick
               /\ \E end \in {Finished(SolarByHand(w, Shed(w, "solar", stage', active)),
                                      stage', active)} : EndsWith(end)

(* The answer: the pass goes on as an automatic one, with what it read     *)
(* before of the water and the load shed, and everything else as it is now.*)
ResumePool ==
  /\ tick.under
  /\ tick' = NoTick
  /\ UNCHANGED <<setup, sun, hot, due, mode, device, actual, operatingLevel, saving,
                 currentLevel, participants, stage>>
  /\ \E end \in {Finished(SolarAutomatic(PoolWork, Shed(PoolWork, "solar", stage, tick.active),
                                         tick.hot), stage, tick.active)} : EndsWith(end)

(* forceOff of one pump, for the callbacks of the level.                   *)
ForcedPump(p) ==
  [output |-> "off", loadShedOff |-> FALSE, hold |-> IF p = "solar" THEN Hold ELSE pump[p].hold]

(* The route of the mode buttons: it sets the mode and starts a pass.      *)
SetPumpMode(p, m) ==
  /\ p \in setup.topics /\ m # mode[p]
  /\ mode' = [mode EXCEPT ![p] = m]
  /\ pump' = [pump EXCEPT ![p].hold = 0]
  /\ sampling' = IF p = "solar" THEN NoSampling ELSE sampling
  /\ UNCHANGED <<setup, sun, hot, due, tick>>

PoolPass ==
  /\ pump' = [p \in Pumps |-> [pump[p] EXCEPT !.hold = Less(@)]]
  /\ sampling' = [sampling EXCEPT !.left = Less(@), !.pause = Less(@)]
  /\ UNCHANGED <<setup, sun, hot, due, mode, tick>>
=============================================================================
