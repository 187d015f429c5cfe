------------------------------- MODULE Actors -------------------------------
(***************************************************************************)
(* src/src/messen-schalten/automation.js: the switched devices of the      *)
(* house.  A pass reads what the devices and their remote topics report,   *)
(* obeys the operating level and the load shed, and repeats a command that *)
(* is not confirmed after a time that doubles.                             *)
(*                                                                         *)
(* An actor has a status topic; `Remote` are the actors with a remote      *)
(* topic as well.  The configuration is fixed while the program runs.      *)
(***************************************************************************)
EXTENDS LoadShed, OperatingLevel, Outlets
LOCAL INSTANCE FiniteSetsExt

CONSTANTS RetryBase,   \* PENDING_RETRY_BASE_MS
          RetryMax,    \* PENDING_RETRY_MAX_MS
          MaxAttempt,  \* bound: attempts are counted up to here
          ActorType    \* the configuration of every possible actor

ActorNames == DOMAIN ActorType

ASSUME ActorsAssumption ==
  /\ {RetryBase, RetryMax, MaxAttempt} \subseteq Nat \ {0}
  /\ ActorType \in [ActorNames -> [phases : SUBSET Phases, priority : Priorities,
                      alwaysOn : BOOLEAN, remote : BOOLEAN, sheds : BOOLEAN]]

VARIABLES
  actors,      \* the actors that are configured
  unit,        \* the state of each actor
  remote,      \* what its remote topic last said, in the cache
  newer,       \* which of `actual` and `remote` was received last
  remoteWire   \* the value on its way to the remote topic

actorVars == <<actors, unit, remote, newer, remoteWire>>

NoPending == [command |-> None, attempt |-> 0, wait |-> 0]
Pending == [command : Commands \cup {None}, attempt : 0..MaxAttempt, wait : 0..RetryMax]
NewUnit == [output |-> None, loadShedOff |-> FALSE, remoteSeen |-> None,
            pendingSwitch |-> NoPending, pendingRemote |-> NoPending]

ActorsTypeOK ==
  /\ actors \subseteq ActorNames
  /\ unit \in [ActorNames -> [output : Commands \cup {None}, loadShedOff : BOOLEAN,
                              remoteSeen : Commands \cup {None},
                              pendingSwitch : Pending, pendingRemote : Pending]]
  /\ remote \in [ActorNames -> Commands \cup {None}]
  /\ newer \in [ActorNames -> {"actual", "remote"}]
  /\ remoteWire \in [ActorNames -> Commands \cup {None}]

ActorsInit ==
  /\ unit = [a \in ActorNames |-> NewUnit]
  /\ remote = [a \in ActorNames |-> None]
  /\ newer = [a \in ActorNames |-> "actual"]
  /\ remoteWire = [a \in ActorNames |-> None]

(* Mutant: an unconfirmed command is never repeated.                       *)
IsPending_Forever(pending, command) == pending.command = command

IsPending(pending, command) == pending.command = command /\ pending.wait > 0

(* PENDING_RETRY_BASE_MS * 2 ** attempt: the time after an attempt.        *)
Backoff[attempt \in Nat] ==
  IF attempt = 0 THEN RetryBase ELSE 2 * Backoff[attempt - 1]

(* Mutant: the time between two attempts grows without a limit.            *)
NextPending_Unlimited(pending, command) ==
  LET attempt == IF pending.command = command THEN Min({pending.attempt + 1, MaxAttempt}) ELSE 0
  IN [command |-> command, attempt |-> attempt, wait |-> Backoff[attempt]]

NextPending(pending, command) ==
  LET attempt == IF pending.command = command THEN Min({pending.attempt + 1, MaxAttempt}) ELSE 0
  IN [command |-> command, attempt |-> attempt, wait |-> Min({RetryMax, Backoff[attempt]})]

Confirm(pending, value) == IF pending.command = value THEN NoPending ELSE pending

(* What a pass has made of an actor: its state and what was published.     *)
Work(a) == [unit |-> unit[a], switch |-> None, remote |-> None]

SendRemote(a, w, command) ==
  IF ~ActorType[a].remote \/ IsPending(w.unit.pendingRemote, command) THEN w
  ELSE [w EXCEPT !.unit.pendingRemote = NextPending(@, command), !.remote = command]

SendSwitch(a, w, command) ==
  IF IsPending(w.unit.pendingSwitch, command) THEN w
  ELSE SendRemote(a, [w EXCEPT !.unit.pendingSwitch = NextPending(@, command),
                               !.switch = command], command)

Becomes(w, output, loadShedOff) ==
  [w EXCEPT !.unit.output = output, !.unit.loadShedOff = loadShedOff]

IsShed(a, stages, active) ==
  active /\ ActorType[a].sheds /\ ShouldShed(stages, ActorType[a].phases, ActorType[a].priority)

RemoteChanged(a) ==
  ActorType[a].remote /\ remote[a] # None /\ remote[a] # unit[a].remoteSeen

(* The readings confirm what was sent; without the load shed nothing is    *)
(* off because of it.                                                      *)
ReadUnit(a, active) ==
  [Work(a) EXCEPT
     !.unit.remoteSeen = IF RemoteChanged(a) THEN remote[a] ELSE @,
     !.unit.pendingSwitch = IF actual[a] = None THEN @ ELSE Confirm(@, actual[a]),
     !.unit.pendingRemote = IF remote[a] = None THEN @ ELSE Confirm(@, remote[a]),
     !.unit.loadShedOff = @ /\ active /\ ActorType[a].sheds]

(* A new value of the remote topic is a wish; a wish for on is refused     *)
(* below the level and while the load is shed.                             *)
FollowRemote(a, w, shed) ==
  IF ~RemoteChanged(a) THEN w
  ELSE IF remote[a] = "on" /\ (~IsAllowed(ActorType[a].priority) \/ shed)
  THEN Becomes(SendSwitch(a, w, "off"), "off", shed)
  ELSE Becomes(SendSwitch(a, w, remote[a]), remote[a], w.unit.loadShedOff)

SwitchOff(a, w, shed) ==
  LET running == actual[a] = "on" \/ (actual[a] = None /\ w.unit.output # "off")
  IN Becomes(IF running THEN SendSwitch(a, w, "off") ELSE w, "off", shed)

(* An actor that is always on comes back by itself, also when its status   *)
(* still says on after it was taken off.                                   *)
Release(a, w) ==
  LET back == w.unit.loadShedOff \/ actual[a] # "on"
  IN IF ActorType[a].alwaysOn /\ ~ActorType[a].remote
     THEN Becomes(IF back THEN SendSwitch(a, w, "on") ELSE w, "on", FALSE)
     ELSE Becomes(w, w.unit.output, FALSE)

Obey(a, w, shed) ==
  IF IsAllowed(ActorType[a].priority) /\ ~shed THEN Release(a, w)
  ELSE SwitchOff(a, w, shed /\ IsAllowed(ActorType[a].priority))

(* The remote topic follows the device when the device spoke last.         *)
MirrorToRemote(a, w, shed) ==
  IF /\ actual[a] # None /\ IsAllowed(ActorType[a].priority) /\ ~shed
     /\ \/ remote[a] = None
        \/ ~RemoteChanged(a) /\ remote[a] # actual[a] /\ newer[a] = "actual"
  THEN SendRemote(a, w, actual[a])
  ELSE w

(* Mutant: what has been taken off is no longer registered.                *)
Sheddable_Running(active) ==
  {a \in actors : active /\ ActorType[a].sheds
                  /\ (actual[a] = "on" \/ unit[a].output = "on")}

(* The actors that could be taken off, or are off because of the load.     *)
Sheddable(active) ==
  {a \in actors : active /\ ActorType[a].sheds
                  /\ (actual[a] = "on" \/ unit[a].output = "on" \/ unit[a].loadShedOff)}

TickActor(a, stages, active) ==
  LET shed == IsShed(a, stages, active)
      read == ReadUnit(a, active)
  IN MirrorToRemote(a, Obey(a, FollowRemote(a, read, shed), shed), shed)

(* One pass over all actors.                                               *)
TickActors(loads, active) ==
  /\ UNCHANGED <<actors, remote, newer, device, actual, operatingLevel, saving, currentLevel>>
  /\ participants' = RegisterProvider("messschalt",
       {[phases |-> ActorType[a].phases, priority |-> ActorType[a].priority] :
          a \in Sheddable(active)})
  /\ stage' = IF active THEN Updated(loads, participants') ELSE stage
  /\ registered' = [c \in Consumers |->
                      IF c \in actors THEN ActorType[c].priority ELSE registered[c]]
  /\ \E work \in {[a \in actors |-> TickActor(a, stage', active)]} :
       /\ unit' = [a \in ActorNames |-> IF a \in actors THEN work[a].unit ELSE unit[a]]
       /\ Publish([u \in Units |-> IF u \in actors THEN work[u].switch ELSE None])
       /\ remoteWire' = [a \in ActorNames |->
            IF a \in actors /\ work[a].remote # None THEN work[a].remote ELSE remoteWire[a]]

(* commandManual: off is always allowed, on from the priority on.          *)
CommandManual(a, on) ==
  /\ a \in actors /\ ~ActorType[a].alwaysOn
  /\ \E command \in {Command(on /\ IsAllowed(ActorType[a].priority))} :
     \E w \in {SendSwitch(a, Work(a), command)} :
       /\ unit' = [unit EXCEPT ![a] = Becomes(w, command, @.loadShedOff).unit]
       /\ wire' = [wire EXCEPT ![a] = IF w.switch = None THEN @ ELSE w.switch]
       /\ remoteWire' = [remoteWire EXCEPT ![a] = IF w.remote = None THEN @ ELSE w.remote]
  /\ UNCHANGED <<actors, remote, newer, device, actual, shedVars, levelVars>>

(* forceOff of one actor, for the callbacks of the level.                  *)
Forced(a) ==
  LET w == SendSwitch(a, Work(a), "off") IN [w EXCEPT !.unit.output = "off"]

(* The remote topic: set by its user, or by a value of ours.               *)
RemoteSet(a, value) ==
  /\ a \in actors /\ ActorType[a].remote
  /\ remote' = [remote EXCEPT ![a] = value]
  /\ newer' = [newer EXCEPT ![a] = "remote"]
  /\ UNCHANGED <<actors, unit, remoteWire>>

RemoteArrives(a) ==
  /\ remoteWire[a] # None
  /\ remote' = [remote EXCEPT ![a] = remoteWire[a]]
  /\ newer' = [newer EXCEPT ![a] = "remote"]
  /\ remoteWire' = [remoteWire EXCEPT ![a] = None]
  /\ UNCHANGED <<actors, unit>>

Lesser(pending) == [pending EXCEPT !.wait = Less(@)]

ActorsPass ==
  /\ unit' = [a \in ActorNames |-> [unit[a] EXCEPT !.pendingSwitch = Lesser(@),
                                                   !.pendingRemote = Lesser(@)]]
  /\ UNCHANGED <<actors, remote, newer, remoteWire>>
=============================================================================
