--------------------------- MODULE OperatingLevel ---------------------------
(***************************************************************************)
(* The operating level of the house: setOperatingLevel of                  *)
(* src/src/operating-state.js, which saves before it tells, and            *)
(* src/src/operating-level/handler.js, which knows the consumers and their *)
(* priorities.  A consumer may run when the level reaches its priority.    *)
(***************************************************************************)
EXTENDS Naturals

CONSTANTS Consumers,  \* everything that may be registered
          MaxLevel

Levels == 1..MaxLevel

ASSUME LevelAssumption == MaxLevel \in Nat \ {0}

VARIABLES
  operatingLevel,  \* of the operating state
  saving,          \* saves under way
  currentLevel,    \* the handler's level
  registered       \* consumers: the registered priority, 0 for none

levelVars == <<operatingLevel, saving, currentLevel, registered>>

LevelTypeOK ==
  /\ operatingLevel \in Levels
  /\ saving \in Nat
  /\ currentLevel \in Levels
  /\ registered \in [Consumers -> 0..MaxLevel]

LevelInit ==
  /\ operatingLevel \in Levels
  /\ saving = 0
  /\ currentLevel = operatingLevel
  /\ registered = [c \in Consumers |-> 0]

IsAllowed(priority) == currentLevel >= priority

(* The consumers applyLevel asks to switch off.                            *)
MustTurnOff(level) == {c \in Consumers : level < registered[c]}

SetOperatingLevel(l) ==
  /\ l # operatingLevel
  /\ operatingLevel' = l
  /\ saving' = saving + 1
  /\ UNCHANGED <<currentLevel, registered>>

(* notifyLevelChanged after the save, and applyLevel in the handler; the   *)
(* callbacks of the consumers are left to the module that composes.        *)
LevelSaved ==
  /\ saving > 0
  /\ saving' = saving - 1
  /\ currentLevel' = operatingLevel
  /\ UNCHANGED <<operatingLevel, registered>>
=============================================================================
