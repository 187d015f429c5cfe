------------------------------ MODULE LoadShed ------------------------------
(***************************************************************************)
(* src/src/grid-control/load-shed.js: the stages of the load shed, shared  *)
(* by every controller of consumers.  A controller registers what could be *)
(* taken off, updates the stages with the loads of the phases and asks     *)
(* which of its consumers have to go.  A greater priority goes first.      *)
(*                                                                         *)
(* The two times of a stage are kept as what is left of them.              *)
(***************************************************************************)
EXTENDS Naturals
LOCAL INSTANCE FiniteSetsExt

CONSTANTS Phases, Providers, Priorities,
          NoCutoff,   \* cutoff: null
          Settle,     \* LOAD_SHED_SETTLE_MS
          Recover     \* LOAD_SHED_RECOVER_MS

Participants == [phases : SUBSET Phases, priority : Priorities]
(* Under 50 % of the maximum, in between, from 80 % on.  Number(null) is 0: *)
(* a load that is not known counts as low.                                 *)
Loads == {"low", "middle", "over"}

ASSUME ShedAssumption ==
  /\ Priorities \subseteq Nat /\ NoCutoff \notin Priorities
  /\ {Settle, Recover} \subseteq Nat \ {0}

VARIABLES
  participants,  \* providers: what each could take off
  stage          \* stages, by phase

shedVars == <<participants, stage>>

Cleared == [cutoff |-> NoCutoff, escalate |-> 0, recover |-> 0]

ShedTypeOK ==
  /\ participants \in [Providers -> SUBSET Participants]
  /\ stage \in [Phases -> [cutoff : Priorities \cup {NoCutoff},
                           escalate : 0..Settle, recover : 0..Recover]]

ShedInit ==
  /\ participants = [k \in Providers |-> {}]
  /\ stage = [p \in Phases |-> Cleared]

PrioritiesForPhase(p, registered) ==
  {q.priority : q \in {r \in UNION {registered[k] : k \in Providers} : p \in r.phases}}

(* Mutant: everything of the phase is taken off at once.                   *)
NextEscalationCutoff_AllAtOnce(cutoff, priorities) ==
  LET lower == IF cutoff = NoCutoff THEN priorities
               ELSE {q \in priorities : q < cutoff}
  IN IF lower = {} THEN cutoff ELSE Min(lower)

NextEscalationCutoff(cutoff, priorities) ==
  LET lower == IF cutoff = NoCutoff THEN priorities
               ELSE {q \in priorities : q < cutoff}
  IN IF lower = {} THEN cutoff ELSE Max(lower)

(* Mutant: the last stage does not open.                                   *)
NextRecoveryCutoff_Stuck(cutoff, priorities) ==
  LET higher == {q \in priorities : q > cutoff}
  IN IF cutoff \notin priorities THEN NoCutoff
     ELSE IF higher = {} THEN cutoff ELSE Min(higher)

(* A cutoff nobody has any more is given up at once.                       *)
NextRecoveryCutoff(cutoff, priorities) ==
  LET higher == {q \in priorities : q > cutoff}
  IN IF cutoff \notin priorities \/ higher = {} THEN NoCutoff ELSE Min(higher)

UpdateStage(s, load, priorities) ==
  LET next == IF load = "over" THEN NextEscalationCutoff(s.cutoff, priorities)
              ELSE NextRecoveryCutoff(s.cutoff, priorities)
      moved == [cutoff |-> next, escalate |-> Settle, recover |-> Recover]
  IN CASE priorities = {} -> Cleared
       [] priorities # {} /\ load = "over" ->
            IF next # s.cutoff /\ s.escalate = 0 THEN moved ELSE s
       [] priorities # {} /\ load = "low" ->
            IF s.cutoff # NoCutoff /\ s.recover = 0 THEN moved ELSE s
       [] OTHER -> s

Updated(loads, registered) ==
  [p \in Phases |-> UpdateStage(stage[p], loads[p], PrioritiesForPhase(p, registered))]

ShouldShed(stages, phases, priority) ==
  \E p \in phases : stages[p].cutoff # NoCutoff /\ priority >= stages[p].cutoff

RegisterProvider(k, list) == [participants EXCEPT ![k] = list]

Less(time) == IF time = 0 THEN 0 ELSE time - 1

ShedPass ==
  /\ stage' = [p \in Phases |-> [stage[p] EXCEPT !.escalate = Less(@), !.recover = Less(@)]]
  /\ UNCHANGED participants
=============================================================================
