--------------------------- MODULE Notifications ---------------------------
(***************************************************************************)
(* src/src/notifications/engine.js with triggers.js: one rule on the topic *)
(* of the bus.  An edit switches the rule on or off.  Rules share nothing  *)
(* but the reload.                                                         *)
(*                                                                         *)
(* Time is one fact: whether the cool-down of the last push has passed.    *)
(* Every stored time of that push is TRUE ("within the cool-down") until   *)
(* it has.                                                                 *)
(***************************************************************************)
EXTENDS Integers, ValueBus

CONSTANTS RuleSavers,    \* bound: edits of rules saved at the same time
          Enabled,       \* the rule is enabled when the engine starts
          TriggerType,   \* the trigger of the rule
          TriggerValue   \* and the value it compares with

ASSUME NotificationsAssumption ==
  /\ "rule" \in AdHoc
  /\ Values \subseteq Int /\ TriggerValue \in Int
  /\ TriggerType \in {"changed", "equals", "not_equals", "above", "below"}
  /\ Enabled \in BOOLEAN

VARIABLES
  rule,           \* the rule in the database: enabled, last_triggered_at
  ruleIndex,      \* ruleByCacheKey has the rule
  lastTriggered,  \* lastTriggeredAt of the rule object
  marking,        \* markTriggered() is on its way to the database
  baseline,       \* the previous value, None: not known
  ruleSaver,      \* saver -> [at, enabled, last]
  ruleReloading,  \* the flag
  coolDown,       \* history: the cool-down of the last push has not passed
  pushes,         \* history: pushes of the rule
  missed,         \* history: a value came during a reload, and none since
  ruleCalm,       \* history: no reload met another one or markTriggered()
  ruleEdits       \* counter for the bound

notificationVars == <<rule, ruleIndex, lastTriggered, marking, baseline, ruleSaver,
                      ruleReloading, coolDown, pushes, missed, ruleCalm, ruleEdits>>

NoRuleReload == \A s \in RuleSavers : ruleSaver[s].at = "idle"
IdleSaver == [at |-> "idle", enabled |-> FALSE, last |-> FALSE]

NotificationsInit ==
  /\ rule = [enabled |-> Enabled, last |-> FALSE]
  /\ ruleIndex = Enabled /\ lastTriggered = FALSE /\ marking = FALSE
  /\ baseline = None
  /\ ruleSaver = [s \in RuleSavers |-> IdleSaver]
  /\ ruleReloading = FALSE
  /\ coolDown = FALSE /\ pushes = 0 /\ missed = FALSE
  /\ ruleCalm = TRUE /\ ruleEdits = 0

-----------------------------------------------------------------------------
(* The five kinds of edges, for two known values.                          *)
Matches(old, new) ==
  CASE TriggerType = "changed"    -> old # new
    [] TriggerType = "equals"     -> old # TriggerValue /\ new = TriggerValue
    [] TriggerType = "not_equals" -> old = TriggerValue /\ new # TriggerValue
    [] TriggerType = "above"      -> old <= TriggerValue /\ new > TriggerValue
    [] TriggerType = "below"      -> old >= TriggerValue /\ new < TriggerValue

\* Mutant: an unknown value counts as 0.
Edge_Unknown(new) == Matches(IF baseline = None THEN 0 ELSE baseline, new)

(* matches() of triggers.js: an unknown previous value is never an edge.   *)
Edge(new) == baseline # None /\ Matches(baseline, new)

(* fire() outside of the cool-down.                                        *)
Fire ==
  /\ lastTriggered' = TRUE /\ coolDown' = TRUE
  /\ marking' = TRUE
  /\ pushes' = pushes + 1

(* onValues(), evaluateKey(): the value is the next baseline, whatever it  *)
(* does.                                                                   *)
RuleOnValues(changed, v) ==
  /\ IF ~ruleReloading /\ "rule" \in changed /\ ruleIndex
     THEN /\ baseline' = v /\ missed' = FALSE
          /\ IF Edge(v) /\ ~lastTriggered
             THEN Fire
             ELSE UNCHANGED <<lastTriggered, coolDown, marking, pushes>>
     ELSE /\ missed' = (missed \/ "rule" \in changed)
          /\ UNCHANGED <<baseline, lastTriggered, coolDown, marking, pushes>>
  /\ UNCHANGED <<rule, ruleIndex, ruleSaver, ruleReloading, ruleCalm, ruleEdits>>

\* Mutant: the time of the push is not stored.
StoreTriggered_Nothing ==
  /\ marking
  /\ marking' = FALSE
  /\ UNCHANGED <<busVars, rule, ruleIndex, lastTriggered, baseline, ruleSaver,
                 ruleReloading, coolDown, pushes, missed, ruleCalm, ruleEdits>>

(* markTriggered() is stored.                                              *)
StoreTriggered ==
  /\ marking
  /\ marking' = FALSE
  /\ rule' = [rule EXCEPT !.last = TRUE]
  /\ UNCHANGED <<busVars, ruleIndex, lastTriggered, baseline, ruleSaver, ruleReloading,
                 coolDown, pushes, missed, ruleCalm, ruleEdits>>

(* The cool-down passes: wherever its time is kept, it is over.            *)
CoolDownEnds ==
  /\ coolDown
  /\ coolDown' = FALSE /\ lastTriggered' = FALSE /\ marking' = FALSE
  /\ rule' = [rule EXCEPT !.last = FALSE]
  /\ ruleSaver' = [s \in RuleSavers |-> [ruleSaver[s] EXCEPT !.last = FALSE]]
  /\ UNCHANGED <<busVars, ruleIndex, baseline, ruleReloading, pushes, missed, ruleCalm,
                 ruleEdits>>

-----------------------------------------------------------------------------
(* An edit is stored.                                                      *)
SaveRule(s, enabled) ==
  /\ ruleSaver[s].at = "idle" /\ ruleEdits < limit.ruleEdits
  /\ ruleEdits' = ruleEdits + 1
  /\ rule' = [rule EXCEPT !.enabled = enabled]
  /\ ruleSaver' = [ruleSaver EXCEPT ![s].at = "saved"]
  /\ ruleCalm' = (ruleCalm /\ NoRuleReload)
  /\ UNCHANGED <<busVars, ruleIndex, lastTriggered, marking, baseline, ruleReloading,
                 coolDown, pushes, missed>>

BeginRuleReload(s) ==
  /\ ruleSaver[s].at = "saved"
  /\ ruleSaver' = [ruleSaver EXCEPT ![s].at = "list"]
  /\ ruleReloading' = TRUE
  /\ ruleCalm' = (ruleCalm /\ ~marking)
  /\ UNCHANGED <<busVars, rule, ruleIndex, lastTriggered, marking, baseline, coolDown,
                 pushes, missed, ruleEdits>>

(* The database answers listActiveRules().                                 *)
ListRules(s) ==
  /\ ruleSaver[s].at = "list"
  /\ ruleSaver' = [ruleSaver EXCEPT ![s] =
                     [at |-> "listed", enabled |-> rule.enabled, last |-> rule.last]]
  /\ UNCHANGED <<busVars, rule, ruleIndex, lastTriggered, marking, baseline,
                 ruleReloading, coolDown, pushes, missed, ruleCalm, ruleEdits>>

(* The previous value after a reload: kept while the rule stays, the value *)
(* the bus knows of for a new subscription.                                *)
NewBaseline(was, is) ==
  CASE was /\ is  -> baseline
    [] ~was /\ is -> cache["rule"]
    [] OTHER      -> None

(* reload() after listActiveRules().                                       *)
EndRuleReload(s) ==
  LET was == "rule" \in routes
      is  == ruleSaver[s].enabled
  IN  /\ ruleSaver[s].at = "listed"
      /\ ruleSaver' = [ruleSaver EXCEPT ![s] = IdleSaver]
      /\ ruleReloading' = FALSE
      /\ CASE was /\ ~is -> ReplaceAdHoc({"rule"}, {})
           [] ~was /\ is -> ReplaceAdHoc({}, {"rule"})
           [] OTHER      -> UNCHANGED busVars
      /\ baseline' = NewBaseline(was, is)
      /\ ruleIndex' = is
      /\ lastTriggered' = (is /\ ruleSaver[s].last)
      /\ missed' = (missed /\ was /\ is)
      /\ UNCHANGED <<rule, marking, coolDown, pushes, ruleCalm, ruleEdits>>

RuleReload(s) == BeginRuleReload(s) \/ ListRules(s) \/ EndRuleReload(s)

NotificationStep ==
  \/ StoreTriggered
  \/ CoolDownEnds
  \/ \E s \in RuleSavers, enabled \in BOOLEAN : SaveRule(s, enabled)
  \/ \E s \in RuleSavers : RuleReload(s)

-----------------------------------------------------------------------------
NotificationsTypeOK ==
  /\ rule \in [enabled : BOOLEAN, last : BOOLEAN]
  /\ {ruleIndex, lastTriggered, marking, ruleReloading, coolDown, missed, ruleCalm}
       \subseteq BOOLEAN
  /\ baseline \in Values \cup {None}
  /\ ruleSaver \in [RuleSavers ->
       [at : {"idle", "saved", "list", "listed"}, enabled : BOOLEAN, last : BOOLEAN]]
  /\ pushes \in Nat
  /\ ruleEdits \in 0..limit.ruleEdits
=============================================================================
