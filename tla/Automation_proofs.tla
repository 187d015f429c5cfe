-------------------------- MODULE Automation_proofs --------------------------
(***************************************************************************)
(* What the two engines promise, for any values, any number of edits saved *)
(* at the same time and any bounds: a push answers an edge and respects    *)
(* its cool-down, the engines hold what the database holds, and a          *)
(* condition plays one list at a time.  The two engines meet in the routes *)
(* and the cache of the bus, under keys of their own; each part below      *)
(* names what it needs of the other ones.                                  *)
(***************************************************************************)
EXTENDS Automation, TLAPS

USE BusAssumption, ConditionsAssumption, NotificationsAssumption
    DEF BusAssumption, ConditionsAssumption, NotificationsAssumption

SaverState == {"idle", "saved", "list", "listed"}

ConditionTypes ==
  /\ saver \in [Savers -> [at : SaverState, snap : BOOLEAN]]
  /\ trigger \in BOOLEAN /\ index \in BOOLEAN /\ saved \in BOOLEAN

RuleTypes ==
  /\ ruleSaver \in [RuleSavers -> [at : SaverState, enabled : BOOLEAN, last : BOOLEAN]]
  /\ rule \in [enabled : BOOLEAN, last : BOOLEAN] /\ ruleIndex \in BOOLEAN

TypeInv ==
  /\ ConditionTypes /\ RuleTypes
  /\ cache \in [BusKeys -> Values \cup {None}]
  /\ runs \subseteq [key : Keys, list : Lists, token : Nat, left : Int]
  /\ runTokens \in [Keys -> Nat]

\* What the rule compares with is what the bus delivered last, but after a
\* reload that missed a value.
BaselineInv ==
  /\ ruleIndex <=> "rule" \in routes
  /\ baseline # None => "rule" \in routes /\ cache["rule"] # None
  /\ baseline # None /\ ~missed => baseline = cache["rule"]

\* One edit of the rules at a time: nothing is pushed while it is read, what
\* it has read is what the database holds, and the end of the cool-down is
\* known in the rule and in the database or on its way there.
RuleInv == ruleCalm =>
  /\ \A s, t \in RuleSavers : ruleSaver[s].at # "idle" /\ ruleSaver[t].at # "idle" => s = t
  /\ \A s \in RuleSavers : ruleSaver[s].at \in {"list", "listed"} => ruleReloading /\ ~marking
  /\ \A s \in RuleSavers : ruleSaver[s].at = "listed" =>
       ruleSaver[s].enabled = rule.enabled /\ ruleSaver[s].last = rule.last
  /\ coolDown => rule.last \/ marking
  /\ coolDown /\ ruleIndex => lastTriggered
  /\ NoRuleReload => ruleIndex = rule.enabled

\* One edit of the condition at a time: from the start of its reload to the
\* end the engine has neither subscribed nor entered a trigger.
ConditionInv == calm =>
  /\ \A s, t \in Savers : saver[s].at # "idle" /\ saver[t].at # "idle" => s = t
  /\ \A s \in Savers : saver[s].at \in {"list", "listed"} => ~index /\ routes \cap Own = {}
  /\ \A s \in Savers : saver[s].at = "listed" => saver[s].snap = saved
  /\ NoReload => /\ trigger = saved /\ index = saved
                 /\ routes \cap Own = Wanted(saved) /\ loops = Checked

IInv == TypeInv /\ BaselineInv /\ RuleInv /\ ConditionInv /\ OneBranch
-----------------------------------------------------------------------------
(* The steps, told apart by what they change of each part                  *)

\* The keys of the engines are keys of the bus, and different ones.
LEMMA KeysDiffer ==
  /\ "rule" \in BusKeys /\ "rule" \notin Own /\ "state" \notin Own /\ "rule" # "state"
  /\ Own \subseteq BusKeys
BY DEF BusKeys, Own

\* What a key outside of old and new has, replacing these leaves alone.
LEMMA Replaced ==
  ASSUME NEW old, NEW new, ReplaceAdHoc(old, new), cache \in [BusKeys -> Values \cup {None}]
  PROVE  /\ routes' = (routes \ old) \cup new
         /\ cache' \in [BusKeys -> Values \cup {None}]
         /\ \A k \in BusKeys : cache'[k] = IF k \in old THEN None ELSE cache[k]
BY DEF ReplaceAdHoc

\* A step of the bus keeps the routes, and of the cache all but the state.
LEMMA BusFrame ==
  ASSUME BusStep, cache \in [BusKeys -> Values \cup {None}]
  PROVE  /\ routes' = routes /\ cache' \in [BusKeys -> Values \cup {None}]
         /\ \A k \in BusKeys : k # "state" => cache'[k] = cache[k]
<1>1. CASE UNCHANGED <<routes, cache>> BY <1>1
<1>2. ASSUME NEW def \in BOOLEAN, SetStateDefinitions(def)
      PROVE  /\ routes' = routes /\ cache' \in [BusKeys -> Values \cup {None}]
             /\ \A k \in BusKeys : k # "state" => cache'[k] = cache[k]
  <2>1. routes' = routes /\ (cache' = cache \/ cache' = [cache EXCEPT !["state"] = None])
    BY <1>2 DEF SetStateDefinitions
  <2> QED BY <2>1
<1> QED
  BY <1>1, <1>2
  DEF BusStep, Connect, Close, SubAck, DeviceChanges, BrokerSubscribes, BrokerAnswers,
      brokerVars

\* A step of the condition keeps what the rule has at the bus.
LEMMA ConditionFrame ==
  ASSUME ConditionStep, cache \in [BusKeys -> Values \cup {None}]
  PROVE  /\ "rule" \in routes' <=> "rule" \in routes
         /\ cache' \in [BusKeys -> Values \cup {None}] /\ cache'["rule"] = cache["rule"]
<1>1. CASE UNCHANGED busVars BY <1>1 DEF busVars
<1>2. ASSUME NEW s \in Savers, BeginReload(s) \/ EndReload(s)
      PROVE  /\ "rule" \in routes' <=> "rule" \in routes
             /\ cache' \in [BusKeys -> Values \cup {None}] /\ cache'["rule"] = cache["rule"]
  <2>1. PICK old \in SUBSET Own, new \in SUBSET Own : ReplaceAdHoc(old, new)
    <3>1. Wanted(saver[s].snap) \subseteq Own BY DEF Wanted, Own
    <3> QED BY <1>2, <3>1 DEF BeginReload, EndReload
  <2> QED BY <2>1, Replaced, KeysDiffer
<1> QED
  BY <1>1, <1>2
  DEF ConditionStep, Arm, Flush, BranchResumes, Marked, WindowEnds, CheckLoop, LoopResumes,
      SaveEdit, Reload, ListConditions

\* A step of the rules keeps what the condition has at the bus.
LEMMA RuleFrame ==
  ASSUME NotificationStep, cache \in [BusKeys -> Values \cup {None}]
  PROVE  /\ routes' \cap Own = routes \cap Own
         /\ cache' \in [BusKeys -> Values \cup {None}]
<1>1. CASE UNCHANGED busVars BY <1>1 DEF busVars
<1>2. ASSUME NEW s \in RuleSavers, EndRuleReload(s)
      PROVE  /\ routes' \cap Own = routes \cap Own
             /\ cache' \in [BusKeys -> Values \cup {None}]
  <2>1. \/ UNCHANGED busVars
        \/ \E old, new \in SUBSET {"rule"} : ReplaceAdHoc(old, new)
    BY <1>2 DEF EndRuleReload
  <2>2. ASSUME NEW old \in SUBSET {"rule"}, NEW new \in SUBSET {"rule"}, ReplaceAdHoc(old, new)
        PROVE  /\ routes' \cap Own = routes \cap Own
               /\ cache' \in [BusKeys -> Values \cup {None}]
    <3>1. /\ routes' = (routes \ old) \cup new
          /\ cache' \in [BusKeys -> Values \cup {None}]
      BY <2>2, Replaced
    <3>2. \A k \in Own : k \notin old /\ k \notin new BY <2>2, KeysDiffer
    <3> QED BY <3>1, <3>2
  <2> QED BY <1>1, <2>1, <2>2
<1> QED
  BY <1>1, <1>2
  DEF NotificationStep, StoreTriggered, CoolDownEnds, SaveRule, RuleReload, BeginRuleReload,
      ListRules

\* What a message leaves to the engines.
LEMMA ReceiveFrame ==
  ASSUME Receive, cache \in [BusKeys -> Values \cup {None}]
  PROVE  \E v \in Values :
           /\ OnValues(Changed(v)) /\ RuleOnValues(Changed(v), v) /\ routes' = routes
           /\ cache' \in [BusKeys -> Values \cup {None}] /\ v # None
           /\ cache'["rule"] = IF "rule" \in routes THEN v ELSE cache["rule"]
           /\ "rule" \in Changed(v) <=> "rule" \in routes /\ cache["rule"] # v
<1>1. PICK v \in Values : Deliver(v) /\ OnValues(Changed(v)) /\ RuleOnValues(Changed(v), v)
  BY DEF Receive
<1>2. cache' = [k \in BusKeys |-> IF k \in Routed THEN v ELSE cache[k]] /\ routes' = routes
  BY <1>1 DEF Deliver
<1>3. "rule" \in Routed <=> "rule" \in routes BY KeysDiffer DEF Routed
<1>4. "rule" \in Changed(v) <=> "rule" \in routes /\ cache["rule"] # v
  BY <1>3 DEF Changed
<1> QED BY <1>1, <1>2, <1>3, <1>4, KeysDiffer

\* A step is one of the bus, of the condition, of the rules, or a message.
LEMMA StepCases ==
  ASSUME [Next]_vars
  PROVE  \/ Receive
         \/ BusStep /\ UNCHANGED <<runnerVars, conditionVars, notificationVars>>
         \/ ConditionStep /\ UNCHANGED notificationVars
         \/ NotificationStep /\ UNCHANGED <<runnerVars, conditionVars>>
         \/ UNCHANGED vars
BY DEF Next, Bus, Condition, Notification
-----------------------------------------------------------------------------
(* The previous value of the rule *)

LEMMA BaselineKept ==
  ASSUME IInv, [Next]_vars
  PROVE  BaselineInv'
<1>1. TypeInv /\ BaselineInv /\ cache \in [BusKeys -> Values \cup {None}]
  BY DEF IInv, TypeInv, ConditionTypes, RuleTypes
<1>2. ASSUME "rule" \in routes' <=> "rule" \in routes, cache'["rule"] = cache["rule"],
             UNCHANGED <<ruleIndex, baseline, missed>>
      PROVE  BaselineInv'
  BY <1>1, <1>2 DEF BaselineInv
<1>3. CASE Receive
  <2>1. PICK v \in Values :
          /\ RuleOnValues(Changed(v), v) /\ routes' = routes /\ v # None
          /\ cache'["rule"] = IF "rule" \in routes THEN v ELSE cache["rule"]
          /\ "rule" \in Changed(v) <=> "rule" \in routes /\ cache["rule"] # v
    BY <1>1, <1>3, ReceiveFrame
  <2>2. CASE ~ruleReloading /\ "rule" \in Changed(v) /\ ruleIndex
    BY <1>1, <2>1, <2>2 DEF RuleOnValues, BaselineInv
  <2>3. CASE ~(~ruleReloading /\ "rule" \in Changed(v) /\ ruleIndex)
    BY <1>1, <2>1, <2>3 DEF RuleOnValues, BaselineInv
  <2> QED BY <2>2, <2>3
<1>4. CASE BusStep /\ UNCHANGED <<runnerVars, conditionVars, notificationVars>>
  BY <1>1, <1>2, <1>4, BusFrame, KeysDiffer DEF notificationVars
<1>5. CASE ConditionStep /\ UNCHANGED notificationVars
  BY <1>1, <1>2, <1>5, ConditionFrame DEF notificationVars
<1>6. CASE NotificationStep
  <2>1. ASSUME NEW s \in RuleSavers, EndRuleReload(s) PROVE BaselineInv'
    <3> DEFINE was == "rule" \in routes
               is == ruleSaver[s].enabled
    <3>1. is \in BOOLEAN BY <1>1 DEF TypeInv, RuleTypes
    <3>2. /\ baseline' = NewBaseline(was, is) /\ ruleIndex' = is
          /\ missed' = (missed /\ was /\ is)
      BY <2>1 DEF EndRuleReload
    <3>3. CASE was /\ is
      BY <1>1, <2>1, <3>2, <3>3 DEF EndRuleReload, NewBaseline, BaselineInv, busVars
    <3>4. CASE ~was /\ is
      <4>1. ReplaceAdHoc({}, {"rule"}) BY <2>1, <3>4 DEF EndRuleReload
      <4>2. "rule" \in routes' /\ cache'["rule"] = cache["rule"]
        BY <1>1, <4>1, Replaced, KeysDiffer
      <4>3. baseline' = cache["rule"] BY <3>2, <3>4 DEF NewBaseline
      <4> QED BY <3>2, <3>4, <4>2, <4>3 DEF BaselineInv
    <3>5. CASE was /\ ~is
      <4>1. ReplaceAdHoc({"rule"}, {}) BY <2>1, <3>5 DEF EndRuleReload
      <4>2. "rule" \notin routes' BY <1>1, <4>1, Replaced
      <4>3. baseline' = None BY <3>2, <3>5 DEF NewBaseline
      <4> QED BY <3>2, <3>5, <4>2, <4>3 DEF BaselineInv
    <3>6. CASE ~was /\ ~is
      <4>1. routes' = routes BY <2>1, <3>6 DEF EndRuleReload, busVars
      <4>2. baseline' = None BY <3>2, <3>6 DEF NewBaseline
      <4> QED BY <3>2, <3>6, <4>1, <4>2 DEF BaselineInv
    <3> QED BY <3>1, <3>3, <3>4, <3>5, <3>6
  <2>2. CASE UNCHANGED <<busVars, ruleIndex, baseline, missed>>
    BY <1>2, <2>2 DEF busVars
  <2> QED
    BY <1>6, <2>1, <2>2
    DEF NotificationStep, StoreTriggered, CoolDownEnds, SaveRule, RuleReload,
        BeginRuleReload, ListRules
<1>7. CASE UNCHANGED vars BY <1>2, <1>7 DEF vars, busVars, notificationVars
<1> QED BY <1>3, <1>4, <1>5, <1>6, <1>7, StepCases

\* A push is an answer to a message, and to an edge from the baseline.
LEMMA PushOnEdge ==
  ASSUME IInv, [Next]_vars, pushes' # pushes
  PROVE  /\ ~ruleReloading /\ ruleIndex /\ ~lastTriggered
         /\ baseline # None /\ Matches(baseline, cache'["rule"])
<1>1. cache \in [BusKeys -> Values \cup {None}] /\ BaselineInv BY DEF IInv, TypeInv, ConditionTypes, RuleTypes
<1>2. Receive
  BY StepCases
  DEF vars, notificationVars, NotificationStep, StoreTriggered, CoolDownEnds, SaveRule,
      RuleReload, BeginRuleReload, ListRules, EndRuleReload
<1>3. PICK v \in Values :
        /\ RuleOnValues(Changed(v), v)
        /\ cache'["rule"] = IF "rule" \in routes THEN v ELSE cache["rule"]
  BY <1>1, <1>2, ReceiveFrame
<1> QED BY <1>1, <1>3 DEF RuleOnValues, Edge, BaselineInv
-----------------------------------------------------------------------------
(* The cool-down, and what the rules hold *)

LEMMA RuleKept ==
  ASSUME IInv, [Next]_vars
  PROVE  RuleInv'
<1>1. /\ TypeInv /\ RuleInv /\ cache \in [BusKeys -> Values \cup {None}]
      /\ ruleSaver \in [RuleSavers -> [at : SaverState, enabled : BOOLEAN, last : BOOLEAN]]
      /\ rule \in [enabled : BOOLEAN, last : BOOLEAN]
  BY DEF IInv, TypeInv, ConditionTypes, RuleTypes
<1>2. ASSUME UNCHANGED notificationVars PROVE RuleInv'
  BY <1>1, <1>2 DEF notificationVars, RuleInv, NoRuleReload
<1>3. CASE Receive
  <2>1. PICK v \in Values : RuleOnValues(Changed(v), v) BY <1>1, <1>3, ReceiveFrame
  <2>2. /\ UNCHANGED <<rule, ruleIndex, ruleSaver, ruleReloading, ruleCalm>>
        /\ \/ UNCHANGED <<lastTriggered, coolDown, marking>>
           \/ ~ruleReloading /\ lastTriggered' /\ coolDown' /\ marking'
    BY <2>1 DEF RuleOnValues, Fire
  <2> QED BY <1>1, <2>2 DEF RuleInv, NoRuleReload
<1>4. CASE NotificationStep
  <2>1. CASE StoreTriggered
    <3>1. rule'.last = TRUE /\ rule'.enabled = rule.enabled BY <1>1, <2>1 DEF StoreTriggered
    <3> QED BY <1>1, <2>1, <3>1 DEF StoreTriggered, RuleInv, NoRuleReload
  <2>2. CASE CoolDownEnds
    <3>1. /\ rule'.last = FALSE /\ rule'.enabled = rule.enabled
          /\ \A s \in RuleSavers : /\ ruleSaver'[s].at = ruleSaver[s].at
                                   /\ ruleSaver'[s].enabled = ruleSaver[s].enabled
                                   /\ ruleSaver'[s].last = FALSE
      BY <1>1, <2>2 DEF CoolDownEnds
    <3>2. UNCHANGED <<ruleCalm, ruleReloading, ruleIndex>> /\ coolDown' = FALSE /\ marking' = FALSE
      BY <2>2 DEF CoolDownEnds
    <3> QED BY <1>1, <3>1, <3>2 DEF RuleInv, NoRuleReload
  <2>3. ASSUME NEW s \in RuleSavers, NEW enabled \in BOOLEAN, SaveRule(s, enabled)
        PROVE  RuleInv'
    <3> SUFFICES ASSUME ruleCalm' PROVE RuleInv'
      BY DEF RuleInv
    <3>1. ruleCalm /\ NoRuleReload BY <2>3 DEF SaveRule
    <3>2. /\ ruleSaver'[s].at = "saved"
          /\ \A t \in RuleSavers : t # s => ruleSaver'[t] = ruleSaver[t]
      BY <1>1, <2>3 DEF SaveRule
    <3>3. rule'.last = rule.last BY <1>1, <2>3 DEF SaveRule
    <3>4. UNCHANGED <<ruleIndex, lastTriggered, marking, ruleReloading, coolDown>>
      BY <2>3 DEF SaveRule
    <3> QED BY <1>1, <3>1, <3>2, <3>3, <3>4 DEF RuleInv, NoRuleReload
  <2>4. ASSUME NEW s \in RuleSavers, BeginRuleReload(s) PROVE RuleInv'
    <3> SUFFICES ASSUME ruleCalm' PROVE RuleInv'
      BY DEF RuleInv
    <3>1. ruleCalm /\ ~marking /\ ruleSaver[s].at = "saved" BY <2>4 DEF BeginRuleReload
    <3>2. /\ ruleSaver'[s].at = "list"
          /\ \A t \in RuleSavers : t # s => ruleSaver'[t] = ruleSaver[t]
      BY <1>1, <2>4 DEF BeginRuleReload
    <3>3. UNCHANGED <<rule, ruleIndex, lastTriggered, marking, coolDown>> /\ ruleReloading' = TRUE
      BY <2>4 DEF BeginRuleReload
    <3> QED BY <1>1, <3>1, <3>2, <3>3 DEF RuleInv, NoRuleReload
  <2>5. ASSUME NEW s \in RuleSavers, ListRules(s) PROVE RuleInv'
    <3>1. /\ ruleSaver[s].at = "list" /\ ruleSaver'[s].at = "listed"
          /\ ruleSaver'[s].enabled = rule.enabled /\ ruleSaver'[s].last = rule.last
          /\ \A t \in RuleSavers : t # s => ruleSaver'[t] = ruleSaver[t]
      BY <1>1, <2>5 DEF ListRules
    <3>2. UNCHANGED <<rule, ruleIndex, lastTriggered, marking, coolDown, ruleReloading, ruleCalm>>
      BY <2>5 DEF ListRules
    <3> QED BY <1>1, <3>1, <3>2 DEF RuleInv, NoRuleReload
  <2>6. ASSUME NEW s \in RuleSavers, EndRuleReload(s) PROVE RuleInv'
    <3>1. /\ ruleSaver[s].at = "listed" /\ ruleSaver'[s].at = "idle"
          /\ \A t \in RuleSavers : t # s => ruleSaver'[t] = ruleSaver[t]
      BY <1>1, <2>6 DEF EndRuleReload, IdleSaver
    <3>2. /\ UNCHANGED <<rule, marking, coolDown, ruleCalm>>
          /\ ruleIndex' = ruleSaver[s].enabled
          /\ lastTriggered' = (ruleSaver[s].enabled /\ ruleSaver[s].last)
      BY <2>6 DEF EndRuleReload
    <3> QED BY <1>1, <3>1, <3>2 DEF RuleInv, NoRuleReload
  <2> QED BY <1>4, <2>1, <2>2, <2>3, <2>4, <2>5, <2>6 DEF NotificationStep, RuleReload
<1>5. CASE UNCHANGED vars BY <1>2, <1>5 DEF vars
<1> QED BY <1>2, <1>3, <1>4, <1>5, StepCases
-----------------------------------------------------------------------------
(* What the condition holds *)

LEMMA ConditionKept ==
  ASSUME IInv, [Next]_vars
  PROVE  ConditionInv'
<1>1. /\ TypeInv /\ ConditionInv /\ cache \in [BusKeys -> Values \cup {None}]
      /\ saver \in [Savers -> [at : SaverState, snap : BOOLEAN]]
      /\ trigger \in BOOLEAN /\ index \in BOOLEAN /\ saved \in BOOLEAN
  BY DEF IInv, TypeInv, ConditionTypes, RuleTypes
<1>2. ASSUME routes' \cap Own = routes \cap Own,
             UNCHANGED <<saved, trigger, index, loops, saver, calm>>
      PROVE  ConditionInv'
  BY <1>1, <1>2 DEF ConditionInv, NoReload
<1>3. CASE Receive
  <2>1. PICK v \in Values : OnValues(Changed(v)) /\ routes' = routes
    BY <1>1, <1>3, ReceiveFrame
  <2> QED BY <1>2, <2>1 DEF OnValues
<1>4. CASE BusStep /\ UNCHANGED <<runnerVars, conditionVars, notificationVars>>
  BY <1>1, <1>2, <1>4, BusFrame DEF conditionVars
<1>5. CASE NotificationStep /\ UNCHANGED <<runnerVars, conditionVars>>
  BY <1>1, <1>2, <1>5, RuleFrame DEF conditionVars
<1>6. CASE ConditionStep
  <2>1. ASSUME NEW s \in Savers, NEW has \in BOOLEAN, SaveEdit(s, has) PROVE ConditionInv'
    <3>1. /\ saver[s].at = "idle" /\ saver'[s].at = "saved" /\ calm' = NoReload
          /\ \A t \in Savers : t # s => saver'[t] = saver[t]
      BY <1>1, <2>1 DEF SaveEdit
    <3> QED BY <3>1 DEF ConditionInv, NoReload
  <2>2. ASSUME NEW s \in Savers, BeginReload(s) PROVE ConditionInv'
    <3>1. /\ saver[s].at = "saved" /\ saver'[s].at = "list"
          /\ \A t \in Savers : t # s => saver'[t] = saver[t]
          /\ index' = FALSE /\ UNCHANGED <<saved, calm>>
      BY <1>1, <2>2 DEF BeginReload
    <3>2. routes' \cap Own = {} BY <1>1, <2>2, Replaced DEF BeginReload
    <3> QED BY <1>1, <3>1, <3>2 DEF ConditionInv, NoReload
  <2>3. ASSUME NEW s \in Savers, ListConditions(s) PROVE ConditionInv'
    <3>1. /\ saver[s].at = "list" /\ saver'[s].at = "listed" /\ saver'[s].snap = saved
          /\ \A t \in Savers : t # s => saver'[t] = saver[t]
          /\ routes' = routes /\ UNCHANGED <<saved, index, calm>>
      BY <1>1, <2>3 DEF ListConditions, busVars
    <3> QED BY <1>1, <3>1 DEF ConditionInv, NoReload
  <2>4. ASSUME NEW s \in Savers, EndReload(s) PROVE ConditionInv'
    <3> DEFINE has == saver[s].snap
    <3>1. /\ saver[s].at = "listed" /\ saver'[s].at = "idle"
          /\ \A t \in Savers : t # s => saver'[t] = saver[t]
          /\ trigger' = has /\ index' = (index \/ has) /\ loops' = Checked
          /\ UNCHANGED <<saved, calm>> /\ has \in BOOLEAN
      BY <1>1, <2>4 DEF EndReload
    <3>2. routes' = routes \cup Wanted(has) BY <1>1, <2>4, Replaced DEF EndReload
    <3>3. Wanted(has) \subseteq Own BY DEF Wanted, Own
    <3> SUFFICES ASSUME calm' PROVE ConditionInv'
      BY DEF ConditionInv
    <3>4. ~index /\ routes \cap Own = {} /\ has = saved BY <1>1, <3>1 DEF ConditionInv
    <3>5. routes' \cap Own = Wanted(saved) BY <3>2, <3>3, <3>4
    <3>6. trigger' = saved' /\ index' = saved' BY <1>1, <3>1, <3>4
    <3> QED BY <1>1, <3>1, <3>5, <3>6 DEF ConditionInv, NoReload
  <2>5. CASE UNCHANGED <<busVars, saved, trigger, index, loops, saver, calm>>
    BY <1>2, <2>5 DEF busVars
  <2> QED
    BY <1>6, <2>1, <2>2, <2>3, <2>4, <2>5
    DEF ConditionStep, Arm, Flush, BranchResumes, Marked, WindowEnds, CheckLoop,
        LoopResumes, Reload, conditionVars
<1>7. CASE UNCHANGED vars BY <1>2, <1>7 DEF vars, busVars, conditionVars
<1> QED BY <1>3, <1>4, <1>5, <1>6, <1>7, StepCases
-----------------------------------------------------------------------------
(* The lists of the condition *)

Runs == [key : Keys, list : Lists, token : Nat, left : Int]

\* A run that goes on is in a pause again, or over.
LEMMA ProceedsAlone ==
  ASSUME NEW run \in Runs, NEW tokens, Proceed(run, {}, tokens)
  PROVE  runs' = {} \/ \E r \in Runs : r.key = run.key /\ runs' = {r}
<1>1. CASE runs' = {} BY <1>1
<1>2. CASE runs' = {[run EXCEPT !.left = @ - 1]}
  <2>1. [run EXCEPT !.left = @ - 1] \in Runs /\ [run EXCEPT !.left = @ - 1].key = run.key
    BY DEF Runs
  <2> QED BY <1>2, <2>1
<1> QED BY <1>1, <1>2 DEF Proceed

\* After it the condition is in the branch exactly if the run goes on.
LEMMA BranchAgrees ==
  ASSUME NEW k, NEW early, BranchRuns(k, early),
         runs' = {} \/ \E r \in Runs : r.key = k /\ runs' = {r}
  PROVE  OneBranch' /\ runs' \subseteq Runs
<1>1. CASE runs' = {} BY <1>1 DEF BranchRuns, OneBranch
<1>2. ASSUME NEW r \in Runs, r.key = k, runs' = {r} PROVE OneBranch' /\ runs' \subseteq Runs
  BY <1>2 DEF BranchRuns, OneBranch
<1> QED BY <1>1, <1>2

LEMMA BranchKept ==
  ASSUME IInv, [Next]_vars
  PROVE  OneBranch' /\ runs' \subseteq Runs /\ runTokens' \in [Keys -> Nat]
<1>1. OneBranch /\ runs \subseteq Runs /\ runTokens \in [Keys -> Nat]
  BY DEF IInv, TypeInv, Runs
<1>2. ASSUME UNCHANGED <<runs, evaluation, runTokens>>
      PROVE  OneBranch' /\ runs' \subseteq Runs /\ runTokens' \in [Keys -> Nat]
  BY <1>1, <1>2 DEF OneBranch
<1>3. CASE Receive BY <1>2, <1>3 DEF Receive, OnValues, runnerVars
<1>4. CASE ConditionStep
  <2>1. CASE Flush
    <3>1. CASE UNCHANGED <<runs, evaluation, runTokens>> BY <1>2, <3>1
    <3>2. CASE evaluation = "idle" /\ Evaluate
      <4> DEFINE k == IF cache["when"] \in Truthy THEN "then" ELSE "else"
      <4>1. runs = {} BY <1>1, <3>2 DEF OneBranch
      <4>2. CASE cache["when"] = None
        BY <1>1, <3>2, <4>1, <4>2 DEF Evaluate, runnerVars, OneBranch
      <4>3. CASE cache["when"] # None
        <5>1. k \in Keys /\ k \in Lists BY DEF Branches
        <5>2. Start(k, k, Segments) /\ BranchRuns(k, Segments > 1)
          BY <3>2, <4>3 DEF Evaluate
        <5> HIDE DEF k
        <5> DEFINE run == [key |-> k, list |-> k, token |-> NextToken(k), left |-> Segments]
        <5>3. NextToken(k) \in Nat BY <1>1, <5>1 DEF NextToken
        <5>4. run \in Runs /\ run.key = k /\ run.token = NextToken(k)
          BY <5>1, <5>3, RunnerAssumption DEF Runs, RunnerAssumption
        <5>5. /\ runTokens' = [runTokens EXCEPT ![k] = NextToken(k)]
              /\ \E tokens : Proceed(run, {}, tokens)
          BY <4>1, <5>2, RunnerAssumption DEF Start, RunnerAssumption
        <5>6. runs' = {} \/ \E r \in Runs : r.key = k /\ runs' = {r}
          <6> HIDE DEF run
          <6> QED BY <5>4, <5>5, ProceedsAlone
        <5> QED BY <1>1, <5>2, <5>3, <5>5, <5>6, BranchAgrees
      <4> QED BY <4>2, <4>3
    <3> QED BY <2>1, <3>1, <3>2 DEF Flush, runnerVars
  <2>2. CASE BranchResumes
    <3>1. PICK r \in runs : Resume /\ BranchRuns(r.key, r.left > 1)
      BY <2>2 DEF BranchResumes
    <3>2. runs = {r} /\ r \in Runs BY <1>1 DEF OneBranch
    <3>3. runTokens' = runTokens /\ (runs' = {} \/ Proceed(r, {}, runTokens))
      BY <3>1, <3>2 DEF Resume
    <3>4. runs' = {} \/ \E q \in Runs : q.key = r.key /\ runs' = {q}
      BY <3>2, <3>3, ProceedsAlone
    <3> QED BY <1>1, <3>1, <3>3, <3>4, BranchAgrees
  <2>3. CASE Marked
    <3>1. runs' = runs /\ runTokens' = runTokens /\ evaluation = "mark" /\ evaluation' = "idle"
      BY <2>3 DEF Marked, runnerVars
    <3> QED BY <1>1, <3>1 DEF OneBranch
  <2>4. CASE UNCHANGED <<runs, evaluation, runTokens>> BY <1>2, <2>4
  <2> QED
    BY <1>4, <2>1, <2>2, <2>3, <2>4
    DEF ConditionStep, Arm, WindowEnds, CheckLoop, RunLoopOnce, LoopResumes, ResumeLoop, Pass,
        SaveEdit, Reload, BeginReload, ListConditions, EndReload, runnerVars, conditionVars
<1> QED BY <1>2, <1>3, <1>4, StepCases DEF vars, runnerVars, conditionVars
-----------------------------------------------------------------------------
(* The inductive invariant *)

LEMMA TypeKept ==
  ASSUME IInv, [Next]_vars
  PROVE  TypeInv'
<1>1. /\ cache \in [BusKeys -> Values \cup {None}]
      /\ saver \in [Savers -> [at : SaverState, snap : BOOLEAN]]
      /\ ruleSaver \in [RuleSavers -> [at : SaverState, enabled : BOOLEAN, last : BOOLEAN]]
      /\ rule \in [enabled : BOOLEAN, last : BOOLEAN]
      /\ ruleIndex \in BOOLEAN /\ trigger \in BOOLEAN /\ index \in BOOLEAN /\ saved \in BOOLEAN
  BY DEF IInv, TypeInv, ConditionTypes, RuleTypes
<1>2. cache' \in [BusKeys -> Values \cup {None}]
  BY <1>1, StepCases, ReceiveFrame, BusFrame, ConditionFrame, RuleFrame DEF vars, busVars
<1>3. ConditionTypes'
  <2> USE DEF ConditionTypes
  <2>1. CASE UNCHANGED <<saver, trigger, index, saved>> BY <1>1, <2>1
  <2>2. ASSUME NEW s \in Savers, NEW has \in BOOLEAN,
               SaveEdit(s, has) \/ BeginReload(s) \/ ListConditions(s) \/ EndReload(s)
        PROVE  ConditionTypes'
    <3>1. \E q \in [at : SaverState, snap : BOOLEAN] : saver' = [saver EXCEPT ![s] = q]
      <4>1. saver[s] \in [at : SaverState, snap : BOOLEAN] BY <1>1
      <4> DEFINE q(at) == [saver[s] EXCEPT !.at = at]
      <4>2. CASE SaveEdit(s, has)
        <5>1. q("saved") \in [at : SaverState, snap : BOOLEAN] BY <4>1 DEF SaverState
        <5>2. saver' = [saver EXCEPT ![s] = q("saved")] BY <1>1, <4>2 DEF SaveEdit
        <5> QED BY <5>1, <5>2
      <4>3. CASE BeginReload(s)
        <5>1. q("list") \in [at : SaverState, snap : BOOLEAN] BY <4>1 DEF SaverState
        <5>2. saver' = [saver EXCEPT ![s] = q("list")] BY <1>1, <4>3 DEF BeginReload
        <5> QED BY <5>1, <5>2
      <4>4. CASE ListConditions(s) BY <1>1, <4>4 DEF ListConditions, SaverState
      <4>5. CASE EndReload(s) BY <1>1, <4>5 DEF EndReload, SaverState
      <4> QED BY <2>2, <4>2, <4>3, <4>4, <4>5
    <3>2. trigger' \in BOOLEAN /\ index' \in BOOLEAN /\ saved' \in BOOLEAN
      BY <1>1, <2>2 DEF SaveEdit, BeginReload, ListConditions, EndReload
    <3> QED BY <1>1, <3>1, <3>2
  <2> QED
    BY <2>1, <2>2, StepCases
    DEF vars, conditionVars, Receive, OnValues, ConditionStep, Arm, Flush, BranchResumes,
        Marked, WindowEnds, CheckLoop, LoopResumes, Reload
<1>4. RuleTypes'
  <2> USE DEF RuleTypes
  <2> DEFINE Saver == [at : SaverState, enabled : BOOLEAN, last : BOOLEAN]
  <2>1. CASE UNCHANGED <<ruleSaver, rule, ruleIndex>> BY <1>1, <2>1
  <2>2. CASE StoreTriggered BY <1>1, <2>2 DEF StoreTriggered
  <2>3. CASE CoolDownEnds
    <3>1. ASSUME NEW s \in RuleSavers PROVE [ruleSaver[s] EXCEPT !.last = FALSE] \in Saver
      <4>1. ruleSaver[s] \in Saver BY <1>1
      <4> QED BY <4>1
    <3> QED BY <1>1, <2>3, <3>1 DEF CoolDownEnds
  <2>4. ASSUME NEW s \in RuleSavers, NEW enabled \in BOOLEAN, SaveRule(s, enabled)
        PROVE  RuleTypes'
    <3>1. [ruleSaver[s] EXCEPT !.at = "saved"] \in Saver BY <1>1 DEF SaverState
    <3>2. ruleSaver' = [ruleSaver EXCEPT ![s] = [ruleSaver[s] EXCEPT !.at = "saved"]]
      BY <1>1, <2>4 DEF SaveRule
    <3>3. rule' = [rule EXCEPT !.enabled = enabled] /\ ruleIndex' = ruleIndex
      BY <2>4 DEF SaveRule
    <3> QED BY <1>1, <3>1, <3>2, <3>3
  <2>5. ASSUME NEW s \in RuleSavers, BeginRuleReload(s) PROVE RuleTypes'
    <3>1. [ruleSaver[s] EXCEPT !.at = "list"] \in Saver BY <1>1 DEF SaverState
    <3>2. ruleSaver' = [ruleSaver EXCEPT ![s] = [ruleSaver[s] EXCEPT !.at = "list"]]
      BY <1>1, <2>5 DEF BeginRuleReload
    <3> QED BY <1>1, <2>5, <3>1, <3>2 DEF BeginRuleReload
  <2>6. ASSUME NEW s \in RuleSavers, ListRules(s) PROVE RuleTypes'
    <3>1. [at |-> "listed", enabled |-> rule.enabled, last |-> rule.last] \in Saver
      BY <1>1 DEF SaverState
    <3> QED BY <1>1, <2>6, <3>1 DEF ListRules
  <2>7. ASSUME NEW s \in RuleSavers, EndRuleReload(s) PROVE RuleTypes'
    <3>1. IdleSaver \in Saver BY DEF IdleSaver, SaverState
    <3>2. ruleSaver[s].enabled \in BOOLEAN BY <1>1
    <3> QED BY <1>1, <2>7, <3>1, <3>2 DEF EndRuleReload
  <2> QED
    BY <2>1, <2>2, <2>3, <2>4, <2>5, <2>6, <2>7, StepCases
    DEF vars, notificationVars, Receive, RuleOnValues, NotificationStep, RuleReload
<1> QED BY <1>2, <1>3, <1>4, BranchKept DEF TypeInv, Runs

LEMMA InitSound ==
  ASSUME Init
  PROVE  IInv
<1> USE DEF Init, BusInit, ConditionsInit, RunnerInit, NotificationsInit
<1>1. routes \cap Own = Wanted(Triggered)
  BY KeysDiffer DEF Wanted, Own
<1>2. "rule" \in routes <=> Enabled BY KeysDiffer DEF Wanted, Own
<1>3. TypeInv BY DEF TypeInv, ConditionTypes, RuleTypes, SaverState, IdleSaver
<1>4. BaselineInv BY <1>2 DEF BaselineInv
<1>5. RuleInv BY DEF RuleInv, IdleSaver, NoRuleReload
<1>6. ConditionInv BY <1>1 DEF ConditionInv, NoReload
<1>7. OneBranch BY DEF OneBranch
<1> QED BY <1>3, <1>4, <1>5, <1>6, <1>7 DEF IInv

LEMMA Inductive == Spec => []IInv
<1>1. IInv /\ [Next]_vars => IInv'
  BY TypeKept, BaselineKept, RuleKept, ConditionKept, BranchKept DEF IInv
<1> QED BY InitSound, <1>1, PTL DEF Spec
-----------------------------------------------------------------------------
(* What the engines promise *)

\* A condition plays one list at a time, whatever is edited and triggered
\* meanwhile (conditions/engine.js, `running`; PROJECT_CONTEXT.md:709).
THEOREM OneListAtATime == Spec => []OneBranch
<1>1. IInv => OneBranch BY DEF IInv
<1> QED BY <1>1, Inductive, PTL

\* When no edit is being saved and none met another one, the engines hold what
\* the database holds (reload() of both engines).
THEOREM EnginesAgree == Spec => []AgreeAtRest
<1>1. IInv => AgreeAtRest
  <2> SUFFICES ASSUME IInv PROVE AgreeAtRest
    OBVIOUS
  <2>1. ConditionInv /\ RuleInv /\ BaselineInv BY DEF IInv
  <2> QED BY <2>1 DEF AgreeAtRest, ConditionInv, RuleInv, BaselineInv
<1> QED BY <1>1, Inductive, PTL

\* A push answers an edge between two values the bus has delivered, the last
\* one at most missed by a reload (notifications/engine.js, evaluateKey).
THEOREM PushesAnswerEdges == Spec => NoFalseAlarm
<1>1. IInv /\ [Next]_vars =>
        [pushes' # pushes => /\ cache["rule"] # None
                             /\ missed \/ Matches(cache["rule"], cache'["rule"])]_vars
  <2> SUFFICES ASSUME IInv, [Next]_vars, pushes' # pushes
               PROVE  /\ cache["rule"] # None
                      /\ missed \/ Matches(cache["rule"], cache'["rule"])
    OBVIOUS
  <2>1. baseline # None /\ Matches(baseline, cache'["rule"]) BY PushOnEdge
  <2>2. BaselineInv BY DEF IInv
  <2> QED BY <2>1, <2>2 DEF BaselineInv
<1> QED BY <1>1, Inductive, PTL DEF Spec, NoFalseAlarm

\* A rule pushes outside of its cool-down, over the edits of rules, unless one
\* meets another one or markTriggered() (notifications/engine.js, fire).
THEOREM PushesRespectCoolDown == Spec => CoolDownHolds
<1>1. IInv /\ [Next]_vars => [pushes' # pushes => ~coolDown \/ ~ruleCalm]_vars
  <2> SUFFICES ASSUME IInv, [Next]_vars, pushes' # pushes
               PROVE  ~coolDown \/ ~ruleCalm
    OBVIOUS
  <2>1. ruleIndex /\ ~lastTriggered BY PushOnEdge
  <2>2. RuleInv BY DEF IInv
  <2> QED BY <2>1, <2>2 DEF RuleInv
<1> QED BY <1>1, Inductive, PTL DEF Spec, CoolDownHolds
=============================================================================
