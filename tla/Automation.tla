----------------------------- MODULE Automation -----------------------------
(***************************************************************************)
(* A condition and a notification rule on one topic: the two engines share *)
(* the connection, the topic's place in subscribedTopics and the event of  *)
(* the bus, whose listeners run one after the other inside ingest().       *)
(***************************************************************************)
EXTENDS Conditions, Notifications

vars == <<busVars, runnerVars, conditionVars, notificationVars>>

Init ==
  /\ BusInit(Wanted(Triggered) \cup (IF Enabled THEN {"rule"} ELSE {}))
  /\ ConditionsInit
  /\ NotificationsInit

(* A message arrives and the bus tells both engines.                       *)
Receive ==
  \E v \in Values :
    /\ Deliver(v)
    /\ OnValues(Changed(v))
    /\ RuleOnValues(Changed(v), v)

Bus == BusStep /\ UNCHANGED <<runnerVars, conditionVars, notificationVars>>
Condition == ConditionStep /\ UNCHANGED notificationVars
Notification == NotificationStep /\ UNCHANGED <<runnerVars, conditionVars>>

Next ==
  \/ Receive
  \/ Bus
  \/ Condition
  \/ Notification

Spec == Init /\ [][Next]_vars

Others == <<runnerVars, conditionVars, notificationVars>>

(* Messages arrive on a connection that is made again and again, the       *)
(* database answers, timers fire.  An execution that is not asked for, an  *)
(* edit and a change of the device may never come.                         *)
Fairness ==
  /\ WF_vars(Receive)
  /\ WF_vars(Connect /\ UNCHANGED Others)
  /\ WF_vars(SubAck /\ UNCHANGED Others)
  /\ WF_vars(BrokerSubscribes /\ UNCHANGED Others)
  /\ WF_vars(BrokerAnswers /\ UNCHANGED Others)
  /\ WF_vars(Flush /\ UNCHANGED notificationVars)
  /\ WF_vars(BranchResumes /\ UNCHANGED notificationVars)
  /\ WF_vars(Marked /\ UNCHANGED notificationVars)
  /\ WF_vars(LoopResumes /\ UNCHANGED notificationVars)
  /\ \A l \in Branches : WF_vars(CheckLoop(l) /\ UNCHANGED notificationVars)
  /\ \A s \in Savers : WF_vars(Reload(s) /\ UNCHANGED notificationVars)
  /\ \A s \in RuleSavers : WF_vars(RuleReload(s) /\ UNCHANGED <<runnerVars, conditionVars>>)

FairSpec == Spec /\ Fairness

-----------------------------------------------------------------------------
(* Types and ranges.                                                       *)
TypeOK == BusTypeOK /\ ConditionsTypeOK /\ NotificationsTypeOK

(* When no edit is being saved and none met another one, what the engines  *)
(* have subscribed and entered is what the database holds: no trigger is   *)
(* lost and none that was deleted fires (engine.js, reload()).             *)
AgreeAtRest ==
  /\ (calm /\ NoReload) =>
        /\ trigger = saved /\ index = saved
        /\ routes \cap Own = Wanted(saved)
        /\ loops = Checked
  /\ (ruleCalm /\ NoRuleReload) =>
        /\ ruleIndex = rule.enabled
        /\ "rule" \in routes <=> rule.enabled

(* PROJECT_CONTEXT.md:709: while a list is played the condition does not   *)
(* run again, whatever is edited meanwhile: at most one list is being      *)
(* played, and exactly while the condition is locked for it.               *)
OneBranch ==
  /\ \A r, s \in runs : r = s
  /\ evaluation = "branch" <=> runs # {}

(* triggers.js:5-13: a push answers an edge.  The bus has delivered a      *)
(* known value without, and now one with, the property of the rule; after  *)
(* a reload that missed a value the edge may be that one, answered late.   *)
(* No restart and no reconnect looks like an edge.                         *)
NoFalseAlarm ==
  [][pushes' # pushes =>
       /\ cache["rule"] # None
       /\ missed \/ Matches(cache["rule"], cache'["rule"])]_vars

(* The cool-down of a rule holds over the edits of rules, unless an edit   *)
(* meets another one, or markTriggered() on its way to the database.       *)
CoolDownHolds == [][pushes' # pushes => ~coolDown \/ ~ruleCalm]_vars

(* MQTT.md:421: every consumer ends up with the value of the broker, over  *)
(* reloads, lost connections and other consumers of the same topic.        *)
ValuesArrive == <>[](connected /\ ValuesAgree)

(* The lists do not take turns (engine.js:38-42): with a checked loop in   *)
(* both, the device ends up in the state of the branch played last,        *)
(* whatever loop was still being played and whatever write was lost.       *)
SettlesOnBranch ==
  <>[](evaluation = "idle" /\ lastBranch # "none" => target = lastBranch)
=============================================================================
