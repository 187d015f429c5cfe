\* A condition and a rule on an ordinary topic: edits, a lost connection, a
\* change of the state definitions.
SPECIFICATION FairSpec
CONSTANTS
  Limits <- BusLimits
  Keys = {"then", "else"}
  Lists = {"then", "else"}
  Segments = 1
  Passes = 1
  MaxFaults = 0
  AdHoc = {"trigger", "when", "rule"}
  Values = {0, 1, 2}
  None = None
  Radio = FALSE
  MaxWire = 2
  Savers = {s1, s2}
  Triggered = FALSE
  Checked = {}
  Truthy = {1}
  MaxExecutions = 1
  RuleSavers = {r1, r2}
  Enabled = TRUE
  TriggerType = "above"
  TriggerValue = 0
INVARIANTS AgreeAtRest
PROPERTIES NoFalseAlarm CoolDownHolds ValuesArrive
CHECK_DEADLOCK FALSE
