\* A condition with a checked loop in both lists: edits of its trigger, a
\* write that fails, the limit of executions.
SPECIFICATION FairSpec
CONSTANTS
  Limits <- BranchLimits
  Keys = {"then", "else"}
  Lists = {"then", "else"}
  Segments = 2
  Passes = 2
  MaxFaults = 1
  AdHoc = {"trigger", "when", "rule"}
  Values = {0, 1}
  None = None
  Radio = FALSE
  MaxWire = 1
  Savers = {s1}
  Triggered = TRUE
  Checked = {"then", "else"}
  Truthy = {1}
  MaxExecutions = 1
  RuleSavers = {}
  Enabled = FALSE
  TriggerType = "equals"
  TriggerValue = 1
INVARIANTS OneBranch
PROPERTY SettlesOnBranch
CHECK_DEADLOCK FALSE
