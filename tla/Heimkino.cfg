\* A room with a checked loop in both lists: two requests at a time, an edit,
\* a restart, a write that fails.
SPECIFICATION FairSpec
CONSTANTS
  Keys = {"room"}
  Lists = {"on", "off"}
  Segments = 2
  Passes = 2
  MaxFaults = 1
  Requests = {w1, w2}
  Checked = {"on", "off"}
  MaxSwitches = 2
  MaxEdits = 1
  MaxRestarts = 1
INVARIANTS BusyWhileRunning AgreeAtRest
PROPERTIES NewestSequenceWrites Settles
CHECK_DEADLOCK FALSE
