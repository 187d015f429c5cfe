SPECIFICATION Spec
CONSTANTS
  Instances = {i1}
  None = None
  Topics = {}
  Calls = {1, 2}
  MaxEntries = 3
INVARIANT DisabledIsStopped
CHECK_DEADLOCK FALSE
