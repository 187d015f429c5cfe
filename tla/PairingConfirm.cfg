\* One session, and one answer that is lost.
SPECIFICATION Spec
CONSTANTS
  Retries = 2
  MaxSessions = 1
  MaxCalls = 2
  MaxQueue = 1
  MaxFaults = 1
  MaxStops = 0
INVARIANTS ProvisioningFollows
CHECK_DEADLOCK FALSE
