\* Two sessions of one owner; the retries just outlast the lost answers.
SPECIFICATION FairSpec
CONSTANTS
  Retries = 2
  MaxSessions = 2
  MaxCalls = 3
  MaxQueue = 2
  MaxFaults = 2
  MaxStops = 1
INVARIANTS PairedIsStored
PROPERTIES OverStaysOver ProvisioningCompletes EndsInTime
CHECK_DEADLOCK FALSE
