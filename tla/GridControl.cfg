\* The grid with a SoC window and the load as triggers.
SPECIFICATION FairSpec
CONSTANTS
  Enabled = {"soc", "loads"}
  None = None
  Never = Never
  OffDelay = 2
  Detection = 1
  Republish = 1
  MaxStep = 1
  WarnAfter = 2
  MinAttempts = 2
  MaxGap = 1
  Limits <- SomeLimits
INVARIANTS NoCycling
PROPERTIES EmergencyHolds GridFollows
CHECK_DEADLOCK FALSE
