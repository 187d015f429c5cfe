SPECIFICATION FairSpec
CONSTANTS
  Configured = TRUE
  MaxAuthFailures = 2
  BackoffSteps = 1
  MaxProcessed = 4
  NumPushes = 2
  Removals = {r1}
  MaxGen = 4
  MaxSpread = 5
INVARIANTS TypeOK Supervised OneConnection NoLostPromise
PROPERTIES ServesSessions StoppedStaysDown KeepsTrying
CHECK_DEADLOCK FALSE
