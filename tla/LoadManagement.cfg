\* The load shed, the operating level and their consumers.
SPECIFICATION FairSpec
CONSTANTS
  None = None
  NoCutoff = 0
  Phases = {"l1", "l2"}
  Providers = {"messschalt", "pool"}
  Priorities = {2, 3}
  Settle = 1
  Recover = 2
  MaxLevel = 3
  RetryBase = 1
  RetryMax = 2
  MaxAttempt = 2
  Hold = 1
  SampleTime = 1
  SamplePause = 1
  ActorType <- SomeActors
  Units <- SomeUnits
  Consumers <- SomeUnits
  PumpPhases <- SomePhases
  PumpPriority <- SomePriority
  Limits <- SomeLimits
INVARIANTS TypeOK
PROPERTIES Obeys ComesBack PausedRelease StepwiseShed
CHECK_DEADLOCK FALSE
