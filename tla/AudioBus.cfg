\* A plugin that listens and its full queue; two plugins that speak.
SPECIFICATION Spec
CONSTANTS
  Connections = {"k1", "k2"}
  Sessions = {"s1", "s2", "s3"}
  Clients = {"c1", "c2"}
  None = None
  QueueMax = 1
  LifecycleMax = 1
  MaxSeq = 3
  Limits <- SomeLimits
INVARIANTS TypeOK OnlyTailSilent EventOrder OutputAgrees
CHECK_DEADLOCK FALSE
