SPECIFICATION TunnelFairSpec
CONSTANTS
  RequestIds = {1, 2}
  MaxBody = 2
  MaxParts = 2
  MaxContexts = 2
  MaxSockets = 2
  MaxSpread = 3
INVARIANTS MapIsLive
PROPERTIES KeepsPromise RequestsEnd
CHECK_DEADLOCK FALSE
