SPECIFICATION Spec
CONSTANTS
  Inflight = 2
  MaxEarly = 1
  MaxDepth = 1
  Scripts <- MCScriptsClaims
  Faults = {}
  Depth = 2
  MaxPushes = 1
  MaxFaults = 0
  MaxCall = 4
INVARIANTS DeliveriesCloseNothing FurtherCloseNothing AllAnswered DatabaseTrue
CHECK_DEADLOCK FALSE
