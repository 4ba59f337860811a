SPECIFICATION Spec
CONSTANTS
  Inflight = 2
  MaxEarly = 1
  MaxDepth = 1
  Scripts <- MCScriptsIdle
  Faults = {"large", "pause"}
  Depth = 1
  MaxPushes = 0
  MaxFaults = 1
  MaxCall = 3
INVARIANT RepliesPaired
CHECK_DEADLOCK FALSE
