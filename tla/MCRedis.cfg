SPECIFICATION Spec
CONSTANTS
  Inflight = 2
  MaxEarly = 1
  MaxDepth = 1
  Scripts <- MCScripts
  Faults = {"cut", "lost", "oom", "pause"}
  Depth = 2
  MaxPushes = 1
  MaxFaults = 1
  MaxCall = 4
INVARIANTS AllReported SizesTrue SessionTrue TxnsTrue
CHECK_DEADLOCK FALSE
