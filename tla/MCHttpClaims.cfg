SPECIFICATION Spec
CONSTANTS
  Inflight = 2
  S3 = FALSE
  Kinds = {"get", "odd"}
  Later = {"head"}
  Joins = {"open"}
  Faults = {"cut"}
  Depth = 1
  MaxExchanges = 3
  MaxFaults = 1
  MaxCall = 4
INVARIANTS ResponsesPaired RefusedDropped HeadBodyless
CHECK_DEADLOCK FALSE
