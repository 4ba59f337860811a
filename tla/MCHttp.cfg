SPECIFICATION Spec
CONSTANTS
  Inflight = 2
  S3 = TRUE
  Kinds = {"get", "head", "put", "post", "old", "gzip", "same", "gone", "nohead", "tunnel", "upgrade", "bad", "odd", "dav", "h2"}
  Later = {"gone", "head"}
  Joins = {"open", "synthetic", "tls"}
  Faults = {"cut", "lost", "oom", "sendfile"}
  Depth = 3
  MaxExchanges = 3
  MaxFaults = 1
  MaxCall = 4
INVARIANTS PairTrue BytesTrue Reported ErrTrue
CHECK_DEADLOCK FALSE
