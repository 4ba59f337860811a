SPECIFICATION Spec
CONSTANTS
    NULL = NULL
    NFds = 6
    MaxConn = 1
    HttpTimeout = 1
    SpanBuf = 2
    OtlpTimeout = 1
    RetryAfter = {1}
    Obs <- MCObs
    Burst = 1
    Interval = 1
    MaxLag = 1
INVARIANTS NoStaleDispatch ExportsAccounted
PROPERTIES ClientsEnd WatermarkFlushed
CHECK_DEADLOCK FALSE
