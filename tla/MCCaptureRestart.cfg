SPECIFICATION CaptureSpec
CONSTANTS
    c1 = c1
    k1 = k1
    k2 = k2
    pg = pg
    NULL = NULL
    Cookie = {c1}
    Dir = {"SEND"}
    Proto = {pg}
    ProtoDflt = pg
    PortProto <- MCPortPg
    MaxConns = 1
    IdleTimeout = 0
    Skew = 0
    SeqMod = 8
    CapHeaders = FALSE
    CapLossy = TRUE
    Task = {k1}
    TlsConn = {}
    RingCap = 1
    KernelEvicts = TRUE
    MaxRaw = 6
    MaxTls = 0
    MaxEpoch = 2
CONSTRAINT FramingQuiet
SYMMETRY TaskSymmetry
INVARIANT
    ConnLossReported
CHECK_DEADLOCK FALSE
