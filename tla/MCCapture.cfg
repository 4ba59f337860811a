SPECIFICATION CaptureSpec
CONSTANTS
    c1 = c1
    k1 = k1
    k2 = k2
    pg = pg
    NULL = NULL
    Cookie = {c1}
    Dir = {"SEND"}
    Proto = {pg}
    ProtoDflt = pg
    PortProto <- MCPortPg
    MaxConns = 1
    IdleTimeout = 0
    Skew = 0
    SeqMod = 8
    CapHeaders = FALSE
    CapLossy = TRUE
    Task = {k1, k2}
    TlsConn = {c1}
    RingCap = 1
    KernelEvicts = TRUE
    MaxRaw = 3
    MaxTls = 3
    MaxEpoch = 2
CONSTRAINTS FramingQuiet FewRecords FewEpochs
VIEW View
SYMMETRY TaskSymmetry
INVARIANTS
    LossReported
PROPERTIES
    HoleMeansLoss
CHECK_DEADLOCK FALSE
