SPECIFICATION Spec
CONSTANTS
    c1 = c1
    c2 = c2
    c3 = c3
    pg = pg
    my = my
    NULL = NULL
    Cookie <- MCCookie
    Dir = {"SEND"}
    Proto <- MCProto
    ProtoDflt = pg
    PortProto <- MCPortOne
    MaxConns = 2
    IdleTimeout = 1
    Skew = 1
    SeqMod = 1
    CapHeaders = FALSE
    CapLossy = TRUE
VIEW View
INVARIANTS
    LruMatchesHash
    TlsGauge
    ParserStateOwned
    CapGuardBacked
PROPERTIES
    RemovalJustified
CHECK_DEADLOCK FALSE
