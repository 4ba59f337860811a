SPECIFICATION LiveSpec
CONSTANTS
    c1 = c1
    c2 = c2
    c3 = c3
    pg = pg
    my = my
    NULL = NULL
    Cookie <- MCCookie2
    Dir = {"SEND"}
    Proto = {pg}
    ProtoDflt = pg
    PortProto <- MCPortPg
    MaxConns = 2
    IdleTimeout = 2
    Skew = 1
    SeqMod = 1
    CapHeaders = TRUE
    CapLossy = FALSE
PROPERTIES
    SilentConnsCollected
CHECK_DEADLOCK FALSE
