SPECIFICATION Spec
CONSTANTS
    K = 2
    Fp <- MCFp
    Home <- MCHome
    DoorSlots = 2
    LabelLen = 8
    MaxDims = 1
    MaxProtos = 4
    MaxErrCodes = 1
    FirstRow = TRUE
    TimeUnit = 3
    HistMin <- MCHistMin
    HistMax = 8
    Classic <- MCClassic
    NULL = NULL
    Conn = {1, 2, 3, 4}
    Proto <- MCProto
    ProtoOf <- MCProtoOf
    SessSlot <- MCSessSlot
    Session <- MCSession
    Query <- MCQuery
    Traffic <- MCTraffic
INVARIANTS ScrapeTrue ViewsAgree
PROPERTIES TopQueriesKept OtherNeverShrinks
CHECK_DEADLOCK FALSE
