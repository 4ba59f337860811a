SPECIFICATION Spec
CONSTANTS
    Texts = {"select", "rollback"}
    Rollback = "rollback"
    NoText = "-"
    Garbage = "?"
    Names = {"a", "b"}
    NoName = ""
    Stem <- MCStem
    StmtIds = {1, 2}
    PrepCache = 1
    Commands = {"QUERY", "USE", "STMT_PREPARE", "STMT_EXECUTE", "STMT_FETCH", "STMT_CLOSE", "INIT_DB", "CHANGE_USER", "RESET_CONNECTION", "STATISTICS", "FIELD_LIST", "BINLOG_DUMP", "PING", "PROCESS_INFO", "unknown", "QUIT"}
    CapSets <- MCCapSets
    Joins = {"open", "synthetic"}
    Logins = {"ssl", "switch", "refused"}
    Late = {"STMT_EXECUTE", "PING"}
    Hows = {"cut", "in name", "in db", "blind", "lost", "oom"}
    MaxExchanges = 3
    MaxFaults = 1
INVARIANTS
    ObsTrue
    CleanReported
    LabelsTrue
    TxnTrue
CHECK_DEADLOCK FALSE
