SPECIFICATION Spec
CONSTANTS
    Texts = {"select", "rollback"}
    Rollback = "rollback"
    NoText = "-"
    Garbage = "?"
    Names = {"a", "b"}
    NoName = ""
    Stem <- MCStem
    StmtIds = {1, 2}
    PrepCache = 1
    Commands = {"QUERY", "PING"}
    CapSets <- ModernCaps
    Joins = {"open", "synthetic"}
    Logins = {"ssl", "switch", "refused"}
    Late = {"QUERY"}
    Hows = {"lost"}
    MaxExchanges = 3
    MaxFaults = 1
INVARIANTS NeverSpans TxnExact
CHECK_DEADLOCK FALSE
