SPECIFICATION Spec
SYMMETRY AnyTexts
CONSTANTS
    Names = {"", "s"}
    Unnamed = ""
    Texts = {x, y}
    NoText = NoText
    MaxInflight = 2
    PrepCache = 1
    Kinds = {"Q", "P", "B", "C"}
    Replies = {"s", "txn"}
    Faults <- NoFault
    Joins = {"open"}
    Habits = {"sync ahead", "bare bind", "re-execute", "copy amid batch", "late request", "cut name"}
    Ooms = {FALSE, TRUE}
    MaxReq = 3
    MaxMsgs = 3
    MaxFaults = 0
INVARIANTS
    RefsLive
    TextTrue
    TxnSpanTrue
CHECK_DEADLOCK FALSE
