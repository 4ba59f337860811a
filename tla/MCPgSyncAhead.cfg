SPECIFICATION Spec
CONSTANTS
    Names = {""}
    Unnamed = ""
    Texts = {x}
    NoText = NoText
    MaxInflight = 3
    PrepCache = 1
    Kinds = {"P", "B"}
    Replies = {}
    Faults <- NoFault
    Joins = {"open"}
    Habits = {"sync ahead"}
    Ooms = {FALSE}
    MaxReq = 3
    MaxMsgs = 6
    MaxFaults = 0
INVARIANTS
    RepliesMatched
CHECK_DEADLOCK FALSE
