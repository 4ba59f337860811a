SPECIFICATION Spec
CONSTANTS
    Names = {""}
    Unnamed = ""
    Texts = {x}
    NoText = NoText
    MaxInflight = 2
    PrepCache = 1
    Kinds = {"Q", "F", "P", "B"}
    Replies = {"D", "I", "s", "G", "H", "W", "C!", "Z!"}
    Faults <- OneFault
    Joins = {"open", "synthetic"}
    Habits = {}
    Ooms = {FALSE}
    MaxReq = 3
    MaxMsgs = 4
    MaxFaults = 1
INVARIANTS
    RepliesMatched
    AbortedTrue
    Accounted
    Listening
CHECK_DEADLOCK FALSE
