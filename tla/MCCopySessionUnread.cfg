CONSTANTS
    Requests <- OutRequests
    Faults = {"reject"}
    MaxRow = 7
SPECIFICATION Spec
CHECK_DEADLOCK FALSE
INVARIANT
    NoAnswerLeftUnread
