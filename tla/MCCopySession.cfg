CONSTANTS
    Requests <- AllRequests
    Faults = {"refuse", "reject", "transport"}
    MaxRow = 7
SPECIFICATION Spec
CHECK_DEADLOCK FALSE
INVARIANTS
    RowsReachTheirOwner
    UnusableCommitsNothing
    RoutingKeepsUp
    DrainedWhenReady
    ErrorAfterCommitIsTheBurrows
    ErrorFailsTransaction
    OneOutputStream
