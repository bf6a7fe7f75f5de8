SPECIFICATION FairSpec
CONSTANTS
    Burrows <- MCBurrows
    Statements <- MCStatements
    Route <- MCRoute
    Control = {"rollback"}
    Portals = {""}
    Client = {}
    Faults = {"error", "transport"}
    MaxMessages = 4
    MaxCycles = 1
INVARIANTS
    AnswersInOrder
    RanAsAsked
    TunnelsInStep
PROPERTY CyclesEnd
\* The client may stop after a cycle.
CHECK_DEADLOCK FALSE
