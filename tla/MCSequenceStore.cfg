CONSTANTS
    Callers = {c1, c2}
    MaxAttempts = 2
    MaxID = 3
    MaxOtherWrites = 1
    NoValue = NoValue
    NoRequest = NoRequest
SPECIFICATION FairSpec
INVARIANTS
    IInv
    NeverReturnedTwice
    AboveCallStart
    ContentionIsReal
PROPERTIES
    ImplementsGlobalSequence
    CallsEnd
