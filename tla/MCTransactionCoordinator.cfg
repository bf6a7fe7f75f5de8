CONSTANTS
    Burrows <- ThreeBurrows
    TwoPhaseCommit = TRUE
    Faults = {"transport", "disconnect", "crash"}
    Client = {"chain", "extended", "pin"}
SPECIFICATION FairSpec
INVARIANTS
    NeverMixed
    CommitAnswerIsTrue
    NoLeftoverBlock
PROPERTIES
    ImplementsAtomicCommit
    AbandonedSessionEnds
    CommitReturns
