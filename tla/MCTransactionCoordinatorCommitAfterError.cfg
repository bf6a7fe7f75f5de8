CONSTANTS
    Burrows <- TwoBurrows
    TwoPhaseCommit = TRUE
    Faults = {}
    Client = {"commitAfterError"}
SPECIFICATION Spec
INVARIANTS
    NeverMixed
