CONSTANTS
    b1 = b1
    b2 = b2
    b3 = b3
    p1 = p1
    p2 = p2
    Proxies = {p1, p2}
    Tables = {t1, t2}
    Sharded = {t1}
    Configured <- BothConfigured
    PrimaryBurrow = b1
    LegacyBurrows = {b1, b2}
    MaxDDL = 2
    MaxMoves = 1
    MaxFaults = 1
    Faults = {"nest", "crash"}
SPECIFICATION Spec
INVARIANTS
    PlacementAgreement
    ServesWhatItKnows
    LegacyPlacementSurvives
PROPERTY
    NothingOverwritten
