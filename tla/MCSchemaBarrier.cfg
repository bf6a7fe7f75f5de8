CONSTANTS
    Sessions = {s1, s2}
    PoolSize = 3
    FleetOrdered = TRUE
    MaxDDL = 1
    None = None
SPECIFICATION FairSpec
INVARIANTS
    StaleRoutingIsFenced
    RoutesFresh
    FleetDDLIsSerial
PROPERTY
    MessagesAnswered
