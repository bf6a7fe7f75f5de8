CONSTANTS
    Sessions = {s1, s2}
    PoolSize = 2
    FleetOrdered = TRUE
    MaxDDL = 1
    None = None
SPECIFICATION FairSpec
CHECK_DEADLOCK FALSE
PROPERTY
    DDLIsPublished
