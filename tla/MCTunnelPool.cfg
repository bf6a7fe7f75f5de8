SPECIFICATION Spec
CONSTANTS
    plain = plain
    dressed = dressed
    Sessions = {plain, dressed}
    Conns = {c1, c2}
    Statements = {q1}
    Startup <- StartupValues
    Uses <- CommandSets
    Client = {}
    Faults = {"error", "acquire", "reset", "disconnect"}
    Unknown = Unknown
    None = None
INVARIANTS PoolIsClean Transparency CacheSound
SYMMETRY Symmetry
