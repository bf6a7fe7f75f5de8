CONSTANTS
    Names = {a, b, c}
    Points = {"p"}
    Batches <- AllBatches
    MaxDepth = 1
    MaxSize = 2
    Client = {}
SYMMETRY Symmetry
SPECIFICATION Spec
INVARIANTS
    TracksTemporaries
    OrderedWhenDurable
    RegistryIsCurrent
