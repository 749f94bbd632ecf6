SPECIFICATION Spec
CONSTANTS
    Keys = {k1, k2, k3}
    None = None
    Sizes = {1, 3}
    Capacity = 2
    TTLs = {0, 1}
    DefaultTTL = 0
    Setups <- SmallSetups
    DefaultSample = 2
    HistoryLen = 2
    PerMS = 2
    MaxDelta = 1
    Boundary = 1
    MaxRecency = 2
    MaxTime = 3
    MaxSkew = 1
    MaxRecords = 4
    MaxDrops = 1
SYMMETRY KeySymmetry
INVARIANTS
    TrainedAsServed
PROPERTIES
    LabelsFinal
    RoomIsMade
