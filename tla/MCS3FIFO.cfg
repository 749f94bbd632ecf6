SPECIFICATION Spec
CONSTANTS
    Keys = {k1, k2, k3}
    Sizes = {1, 19, 21}
    Capacity = 20
    GhostTarget = 2
    CompactSlack = 0
    MaxGen = 7
    None = None
SYMMETRY KeySymmetry
INVARIANTS
    Partition
    OneLiveSlot
    BytesExact
    VictimGuaranteed
    GhostConsistent
    SmallBounded
PROPERTIES
    ImplementsStore
