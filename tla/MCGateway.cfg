SPECIFICATION Spec
CONSTANTS
    Requests = {r1, r2, r3, r4}
    n1 = n1
    n2 = n2
    Nodes = {n1, n2}
    VNodes <- TwoNodeRing
    Starts = {1, 2}
    FactorNum = 5
    FactorDen = 4
    MaxInflight = 3
SYMMETRY RequestSymmetry
INVARIANTS
    LoadAccounted
    FallbackOnlyUnderRace
