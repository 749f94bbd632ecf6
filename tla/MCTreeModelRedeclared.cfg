SPECIFICATION Spec
CONSTANTS
    Trees <- SmallTrees
    Headers <- SmallHeaders
    FeatureCount = 1
    MaxTrees = 2
    ParentMod = 2
INVARIANTS
    NeverPanics
