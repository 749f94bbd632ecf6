SPECIFICATION FairSpec
CONSTANTS
    Trees <- SmallTrees
    Headers <- SmallHeaders
    FeatureCount = 1
    MaxTrees = 2
    ParentMod = 2
INVARIANTS
    WalkInRange
    SameAsTheFile
PROPERTIES
    EveryWalkEnds
