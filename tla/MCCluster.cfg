SPECIFICATION FairSpec
CONSTANTS
    Nodes = {n1, n2}
    Gets = {g1, g2}
    Puts = {p1}
    Deletes = {d1}
    None = None
    Origin = Origin
    MaxInflight = 3
    MaxRestarts = 1
INVARIANTS
    DeletedStaysDeleted
    ShedLeavesNothing
    NotFoundIsAbsent
    FailuresAreOrigins
PROPERTIES
    EveryMissAnswered
