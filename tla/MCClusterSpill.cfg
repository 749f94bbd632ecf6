SPECIFICATION Spec
CONSTANTS
    Nodes = {n1, n2}
    Gets = {g1}
    Puts = {p1, p2}
    Deletes = {}
    None = None
    Origin = Origin
    MaxInflight = 1
    MaxRestarts = 0
SYMMETRY Interchangeable
INVARIANTS
    NoOlderPutRead
