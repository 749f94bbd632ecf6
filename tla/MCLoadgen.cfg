SPECIFICATION Spec
CONSTANTS
    Keys = {a, b, c}
    Nodes = {n1, n2}
    MaxLength = 5
    Traces <- ShortTraces
    Warmups = {0, 2}
    Concurrencies = {1, 2}
    NodeCapacity = 1
    MaxRestarts = 1
    Wrap = 64
SYMMETRY Interchangeable
INVARIANTS
    HeapCoversResident
    WindowExact
    NeverOverstated
    MinIsCeiling
