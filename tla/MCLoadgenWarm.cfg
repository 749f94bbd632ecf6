SPECIFICATION Spec
CONSTANTS
    Keys = {a, b, c}
    Nodes = {n1}
    MaxLength = 4
    Traces <- ShortTraces
    Warmups = {0, 3, 4}
    Concurrencies = {1}
    NodeCapacity = 2
    MaxRestarts = 0
    Wrap = 64
SYMMETRY Interchangeable
INVARIANTS
    MinIsWarmCeiling
