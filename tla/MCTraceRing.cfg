SPECIFICATION FairRingSpec
CONSTANTS
    Accesses = {a, b, c}
    Sampled = {a, b}
    Capacity = 4
    DrainBatch = 3
    Zero = Zero
    MaxAttempts = 7
INVARIANTS
    NoRace
    Fifo
    Accounted
PROPERTIES
    ImplementsQueue
    EventuallyDrained
