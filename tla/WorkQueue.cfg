SPECIFICATION FairSpec
CONSTANTS
    Worker = {w1, w2}
    Producer = event
    N = 3
    MaxBatch = 2
    MaxSemaphore = 3
    MaxCompleted = 4
INVARIANTS
    RingIsSound
    PoolAwake
PROPERTIES
    BatchCompletes
CONSTRAINT UntilOverrun
