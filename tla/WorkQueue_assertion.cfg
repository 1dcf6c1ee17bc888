SPECIFICATION Spec
CONSTANTS
    Worker = {w1}
    Producer = event
    N = 3
    MaxBatch = 2
    MaxSemaphore = 3
    MaxCompleted = 4
INVARIANT
    QueueAssertion
CHECK_DEADLOCK FALSE
