SPECIFICATION Spec
CONSTANTS
    Id = {w1}
    NoWindow = NoWindow
    MaySwitch = TRUE
    MaxPending = 3
INVARIANT
    NoDuplicate
CHECK_DEADLOCK FALSE
