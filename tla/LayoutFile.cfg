SPECIFICATION Spec
CONSTANT Depth = 4
INVARIANTS
    ReaderIsSound
    ReadBack
CHECK_DEADLOCK FALSE
