SPECIFICATION Spec
CHECK_DEADLOCK FALSE
CONSTANTS
    NoValue = NoValue
    WindowId = {}
    RatioOf <- MCRatioOf
    DefaultRatio = 60
    Line <- MCLine
    SetMeanwhile = FALSE
    MaxLines = 2
    MaxSets = 2
INVARIANTS
    LinesRunWhole
    RatioIsRestored
