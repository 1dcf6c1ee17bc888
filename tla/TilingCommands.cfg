SPECIFICATION DesktopSpec
CHECK_DEADLOCK FALSE
CONSTANTS
    w1 = w1
    w2 = w2
    w3 = w3
    None = None
    Window = {w1, w2, w3}
    WindowId = {w1, w2, w3}
    NoValue = NoValue
    Display <- MCDisplay
    MenuBar = 22
    Bar <- MCBar
    Dock <- MCDock
    Tree <- MCTree
    Conf <- MCConf
    PaddingStep = 10
    GapStep = 10
    Wrap = FALSE
    DefaultRatio = 60
    RatioOf <- MCRatioOf
    Line <- MCLine
    SetMeanwhile = FALSE
    MaxLines = 3
    MaxSets = 1
INVARIANTS
    RegionsAreRight
    RotationIsGeometric
    EqualizedRowIsEven
    LinesRunWhole
    RatioIsRestored
PROPERTIES
    ImplementsCommandLine
