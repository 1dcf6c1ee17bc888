SPECIFICATION Spec
CONSTANTS
    w1 = w1
    w2 = w2
    w3 = w3
    d1 = d1
    d2 = d2
    s1 = s1
    s2 = s2
    s3 = s3
    None = None
    Window = {w1, w2, w3}
    Running = {w1, w3}
    Dialog = {w3}
    Sheet = {w3}
    Display = {d1, d2}
    Space = {s1, s2, s3}
    User = {s1, s2, s3}
    DisplayOf <- MCDisplayOf
    Layout = {"bsp", "float"}
    Rule <- MCRule
    Command <- MCCommand
    Circumstance = {}
    MaxQueue = 2
    MaxChanges = 4
INVARIANTS
    EmptyDesktopIsRebalanced
\* The windows act a bounded number of times.
CHECK_DEADLOCK FALSE
