SPECIFICATION Spec
CONSTANTS
    w1 = w1
    w2 = w2
    w3 = w3
    s1 = s1
    s2 = s2
    a1 = a1
    a2 = a2
    None = None
    Window = {w1, w2, w3}
    Floating = {w3}
    Space = {s1, s2}
    User = {s1, s2}
    HomeOf <- MCHomeOf
    Application = {a1, a2}
    OwnerOf <- MCOwnerOf
    MaySwitch = FALSE
    MaxTap = 2
    MaxHandlers = 2
INVARIANTS
    BordersAreLive
