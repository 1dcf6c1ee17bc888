SPECIFICATION FairSpec
CONSTANTS
    Id = {w1}
    NoWindow = NoWindow
    MaySwitch = TRUE
    MaxPending = 2
INVARIANTS
    StructsOutliveUse
    PluginOrder
PROPERTIES
    DestroyedIsFreed
    FocusRestored
