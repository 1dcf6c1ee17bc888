SPECIFICATION FairSpec
CONSTANTS Process = {p1}
          NoApp = NoApp
          Timeout = 2
          MaxPending = 3
INVARIANTS
    RecordsOutliveUse
    PluginOrder
PROPERTIES
    LaunchTimesOut
    GoneIsRemoved
    ActivationRestored
CHECK_DEADLOCK FALSE
