SPECIFICATION FairSpec
CONSTANTS
    Event = {e1, e2, e3}
    None = None
    Thread = {main, daemon, worker, event}
    MainThread = main
    EventThread = event
    MaxLeftover = 1
INVARIANTS
    TypeOK
    TakeFindsEvent
    NoLostWakeup
PROPERTIES
    ImplementsChannel
    EveryEventHandled
\* The run ends quietly: all of Event is handled, or StopEventLoop hangs in join.
CHECK_DEADLOCK FALSE
