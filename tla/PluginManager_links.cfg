SPECIFICATION Spec
CONSTANTS
    f1 = f1
    f2 = f2
    None = None
    File <- MCFile
    Missing = {}
    SameLibrary = TRUE
    Script <- MCScript
    UserCommand <- MCUserCommand
    MaxUser = 2
    MaxRaised = 1
INVARIANTS
    PluginIsUsable
CHECK_DEADLOCK FALSE
