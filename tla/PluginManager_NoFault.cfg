SPECIFICATION Spec
CONSTANTS
    f1 = f1
    f2 = f2
    None = None
    File <- MCFile
    Missing = {}
    SameLibrary = FALSE
    Script <- MCScript
    UserCommand <- MCUserCommand
    MaxUser = 2
    MaxRaised = 1
INVARIANTS
    NoFault
CHECK_DEADLOCK FALSE
