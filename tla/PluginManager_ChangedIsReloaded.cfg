SPECIFICATION FairSpec
CONSTANTS
    f1 = f1
    f2 = f2
    None = None
    File <- MCFile
    Missing = {}
    SameLibrary = FALSE
    Script <- MCScript
    UserCommand <- MCUserCommand
    MaxUser = 2
    MaxRaised = 1
PROPERTIES
    ChangedIsReloaded
CHECK_DEADLOCK FALSE
