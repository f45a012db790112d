CONSTANTS
    SleepCommands = {1, 2}
    LockCommands = {3}
    Fds = {3, 4}
    MaxSignals = 3
SPECIFICATION FairSpec
INVARIANTS
    TypeOK
    LockTracked
    SleepActionsFirst
    LockHeldAgain
PROPERTIES
    SuspendNotBlocked
