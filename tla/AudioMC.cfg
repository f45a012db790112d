CONSTANTS
    Sinks = {1, 2}
    MaxMessages = 4
SPECIFICATION FairSpec
INVARIANTS
    TypeOK
    LastEventTells
    ViewCatchesUp
PROPERTIES
    SilenceReported
CHECK_DEADLOCK FALSE
