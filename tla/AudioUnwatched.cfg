CONSTANTS
    Sinks = {1, 2}
    MaxMessages = 4
SPECIFICATION Spec
INVARIANTS
    EmitsWhatRuns
CHECK_DEADLOCK FALSE
