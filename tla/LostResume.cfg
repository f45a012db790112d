CONSTANTS
    Data = {1}
    Timeouts = {2, 3}
    NoTimeout = 9
    MaxIdle = 3
    MaxQueue = 2
    Lags = {0}
    OtherTriggers = {}
SPECIFICATION Spec
INVARIANTS
    DeactivatedOnceActivityResumes
