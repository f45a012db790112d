CONSTANTS
    Names = {a, b, bad}
    Unwritable = {bad}
    Commands = {run}
    Multiline = {}
    Settings = {}
    OtherKinds = {}
    Seconds = {1, 4}
    MsPerSecond = 4
    MaxInt = 15
    HandMade <- FilesByHand
    MaxActions = 2
    MaxPending = 1
SPECIFICATION Spec
INVARIANTS
    ActionSpecified
