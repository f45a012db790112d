CONSTANTS
    Names = {a}
    Unwritable = {}
    Commands = {run}
    Multiline = {}
    Settings = {}
    OtherKinds = {}
    Seconds = {1}
    MsPerSecond = 3
    MaxInt = 15
    HandMade <- FilesByHand
    MaxActions = 2
    MaxPending = 1
    Toggles = {}
    EnteredSeconds = {1}
    Unparsable = {}
    MaxWindows = 2
    MaxLate = 0
    MaxActs = 4
    Mishaps = {"activated"}
SPECIFICATION GuiSpec
INVARIANTS
    AssertionsHold
CHECK_DEADLOCK FALSE
