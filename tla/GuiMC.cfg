CONSTANTS
    Names = {a, b}
    Unwritable = {}
    Commands = {run}
    Multiline = {}
    Settings = {"ignore_audio"}
    OtherKinds = {}
    Seconds = {1}
    MsPerSecond = 3
    MaxInt = 15
    HandMade <- FilesByHand
    MaxActions = 2
    MaxPending = 1
    Toggles = {"Paused", "ignore_audio"}
    EnteredSeconds = {6, 12}
    Unparsable = {bad}
    MaxWindows = 2
    MaxLate = 1
    MaxActs = 3
    Mishaps = {"activated", "detached", "timeout", "restart", "rival"}
SPECIFICATION GuiSpec
INVARIANTS
    GuiTypeOK
    CopyAgrees
    RowsAreActions
    SwitchAgrees
PROPERTIES
    OnlyChangesSent
CHECK_DEADLOCK FALSE
