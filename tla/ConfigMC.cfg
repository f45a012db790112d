CONSTANTS
    Names = {a, b, bad}
    Unwritable = {bad}
    Commands = {run}
    Multiline = {}
    Settings = {"ignore_audio"}
    OtherKinds = {}
    Seconds = {1}
    MsPerSecond = 4
    MaxInt = 15
    HandMade <- FilesByHand
    MaxActions = 2
    MaxPending = 1
SPECIFICATION Spec
SYMMETRY NameSymmetry
INVARIANTS
    TypeOK
    ViewTells
    
    
PROPERTIES
    IdsNotReused
    DurableSpec
