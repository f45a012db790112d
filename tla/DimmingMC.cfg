CONSTANTS
    Tasks = {t1, t2}
    NoTask = NoTask
    MaxBrightness = 2
    min_brightness = 0
    total_millis = 3
    WriteOutcomes = {TRUE, FALSE}
    Dimmers = {c1, c2}
SPECIFICATION DimmingSpec
INVARIANTS
    TypeOK
    ReportedOnce
    RestoredStaysRestored
    DimmedIffByCommand
PROPERTIES
    DimmerSpec
    DimsGradually
    ThreadsComeToEnd
    DimmingEnds
    UndimmedWhenNoneActive
