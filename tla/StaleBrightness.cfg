CONSTANTS
    Tasks = {t1, t2}
    NoTask = NoTask
    MaxBrightness = 3
    min_brightness = 1
    total_millis = 3
    WriteOutcomes = {TRUE}
SPECIFICATION Spec
PROPERTIES
    UndimRestoresBrightness
