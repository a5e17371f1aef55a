SPECIFICATION Spec
CONSTANTS
    nil = nil
    TickMs = 3
    WheelSize = 2
    Start = 2
    MaxTimer = 2
    Durations <- MCDurations
    Repeats <- MCRepeats
    Horizon = 11
INVARIANT
    RepeatKeepsInterval
CHECK_DEADLOCK FALSE
