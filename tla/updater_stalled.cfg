\* A list server that never ends its answer.
SPECIFICATION Spec
CONSTANTS
    Triggers = {c1, c2}
    Period = 2
    LongRefresh = 3
    LongStart = 1
    BindMayFail = FALSE
    MayStall = TRUE
    MaxTime = 8
PROPERTY UpdatesGoOn
