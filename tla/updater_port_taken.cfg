\* The API port is taken when the API server starts.
SPECIFICATION Spec
CONSTANTS
    Triggers = {c1, c2}
    Period = 2
    LongRefresh = 3
    LongStart = 1
    BindMayFail = TRUE
    MayStall = FALSE
    MaxTime = 8
PROPERTY ForcedByTrigger
