\* A duration whose seconds do not fit an Instant.
SPECIFICATION Spec
CONSTANTS
    Callers = {c1, c2, c3}
    Minutes = {1, 6}
    Minute = 2
    SecondsWidth = 16
    MaxInstant = 8
    LastCall = 2
    MaxTime = 6
    None = None
INVARIANT PausingIsSafe
