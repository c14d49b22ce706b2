\* Pauses (one overflows, one wraps to nothing), resumes, statuses, queries.
SPECIFICATION Spec
CONSTANTS
    Callers = {c1, c2, c3}
    Minutes = {1, 2, 5, 8}
    Minute = 2
    SecondsWidth = 16
    MaxInstant = 8
    LastCall = 2
    MaxTime = 6
    None = None
INVARIANTS StateInv TornOnlyByChange
PROPERTIES BlockingComesBack
