\* Three triggers, refreshes of zero to three ticks, a startup of up to four, a
\* period of two.
SPECIFICATION AnsweringSpec
CONSTANTS
    Triggers = {c1, c2, c3}
    Period = 2
    LongRefresh = 3
    LongStart = 4
    BindMayFail = TRUE
    MayStall = FALSE
    MaxTime = 8
INVARIANTS UpdaterInv UpdatesRegularly
PROPERTIES ForcedResets TriggersServed
