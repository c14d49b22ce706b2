\* Three entries, channels of one place, a restart, cleanups every two seconds.
SPECIFICATION Spec
CONSTANTS
    Entries = {"e1", "e2", "e3"}
    Kind <- MCKind
    Retention = 1
    CleanupEvery = 0
    MaxTime = 3
    Configs <- MCConfigs
    ChannelCap = 1
    RingCap = 2
    Limit = 2
    LogBlocked = TRUE
    LogAll = FALSE
    MaxRestarts = 1
INVARIANTS LoggerInv FiguresBounded ApiServesLog NewestFirst
PROPERTIES RetentionKept RowsLeaveByAge LogsDrain
