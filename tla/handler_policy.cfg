\* Pause, resume, the end of a pause and list updates around two queries, with
\* disable_ipv6, upstreams that fail or answer with records of both families,
\* stale hits and their refreshes, and tasks that die.
SPECIFICATION LivePolicySpec
CONSTANTS
    Queries = {q1, q2}
    Names = {"ads"}
    Lower <- MCLower
    QTypes = {"ANY", "AAAA"}
    RecordTypes = {"A", "AAAA"}
    LocalRecords <- NoLocalRecords
    DisableIpv6 = TRUE
    LoggingEnable = TRUE
    MinTtl = 1
    GracePeriod = 1
    Capacity = 2
    Sources = {"list", "other"}
    NoSource = NoSource
    Matchers <- MCMatchers
    Replies <- MixedReplies
    FetchTime = 1
    PauseTimes = {1}
    MaxTime = 1
INVARIANTS ForwardedOnlyWhenOpen BlockedOnlyWhenActive AuditTrail LedgersAgree
    NoIpv6Leak
PROPERTIES EveryQueryEnds StaleRefreshed
