\* Two queries for one name in two spellings or for a listed one with a local
\* record, answers of several TTLs, pauses, time.
SPECIFICATION Spec
CONSTANTS
    Queries = {q1, q2}
    Names = {"Ads", "ads", "lan"}
    Lower <- MCLower
    QTypes = {"A", "ANY", "AAAA"}
    RecordTypes = {"A", "AAAA"}
    LocalRecords <- MCLocalRecords
    DisableIpv6 = TRUE
    LoggingEnable = TRUE
    MinTtl = 1
    GracePeriod = 1
    Capacity = 1
    Sources = {"list"}
    NoSource = NoSource
    Matchers <- LanListed
    Replies <- AgingReplies
    FetchTime = 1
    PauseTimes = {1}
    MaxTime = 3
SYMMETRY Symmetric
INVARIANTS HandlerInv AnswersOwnQuestion AnswerAge
PROPERTIES EntriesKept
