\* Three lists, two downloads at a time, failures and cuts at every line; then
\* a query for every name of up to three labels.
SPECIFICATION BlockingSpec
CONSTANTS
    Empty = ""
    NoSource = NoSource
    Labels = {"a", "A", "c", ""}
    LowerLabel <- MCLowerLabel
    Names <- MCNames
    Lists = {}
    Allowlists <- MCAllowlists
    Sources = {0, 1}
    NumLists = 3
    ConcurrentDownloads = 2
    Lines <- MCLines
    ParseLine <- MCParseLine
    NoDomain = NoDomain
    Contents <- MCContents
    MaxSource = 1
INVARIANTS BlockingInv LoopAgrees ListedIsBlocked
PROPERTIES VerdictReached
