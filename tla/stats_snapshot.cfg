\* Three queries around a snapshot or a dump, the counters loaded in any order.
SPECIFICATION Spec
CONSTANTS
    Queries = {q1, q2, q3}
    Requests <- MCRequests
    Clients = {"c1", "c2"}
    Domains = {"d1", "d2"}
    Sources = {0, 1}
    UpstreamSlots = 1
    TopK = 1
SYMMETRY Symmetric
INVARIANTS StatsInv SnapshotBounded SharesBounded TopListed LatencyKept
