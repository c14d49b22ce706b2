---------------------------- MODULE PolicyHistory ----------------------------
(***************************************************************************)
(* DnsHandler with what each query could have seen of the blocking policy  *)
(* while it was being handled.  The handler reads the pause deadline and   *)
(* the blocklist at two different moments, while the API pauses and        *)
(* resumes, the clock runs out the pause and the updater swaps the list.   *)
(***************************************************************************)
EXTENDS DnsHandler

VARIABLES
    sawOpen,    \* queries that were, at some moment since they were received,
                \* allowed by the policy: paused, or not listed
    sawActive,  \* queries in whose time blocking was active at some moment
    sawListed   \* for each query, the lists that had its name at some moment
                \* of its time

history == <<sawOpen, sawActive, sawListed>>
hvars == <<vars, history>>

Received == {q \in Queries : pc[q] # "arriving"}

\* The policy as a client should see it at this moment.
MustBlock(name) == BlockingActive /\ IsListed(name)

PolicyInit ==
    /\ Init
    /\ sawOpen = {} /\ sawActive = {}
    /\ sawListed = [q \in Queries |-> {}]

\* The id that the matcher of this moment gives for the name of q, if any.
ListedBy(q) == {blocklist[QueryInfo(q).name]} \ {NoSource}

\* Every state a query lives through counts, its first one included.
Witness ==
    /\ sawOpen' = sawOpen \cup
          {q \in Received' : ~MustBlock(QueryInfo(q).name)'}
    /\ sawActive' = sawActive \cup {q \in Received' : BlockingActive'}
    /\ sawListed' = [q \in Queries |->
          sawListed[q] \cup IF q \in Received' THEN ListedBy(q)' ELSE {}]

PolicySpec == PolicyInit /\ [][Next /\ Witness]_hvars

LivePolicySpec == PolicySpec /\ Fairness

-----------------------------------------------------------------------------
\* q was asked of an upstream, or answered from the cache.
Forwarded(q) ==
    \/ response[q].from \in {"cached", "stale", "upstream", "error"}
    \/ \E mode \in {"serve", "refresh"} : fetch[<<q, mode>>] # "idle"

\* A name that was blocked during the whole life of its query is never asked
\* of an upstream for it and never answered from the cache, although the
\* entry may have been cached when the name was still allowed.
ForwardedOnlyWhenOpen ==
    \A q \in Queries : Forwarded(q) => q \in sawOpen

\* A query is blocked only if blocking was active at some moment of its life
\* and, at some moment of it, the list that the answer names had its name.
\* (Not at one moment: the two reads are not atomic.)
BlockedOnlyWhenActive ==
    \A q \in Queries :
        response[q].from = "blocked" =>
            q \in sawActive /\ response[q].source \in sawListed[q]
=============================================================================
