------------------------------- MODULE Blocking -------------------------------
(***************************************************************************)
(* From the list servers to a verdict: a refresh of BlocklistManager, the  *)
(* HashedMatcher built from its map, and the lookup of a name in it.       *)
(*                                                                         *)
(* DomainMatcher starts from any attribution of the downloaded lines;      *)
(* here the map is the one the refresh has merged, with the failures and   *)
(* the order of its downloads.  The first query comes when it is in place. *)
(***************************************************************************)
EXTENDS DomainMatcher

CONSTANTS NumLists, ConcurrentDownloads, Lines, ParseLine, NoDomain, Contents,
          MaxSource

VARIABLES content, download, got, broken, results, merged,
          refresh   \* the manager's pc

managerVars == <<content, download, got, broken, results, merged, refresh>>
allVars == <<vars, managerVars>>

Manager == INSTANCE BlocklistManager WITH map <- merged, pc <- refresh

\* parse_line yields names in lower case, and no name for a comment.
ASSUME BlockingAssumption ==
    /\ Manager!ManagerAssumption
    /\ Names # {}
    /\ 0..MaxSource \subseteq Sources
    /\ NoDomain \notin Seq(Labels)
    /\ \A d \in Manager!Domains : d \in Seq(Labels) \ {<<>>} /\ LowerName(d) = d

BlockingInit ==
    /\ Manager!Init
    /\ configured \in Allowlists
    /\ allowlist = {AllowKey(name) : name \in configured}
    /\ domains = [name \in {} |-> NoSource]
    /\ wire = CHOOSE name \in Names : TRUE
    /\ stripped = 0
    /\ verdict = NoSource
    /\ pc = "allowlist"

\* The downloads and the merge.
Download ==
    /\ Manager!Start \/ Manager!Collect \/ \E i \in Manager!ListIds : Manager!Server(i)
    /\ UNCHANGED vars

\* The end of the merge: the map goes to HashedMatcher::new.
Merge ==
    /\ Manager!Merge
    /\ IF refresh' = "done"
       THEN domains' = merged /\ wire' \in Names
       ELSE UNCHANGED <<domains, wire>>
    /\ UNCHANGED <<configured, allowlist, stripped, verdict, pc>>

Lookup == CheckAllowlist \/ Hit \/ Miss \/ Strip \/ GiveUp

Check ==
    /\ refresh = "done"
    /\ Lookup \/ Done
    /\ UNCHANGED managerVars

BlockingNext == Download \/ Merge \/ Check

\* The tasks run, and every server ends its answer.
BlockingSpec ==
    /\ BlockingInit /\ [][BlockingNext]_allVars
    /\ WF_allVars(Download) /\ WF_allVars(Merge)
    /\ WF_allVars(Lookup /\ refresh = "done" /\ UNCHANGED managerVars)

-----------------------------------------------------------------------------
\* What the refresh hands over is what DomainMatcher starts from: every name
\* of every line that came, each charged to one of the lists it came in.
HandOver ==
    refresh = "done" => domains \in Attributions(UNION {got[i] : i \in Manager!ListIds})

\* No query is looked up before the matcher is in place.
QueryWaits ==
    refresh # "done" => pc = "allowlist" /\ stripped = 0 /\ verdict = NoSource

\* What every step keeps of the refresh, the lookup and what joins them.
BlockingInv == TypeOK /\ Manager!RefreshInv /\ HandOver /\ QueryWaits

\* End to end: a name under a domain of a list that was read to its end is
\* blocked, unless it is on the allowlist, whatever other lists failed; the
\* block is charged to the number of a list that has the name or a parent of
\* it, or to the last number there is when the list has none of its own.
ListedIsBlocked ==
    pc = "done" /\ domain \notin allowlist =>
        \A k \in Strippings(domain), i \in Manager!ListIds \ broken :
            Manager!Has(i, Suffix(domain, k)) =>
                \E j \in Manager!ListIds, l \in Strippings(domain) :
                    /\ l <= k /\ Manager!Has(j, Suffix(domain, l))
                    /\ \/ verdict = j - 1
                       \/ j - 1 > MaxSource /\ verdict = MaxSource

\* If every server ends its answer there is a matcher and a verdict.
VerdictReached == <>(pc = "done")
=============================================================================
