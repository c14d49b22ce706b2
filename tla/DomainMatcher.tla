---------------------------- MODULE DomainMatcher ----------------------------
(***************************************************************************)
(* engine/domain_matcher.rs: building a HashedMatcher from downloaded      *)
(* lines and the configured allowlist, and the loop of `check`, which      *)
(* looks up a query's name and then strips one label after the other.      *)
(***************************************************************************)
EXTENDS DomainNames

CONSTANTS
    Labels,       \* labels in any spelling, Empty among them
    LowerLabel,   \* [Labels -> Labels], ASCII lower case
    Names,        \* the names to look up, sequences of labels
    Lists,        \* what downloads yield: sets of pairs <<name, source>>
    Allowlists,   \* config.allowlist: sets of names, as spelled there
    Sources

ASSUME MatcherAssumption ==
    /\ Empty \in Labels
    /\ LowerLabel \in [Labels -> Labels]
    /\ \A l \in Labels : LowerLabel[LowerLabel[l]] = LowerLabel[l]
    /\ Names \subseteq Seq(Labels) \ {<<>>}
    /\ \A list \in Lists : list \subseteq (Seq(Labels) \ {<<>>}) \X Sources
    /\ \A allow \in Allowlists : allow \subseteq Seq(Labels) \ {<<>>}
    /\ NoSource \notin Sources

VARIABLES
    wire,       \* the name of the query, as sent
    configured, \* config.allowlist
    domains,    \* HashedMatcher.domains
    allowlist,  \* HashedMatcher.allowlist
    stripped,   \* number of labels before `part` in the name
    verdict,    \* the result of check
    pc

vars == <<wire, configured, domains, allowlist, stripped, verdict, pc>>

LowerName(name) == [i \in 1..Len(name) |-> LowerLabel[name[i]]]

\* `new` keeps an allowlist entry as it is spelled.
AllowKey(name) == name

\* The argument of check: get_query_info has lowered it.
domain == LowerName(wire)

\* The slice the loop is looking at.
part == Suffix(domain, stripped)

\* parse_line lowers every line; a name in several lists has one source.
Attributions(list) ==
    LET keys == {LowerName(entry[1]) : entry \in list}
    IN  {map \in [keys -> Sources] :
            \A key \in keys : \E entry \in list :
                LowerName(entry[1]) = key /\ entry[2] = map[key]}

Init ==
    /\ wire \in Names
    /\ configured \in Allowlists
    /\ \E list \in Lists : domains \in Attributions(list)
    /\ allowlist = {AllowKey(name) : name \in configured}
    /\ stripped = 0
    /\ verdict = NoSource
    /\ pc = "allowlist"

\* Mutant of CheckAllowlist: an allowlisted parent frees its subdomains.
CheckAllowlistParents ==
    /\ pc = "allowlist"
    /\ pc' = IF \E k \in Strippings(domain) : Suffix(domain, k) \in allowlist
             THEN "done" ELSE "lookup"
    /\ UNCHANGED <<wire, configured, domains, allowlist, stripped, verdict>>

CheckAllowlist ==
    /\ pc = "allowlist"
    /\ pc' = IF domain \in allowlist THEN "done" ELSE "lookup"
    /\ UNCHANGED <<wire, configured, domains, allowlist, stripped, verdict>>

Hit ==
    /\ pc = "lookup"
    /\ part \in DOMAIN domains
    /\ verdict' = domains[part]
    /\ pc' = "done"
    /\ UNCHANGED <<wire, configured, domains, allowlist, stripped>>

Miss ==
    /\ pc = "lookup"
    /\ part \notin DOMAIN domains
    /\ pc' = "strip"
    /\ UNCHANGED <<wire, configured, domains, allowlist, stripped, verdict>>

\* `part.find('.')`: without a dot the loop ends, and also when nothing is
\* left behind the last one.
HasDot == stripped + 1 < Len(domain)

LeavesLabel == HasDot /\ Suffix(domain, stripped + 1) # <<Empty>>

\* Mutant of Strip: the slice starts at the dot, not behind it.
StripNothing ==
    /\ pc = "strip"
    /\ LeavesLabel
    /\ pc' = "lookup"
    /\ UNCHANGED <<wire, configured, domains, allowlist, stripped, verdict>>

Strip ==
    /\ pc = "strip"
    /\ LeavesLabel
    /\ stripped' = stripped + 1
    /\ pc' = "lookup"
    /\ UNCHANGED <<wire, configured, domains, allowlist, verdict>>

GiveUp ==
    /\ pc = "strip"
    /\ ~LeavesLabel
    /\ pc' = "done"
    /\ UNCHANGED <<wire, configured, domains, allowlist, stripped, verdict>>

\* The caller has its answer; the query is over.
Done == pc = "done" /\ UNCHANGED vars

Next == CheckAllowlist \/ Hit \/ Miss \/ Strip \/ GiveUp \/ Done

Spec == Init /\ [][Next]_vars

-----------------------------------------------------------------------------
TypeOK ==
    /\ wire \in Names /\ configured \in Allowlists
    /\ allowlist \subseteq Seq(Labels)
    /\ DOMAIN domains \subseteq Seq(Labels)
    /\ \A name \in DOMAIN domains : domains[name] \in Sources
    /\ stripped \in 0..(Len(domain) - 1)
    /\ verdict \in Sources \cup {NoSource}
    /\ pc \in {"allowlist", "lookup", "strip", "done"}

\* The loop finds what the one-line definition says: the source of the
\* longest listed suffix, whatever empty labels the name has.
LoopAgrees ==
    pc = "done" => verdict = Verdict(domains, allowlist, domain)

\* A listed domain blocks every name under it, except a name that is itself
\* on the allowlist: an allowlisted parent does not free its subdomains.
ParentBlocks ==
    pc = "done" /\ domain \notin allowlist =>
        \A k \in Strippings(domain) :
            Suffix(domain, k) \in DOMAIN domains => verdict # NoSource

\* config.rs:57, "List of domains to explicitly allow (bypass blocklists).":
\* a query for a configured domain, in any spelling, is not blocked.
AllowlistBypasses ==
    pc = "done" /\ (\E name \in configured : LowerName(name) = domain)
        => verdict = NoSource
=============================================================================
