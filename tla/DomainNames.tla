----------------------------- MODULE DomainNames -----------------------------
(***************************************************************************)
(* Names as sequences of labels ("a.b" is <<"a", "b">>, a final dot leaves *)
(* the empty label at the end) and the verdict of HashedMatcher::check in  *)
(* one expression: the longest listed suffix wins, unless the whole name   *)
(* is on the allowlist.                                                    *)
(***************************************************************************)
EXTENDS Integers, Sequences, FiniteSetsExt

CONSTANTS Empty,     \* the label "", as in "com." or "a..b"
          NoSource   \* `None`

\* The name without its first k labels.
Suffix(name, k) == SubSeq(name, k + 1, Len(name))

\* How many labels may be stripped before nothing is left to look up.
Strippings(name) ==
    {k \in 0..(Len(name) - 1) : k = 0 \/ Suffix(name, k) # <<Empty>>}

ListedStrippings(domains, name) ==
    {k \in Strippings(name) : Suffix(name, k) \in DOMAIN domains}

Verdict(domains, allowlist, name) ==
    IF name \in allowlist \/ ListedStrippings(domains, name) = {}
    THEN NoSource
    ELSE domains[Suffix(name, Min(ListedStrippings(domains, name)))]
=============================================================================
