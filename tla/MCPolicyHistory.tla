--------------------------- MODULE MCPolicyHistory ---------------------------
(* Small instances of PolicyHistory for TLC. *)
EXTENDS PolicyHistory

MCLower == [n \in Names |-> IF n = "Ads" THEN "ads" ELSE n]

\* The updater swaps between matchers in which no list has the name, in which
\* one has it, and in which another has.
MCMatchers == {[n \in Names |-> IF n = "ads" THEN source ELSE NoSource] :
                  source \in Sources \cup {NoSource}}

NoLocalRecords == [n \in {} |-> "A"]

MixedReplies == {{[rtype |-> type, ttl |-> 1] : type \in {"A", "AAAA"}}}
=============================================================================
