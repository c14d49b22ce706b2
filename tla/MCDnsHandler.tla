---------------------------- MODULE MCDnsHandler ----------------------------
(***************************************************************************)
(* Small instances of DnsHandler for TLC.  "Ads" is spelled with a capital *)
(* on the wire and in the configuration, "ads" is what the handler makes   *)
(* of it.                                                                  *)
(***************************************************************************)
EXTENDS DnsHandler, TLC

MCLower == [n \in Names |-> IF n = "Ads" THEN "ads" ELSE n]

\* One list, which has "lan": the policy is the subject of MCPolicyHistory.
LanListed == {[n \in Names |-> IF n = "lan" THEN "list" ELSE NoSource]}

\* "lan" has a local A record.
MCLocalRecords == [n \in {"lan"} |-> "A"]

A(ttl)    == [rtype |-> "A", ttl |-> ttl]

\* Nothing tells two queries apart but what they ask.
Symmetric == Permutations(Queries)

\* Answers with a TTL below and above min_ttl, and the empty one.
AgingReplies == {{}, {A(0), A(2)}}
=============================================================================
