------------------------------- MODULE MCStats -------------------------------
(* Queries of two clients for two domains, with every outcome. *)
EXTENDS Stats, TLC

Ask(client, domain, outcome, source, upstream, ms) ==
    [client |-> client, domain |-> domain, outcome |-> outcome,
     source |-> source, upstream |-> upstream, ms |-> ms]

\* Two blocks by two lists, hits, samples of an upstream with a slot and of
\* one without, which counts for nothing more, as a local record, and a packet
\* without a question.
MCRequests ==
    {Ask("c1", "d1", "blocked", 0, 0, 1), Ask("c2", "d1", "blocked", 1, 0, 1),
     Ask("c1", "d2", "cached", 0, 0, 1), Ask("c2", "d1", "stale", 0, 0, 2),
     Ask("c1", "d1", "forwarded", 0, 0, 5),
     Ask("c2", "d2", "forwarded", 0, 1, 9), Ask("c1", "d1", "empty", 0, 0, 1)}

Symmetric == Permutations(Queries)
=============================================================================
