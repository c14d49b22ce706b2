--------------------------- MODULE MCDomainMatcher ---------------------------
(* Names of up to three labels, with empty labels and capitals, for TLC. *)
EXTENDS DomainMatcher

MCLowerLabel == [l \in Labels |-> IF l = "A" THEN "a" ELSE l]
MCNames == UNION {[1..n -> Labels] : n \in 1..3}

\* Pairs of entries of one or two labels, from two lists.
MCEntries == {<<"a", "c">>, <<"c">>, <<"A">>, <<"a", "">>, <<"">>} \X {1, 2}
MCLists == {{e, f} : e, f \in MCEntries}
MCAllowlists == {{}, {<<"a", "c">>}, {<<"A", "c">>}}
=============================================================================
