------------------------------ MODULE MCBlocking ------------------------------
(* Three lists that share domains, and every name of up to three labels. *)
EXTENDS Blocking

MCLowerLabel == [l \in Labels |-> IF l = "A" THEN "a" ELSE l]
MCNames == UNION {[1..n -> Labels] : n \in 1..3}
MCAllowlists == {{}, {<<"a", "c">>}, {<<"A", "c">>}}

\* "a.c", "c", "A.c", "a." and a comment, which parses to nothing.
MCLines == {<<"a", "c">>, <<"c">>, <<"A", "c">>, <<"a", "">>, <<"#">>}
MCParseLine ==
    [line \in Lines |-> IF line = <<"#">> THEN NoDomain ELSE LowerName(line)]
MCContents == {<<<<<<"a", "c">>, <<"#">>>>, <<<<"A", "c">>, <<"c">>>>, <<<<"c">>>>>>,
               <<<<>>, <<<<"a", "">>>>, <<<<"#">>, <<"a", "">>, <<"a", "c">>>>>>}
=============================================================================
