----------------------------- MODULE ResolverSpec -----------------------------
(***************************************************************************)
(* What the callers of DnsResolver::resolve rely on, whatever the policy:  *)
(* a call returns the answer of an upstream that has not failed it, or an  *)
(* error once every upstream has.                                          *)
(***************************************************************************)
EXTENDS Integers

CONSTANT Calls

VARIABLES upstreams,  \* the upstreams of the resolver, numbered from 0
          failed,     \* the upstreams that failed each call
          result      \* Pending, Error or the upstream that answered

Pending == -1
Error   == -2

Init ==
    /\ upstreams \in SUBSET Nat /\ upstreams # {}
    /\ failed = [c \in Calls |-> {}]
    /\ result = [c \in Calls |-> Pending]

\* An upstream fails the call; with the last of them the call fails.
Fail(c, u) ==
    /\ result[c] = Pending /\ u \notin failed[c]
    /\ failed' = [failed EXCEPT ![c] = @ \cup {u}]
    /\ result' = [result EXCEPT
                     ![c] = IF failed[c] \cup {u} = upstreams THEN Error ELSE @]

Answer(c, u) ==
    /\ result[c] = Pending /\ u \notin failed[c]
    /\ result' = [result EXCEPT ![c] = u]
    /\ failed' = failed

Next ==
    /\ upstreams' = upstreams
    /\ \E c \in Calls, u \in upstreams : Fail(c, u) \/ Answer(c, u)

Spec == Init /\ [][Next]_<<upstreams, failed, result>>
=============================================================================
