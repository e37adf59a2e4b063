--------------------------- MODULE MCTokenExchange ---------------------------
(* Small instances of TokenExchange.                                       *)
EXTENDS TokenExchange, TLC

CONSTANTS r1, r2, a, b, alice, bob, ctx, svc, ns1

MCRequests == {r1, r2}
MCOneRequest == {r1}
MCSymmetry == Permutations(MCRequests)
MCWords == {a, b}
MCScopes == {<<a>>, <<b, a, b>>, <<>>}
MCFewScopes == {<<a>>, <<a, b>>}
MCSubjects == {alice, bob}
MCContexts == {ctx}
MCWorkloads == {svc}
MCNamespaces == {ns1}
Deny(s) == [targets |-> {}, denies |-> {s}]
MCRuleSets == {{}, {Deny(alice), Deny(bob)},
               {[targets |-> {ns1}, denies |-> {bob}], Deny(alice)}}

=============================================================================
