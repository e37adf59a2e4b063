--------------------------- MODULE MCExtAuthVerify ---------------------------
(* Small instances of ExtAuthVerify.                                       *)
EXTENDS ExtAuthVerify

CONSTANTS c1, c2, alice, bob, user, get

MCChecks == {c1, c2}
MCOneCheck == {c1}
MCWords == {"read", "write"}
MCSubjects == {alice, bob}
MCFields == {user}
MCSegments == {"", "health", "live", "docs"}
MCMethods == {get}

Health == <<"", "health">>
Live == <<"", "health", "live">>
Docs == <<"", "docs">>

Token(sub, scope, tctx) == [sub |-> sub, scope |-> scope, tctx |-> tctx]
Request(path, token, valid) ==
    [path |-> path, method |-> get, token |-> token, valid |-> valid]

MCRequests ==
    {Request(Docs, Token(alice, <<"read", "write">>, {user}), TRUE),
     Request(Live, Token(bob, <<"write">>, {user}), TRUE),
     Request(Live, None, TRUE),
     Request(Docs, Token(alice, <<"write">>, {user}), FALSE)}

Rule(id, scope, tctx, cel, excluded, narrow) ==
    [id |-> id, scope |-> scope, tctx |-> tctx, cel |-> cel,
     excluded |-> {[path |-> p, method |-> get] : p \in excluded}, narrow |-> narrow]

(* Broken expressions: one that would deny alice, beside constraints that   *)
(* hold, and one beside an expression that denies bob.                      *)
ReadRule == Rule(2, <<"read">>, {}, {[compiles |-> FALSE, denies |-> {alice}]}, {}, TRUE)
WriteRule == Rule(1, <<"write">>, {user}, {[compiles |-> TRUE, denies |-> {bob}]}, {Health}, FALSE)
FieldRule == Rule(3, <<>>, {user}, {[compiles |-> FALSE, denies |-> {}],
                                    [compiles |-> TRUE, denies |-> {bob}]}, {Docs}, FALSE)

MCRuleSets == {{}, {ReadRule}, {ReadRule, WriteRule}, {FieldRule}}

=============================================================================
