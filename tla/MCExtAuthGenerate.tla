-------------------------- MODULE MCExtAuthGenerate --------------------------
(* A small instance of ExtAuthGenerate.                                    *)
EXTENDS ExtAuthGenerate, TLC

CONSTANTS c1, p1, p2, ip1, alice, sa1, sa2, get, user

MCCalls == {c1}
MCPods == {p1, p2}
MCIPs == {ip1}
MCAccount == (p1 :> sa1) @@ (p2 :> sa2)

Rule(path, scope, required) ==
    [method |-> get, path |-> path, scope |-> scope, required |-> required, optional |-> {}]
Exact == Rule(<<"data", "x">>, "read", {})
AnyData == Rule(<<"data", Wildcard>>, "write", {user})

MCRuleSets == {{Exact, AnyData}, {Exact}}

Request(path, bearer, principal, sourceIP, fields) ==
    [method |-> get, path |-> path, bearer |-> bearer, principal |-> principal,
     sourceIP |-> sourceIP, fields |-> fields]
MCRequests ==
    {Request(<<"data", "x">>, None, None, ip1, {user}),
     Request(<<"data", "y">>, alice, None, ip1, {}),
     Request(<<"data", "x">>, None, [account |-> sa1], None, {})}

=============================================================================
