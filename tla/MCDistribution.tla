---------------------------- MODULE MCDistribution ---------------------------
(* Small instances of Distribution.                                        *)
EXTENDS Distribution, TLC

CONSTANTS t1, t2, s1, s2, p1, ns1, ns2

MCObjects == {t1, t2, s1, s2, p1}
MCKindOf ==
    [o \in MCObjects |-> CASE o \in {t1, t2} -> "TransactionType"
                          [] o \in {s1, s2} -> "ServiceTokenRequirement"
                          [] o = p1 -> "TokenPolicy"]
MCScopes == {{t1, p1}, {t1, t2}, {s1, s2}, {t2}, {p1}}
MCFollowed ==
    [s \in MCScopes |-> CASE s \in {{t1, p1}, {t1, t2}} -> {None}
                         [] s = {s1, s2} -> {"ServiceTokenRequirement"}
                         [] s = {t2} -> {"TransactionType"}
                         [] s = {p1} -> {"TokenPolicy"}]

TT(ns, life) == [ns |-> ns, life |-> life, fields |-> {}, enrichers |-> {}]
Policy(targets, max, rules) ==
    [targets |-> targets, max |-> max, mandatory |-> {}, disallowed |-> {}, rules |-> rules]
CEL(name, compiles) == [name |-> name, compiles |-> compiles]

Requirement(rules) == [rules |-> rules]
MCPolicy == Policy({ns1}, 10, {CEL("a", TRUE), CEL("b", FALSE)})

MCSpecs ==
    [o \in MCObjects |-> CASE o = t1 -> {TT(ns1, Unset), TT(ns1, 30)}
                          [] o = t2 -> {TT(ns2, 30)}
                          [] o = s1 -> {Requirement({CEL("a", TRUE), CEL("b", FALSE)})}
                          [] o = s2 -> {Requirement({CEL("a", TRUE)})}
                          [] o = p1 -> {MCPolicy}]

MCInitialStore ==
    [o \in MCObjects |-> CASE o = t1 -> TT(ns1, Unset)
                          [] o = t2 -> TT(ns2, 30)
                          [] o = s1 -> Requirement({CEL("a", TRUE), CEL("b", FALSE)})
                          [] o = s2 -> None
                          [] o = p1 -> MCPolicy]

=============================================================================
