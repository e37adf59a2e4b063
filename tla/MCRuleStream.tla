---------------------------- MODULE MCRuleStream ----------------------------
(* Instances of RuleStream for TLC.                                        *)
EXTENDS RuleStream, TLC

\* Generation and verification rules are removed one by one.
ByKey == [k \in Keys |-> k]

\* Issuance rules are removed by policy: one policy has a single rule, the
\* other has the rest.
ByPolicy ==
    LET k1 == CHOOSE k \in Keys : TRUE
        p1 == CHOOSE r \in Refs : TRUE
        p2 == CHOOSE r \in Refs : r # p1
    IN  [k \in Keys |-> IF k = k1 THEN p1 ELSE p2]

=============================================================================
