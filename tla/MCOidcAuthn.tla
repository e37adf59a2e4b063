----------------------------- MODULE MCOidcAuthn -----------------------------
(* A small instance of OidcAuthn.                                          *)
EXTENDS OidcAuthn, TLC

CONSTANTS c1, c2, idp, partner, foreign, k1, k2, k3, tts, other, user, robot, guest, late

MCCalls == {c1, c2}
MCSymmetry == Permutations(MCCalls)
MCClasses == {user, robot, guest, late}

(* One issuer with an expression for the subject, which is no string for a  *)
(* robot and fails for a guest; one whose discovery URL leads to the        *)
(* other's document; and one that nothing is configured for.                *)
ForIdp ==
    [issuer |-> idp, doc |-> idp, audiences |-> {tts},
     rules |-> {[x \in MCClasses |-> IF x = late THEN "error" ELSE "true"]},
     claim |-> FALSE, expression |-> TRUE,
     subject |-> [x \in MCClasses |-> CASE x = robot -> "other" [] x = guest -> "error" [] OTHER -> "value"],
     extra |-> {[x \in MCClasses |-> "other"]}]
ForPartner ==
    [issuer |-> partner, doc |-> idp, audiences |-> {tts}, rules |-> {},
     claim |-> TRUE, expression |-> FALSE,
     subject |-> [x \in MCClasses |-> "value"], extra |-> {}]
MCConfig == <<ForIdp, ForPartner>>

MCPayloads == [aud : {{tts}, {other}}, cls : {user}] \cup [aud : {{tts, other}}, cls : {robot, guest, late}]
MCUnserved == {[kid |-> k1, mat |-> 0]}

=============================================================================
