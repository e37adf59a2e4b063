---------------------------- MODULE MCRuleClient ----------------------------
(* Small instances of RuleClient.                                          *)
EXTENDS RuleClient, TLC

CONSTANTS c1, c2

MCSlots == {c1, c2}

=============================================================================
