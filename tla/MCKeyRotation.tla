---------------------------- MODULE MCKeyRotation ----------------------------
(* Small instances of KeyRotation.                                         *)
EXTENDS KeyRotation, TLC

CONSTANTS c1, c2, s1

MCCallers == {c1, c2}
MCSigners == {s1}
MCSymmetry == Permutations(MCCallers)

=============================================================================
