-------------------------- MODULE MCSkillRegistry --------------------------
(* Instance of SkillRegistry for TLC.                                       *)
EXTENDS SkillRegistry, TLC

CONSTANTS w1, w2, v1, v2, v3, v4, r1, r2

Symmetric == Permutations({w1, w2}) \cup Permutations({v1, v2, v3}) \cup Permutations({r1, r2})
=============================================================================
