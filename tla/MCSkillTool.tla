----------------------------- MODULE MCSkillTool -----------------------------
(* Small instances of SkillTool: two calls, codes of which one fails its tests.                   *)
EXTENDS SkillTool, TLC

CONSTANTS k1, k2

MCSymmetry == Permutations({k1, k2})
=============================================================================
