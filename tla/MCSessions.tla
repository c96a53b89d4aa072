------------------------------ MODULE MCSessions ------------------------------
(* Small instances of Sessions: three requests on two sessions of one workspace.          *)
EXTENDS Sessions, TLC

CONSTANTS s1, s2, c1, c2, c3

MCSymmetry == Permutations({c1, c2, c3}) \cup Permutations({s1, s2})
===============================================================================
