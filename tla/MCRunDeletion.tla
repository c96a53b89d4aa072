--------------------------- MODULE MCRunDeletion ---------------------------
(* A small instance of RunDeletion: three calls that may meet anywhere. *)
EXTENDS RunDeletion, TLC

CONSTANTS c1, c2

MCClient == {c1, c2}
MCSymmetry == Permutations(MCClient)
=============================================================================
