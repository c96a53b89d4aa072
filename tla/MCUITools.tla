----------------------------- MODULE MCUITools -----------------------------
(* Small instances of UITools: two calls that take the lock, two processes, one of them watched.  *)
EXTENDS UITools, TLC

CONSTANTS c1, c2, p1, p2, loop, tool

MCTarget == c1 :> p1 @@ c2 :> p2
MCSymmetry == Permutations(Checker)
=============================================================================
