-------------------------- MODULE MCTaskPipeline --------------------------
(* Two alternatives that mutate state, a task that needs the second and may lack a package, and   *)
(* two readers, one of them speculative.                                                          *)
EXTENDS TaskPipeline

CONSTANTS altA, altB, use, read, guess, pip

MCDeps == [t \in Task |-> CASE t = use -> {altB, read} [] t = guess -> {use} [] OTHER -> {}]
MCSortPlace == [t \in Task |-> CASE t = read -> 1 [] t = altA -> 2 [] t = altB -> 3
                                 [] t = use -> 4 [] t = guess -> 5 [] t = pip -> 6]
MCGroup == [t \in Task |-> IF t \in {altA, altB} THEN "install" ELSE "none"]
MCVerdict == [t \in Task |-> CASE t = read -> "require_approval" [] t = guess -> "deny"
                               [] OTHER -> "allow"]
MCInstallFor == [t \in Task |-> IF t = use /\ pip \in Task THEN pip ELSE NoTask]
=============================================================================
