---------------------------- MODULE GoalContract ----------------------------
(***************************************************************************)
(* What a client of the goal queue may rely on, whatever the daemon, the   *)
(* runs and the restarts behind it do: POST /goals accepts a goal,         *)
(* GET /goals/{id} shows its status and its attempt, and the runs that are *)
(* started for it can be counted.                                          *)
(*                                                                         *)
(* A verdict is not final: a goal that was settled may be opened again, by *)
(* an UPDATE that has no condition on the status.  What every verdict has  *)
(* is a reason, and every run has an attempt that pays for it.             *)
(***************************************************************************)
EXTENDS Naturals

CONSTANTS
    Goal,
    MaxRetries   \* per goal

VARIABLES
    verdict,     \* what the client reads
    attempts,    \* how many executions the queue has counted
    runs         \* how many were really started

contract == <<verdict, attempts, runs>>

Verdict == {"none", "open", "completed", "failed", "cancelled"}

Init ==
    /\ verdict = [g \in Goal |-> "none"]
    /\ attempts = [g \in Goal |-> 0]
    /\ runs = [g \in Goal |-> 0]

Accept(g) ==
    /\ verdict[g] = "none"
    /\ verdict' = [verdict EXCEPT ![g] = "open"]
    /\ UNCHANGED <<attempts, runs>>

Attempt(g) ==
    /\ verdict[g] # "none"
    /\ verdict' = [verdict EXCEPT ![g] = "open"]
    /\ attempts' = [attempts EXCEPT ![g] = @ + 1]
    /\ UNCHANGED runs

Start(g) ==
    /\ runs[g] < attempts[g]
    /\ runs' = [runs EXCEPT ![g] = @ + 1]
    /\ UNCHANGED <<verdict, attempts>>

\* The reason a verdict must have.
Justified(g, v) ==
    /\ v # "none"
    /\ v = "completed" => runs[g] > 0
    /\ v = "failed" => attempts[g] >= MaxRetries[g]

\* Verdicts on any number of goals, because stale goals are judged in one transaction.
Judge ==
    /\ verdict' \in [Goal -> Verdict]
    /\ \A g \in Goal : verdict'[g] = verdict[g] \/ (verdict[g] # "none" /\ Justified(g, verdict'[g]))
    /\ UNCHANGED <<attempts, runs>>

Next ==
    \/ \E g \in Goal : Accept(g) \/ Attempt(g) \/ Start(g)
    \/ Judge

Spec == Init /\ [][Next]_contract
=============================================================================
