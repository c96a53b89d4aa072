------------------------------ MODULE TaskGraph ------------------------------
(***************************************************************************)
(* TaskGraphScheduler of core/task_graph.py: which tasks of a run may be   *)
(* started next, as functions of the tasks' statuses.                      *)
(*                                                                         *)
(* Tasks are the dicts handed to the scheduler; the metadata it reads is   *)
(* constant.  A task counts as speculative by its own flag (its            *)
(* execution_strategy says the same).                                      *)
(***************************************************************************)
EXTENDS Naturals, FiniteSets

CONSTANTS
    Task,
    Deps,         \* depends_on
    SortPlace,    \* place after sorting by speculation, priority and id
    Group,        \* branch_group or alternative_group
    NoGroup,
    Speculative,
    Mutating,     \* _mutates_state
    MaxParallel

ASSUME TaskAssumption == IsFiniteSet(Task)
ASSUME DepsAssumption == Deps \in [Task -> SUBSET Task]
ASSUME SortPlaceAssumption ==
    /\ SortPlace \in [Task -> Nat]
    /\ \A t, u \in Task : SortPlace[t] = SortPlace[u] => t = u
ASSUME GraphAssumption ==
    /\ Speculative \subseteq Task /\ Mutating \subseteq Task
    /\ MaxParallel \in Nat \ {0}

\* validate: a graph with a cycle is refused.
ASSUME AcyclicAssumption ==
    \E depth \in [Task -> 0 .. Cardinality(Task)] :
        \A t \in Task : \A d \in Deps[t] : depth[d] < depth[t]

SUCCESS_STATUSES == {"completed", "partial"}
TERMINAL_STATUSES == SUCCESS_STATUSES \cup {"failed", "blocked", "cancelled", "rejected", "skipped"}
\* Mutant of RUNNABLE_STATUSES: what was running when the backend died is run again.
RunnableAgain == {"pending", "approved", "retry_scheduled", "running"}

RUNNABLE_STATUSES == {"pending", "approved", "retry_scheduled"}
FAILING_STATUSES == {"failed", "blocked", "cancelled", "rejected"}
TaskStatus == TERMINAL_STATUSES \cup RUNNABLE_STATUSES
              \cup {"running", "waiting_approval", "needs_input"}

\* Mutant of Skipped: a partial result does not settle the group.
SkippedOnCompletion(st) ==
    {t \in Task :
        /\ st[t] \in RUNNABLE_STATUSES
        /\ Group[t] # NoGroup
        /\ \E winner \in Task \ {t} : Group[winner] = Group[t] /\ st[winner] = "completed"}

\* resolve_alternative_branches
Skipped(st) ==
    {t \in Task :
        /\ st[t] \in RUNNABLE_STATUSES
        /\ Group[t] # NoGroup
        /\ \E winner \in Task \ {t} : Group[winner] = Group[t] /\ st[winner] \in SUCCESS_STATUSES}

\* Mutant of HasFailedDep: a dependency that has not succeeded yet counts as failed.
HasUnfinishedDep(st, blocked, t) ==
    \E d \in Deps[t] : st[d] \notin SUCCESS_STATUSES \/ d \in blocked

\* mark_blocked_by_failed_dependencies.  One call makes one pass in list order; every query of the
\* scheduler makes that call, several before each batch, so blocking has spread along the
\* dependencies by the time a batch is chosen (and what it has not reached is not ready either).
HasFailedDep(st, blocked, t) ==
    \E d \in Deps[t] : st[d] \in FAILING_STATUSES \/ d \in blocked

Blocked(st, skipped) ==
    LET open   == {t \in Task : st[t] \in RUNNABLE_STATUSES /\ t \notin skipped \cup Speculative}
        closed == {b \in SUBSET open : \A t \in open : HasFailedDep(st, b, t) => t \in b}
    IN {t \in open : \A b \in closed : t \in b}

\* The two together, as every query of the scheduler begins.
Settle(st) ==
    LET skipped == Skipped(st)
        blocked == Blocked(st, skipped)
    IN [t \in Task |-> CASE t \in skipped -> "skipped"
                        [] t \in blocked -> "blocked"
                        [] OTHER        -> st[t]]

\* _is_ready
MayPrecedeDeps(t) == t \in Speculative \ Mutating

\* Mutant of Ready: a dependency need only be over.
ReadyAfterEnd(st) ==
    {t \in Task : /\ st[t] \in RUNNABLE_STATUSES
                  /\ MayPrecedeDeps(t) \/ \A d \in Deps[t] : st[d] \in TERMINAL_STATUSES}

Ready(st) ==
    {t \in Task : /\ st[t] \in RUNNABLE_STATUSES
                  /\ MayPrecedeDeps(t) \/ \A d \in Deps[t] : st[d] \in SUCCESS_STATUSES}

\* Mutant of NextBatch: the tasks that want to be alone are not kept out of a shared batch.
NextBatchMixed(st, gated) ==
    LET first == {t \in Ready(st) : \A u \in Ready(st) : SortPlace[t] <= SortPlace[u]}
    IN IF first \subseteq Mutating \cup gated
       THEN first
       ELSE {t \in Ready(st) :
               Cardinality({u \in Ready(st) : SortPlace[u] < SortPlace[t]}) < MaxParallel}

\* next_batch, on settled statuses: gated are the tasks with requires_approval.
NextBatch(st, gated) ==
    LET alone  == Mutating \cup gated
        first  == {t \in Ready(st) : \A u \in Ready(st) : SortPlace[t] <= SortPlace[u]}
        shared == Ready(st) \ alone
    IN IF first \subseteq alone
       THEN first
       ELSE {t \in shared :
               Cardinality({u \in shared : SortPlace[u] < SortPlace[t]}) < MaxParallel}
=============================================================================
