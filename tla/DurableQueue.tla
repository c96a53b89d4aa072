---------------------------- MODULE DurableQueue ----------------------------
(***************************************************************************)
(* The SQLite goal table of persistence/durable_queue.py.                  *)
(*                                                                         *)
(* One action per SQL statement: every method opens its own connection, so *)
(* a method that SELECTs and then UPDATEs can be interleaved with another  *)
(* method between the two.  The caller keeps what it read; the operators   *)
(* that write take it as a parameter.  UPDATE and COMMIT are one step,     *)
(* because SQLite shows nothing of a transaction before its commit and     *)
(* makes other writers wait.                                               *)
(*                                                                         *)
(* Timestamps are abstracted to what the queries compare them with: sched  *)
(* is scheduled_at (NULL, in the future, not in the future) and old is     *)
(* started_at < now - stale_seconds.  Payload, workspace, provider, model, *)
(* parent, error and summary columns are left out: no query that writes    *)
(* depends on them (the daemon dequeues without a workspace).              *)
(***************************************************************************)
EXTENDS Naturals, FiniteSets

CONSTANTS
    Goal,        \* goal ids that may ever be enqueued
    Run,         \* request ids that submit_run may ever hand out
    NoRun,       \* the NULL of the request_id column
    MaxRetries,  \* max_retries given to enqueue, per goal
    Priority     \* priority given to enqueue, per goal: lower goes first

ASSUME FiniteAssumption == IsFiniteSet(Goal) /\ IsFiniteSet(Run)
ASSUME NoRunAssumption == NoRun \notin Run
ASSUME MaxRetriesAssumption == MaxRetries \in [Goal -> Nat]
ASSUME PriorityAssumption == Priority \in [Goal -> Nat]

VARIABLE row     \* goal_queue: the table, by primary key

GOAL_STATUSES ==
    {"queued", "running", "completed", "failed", "cancelled", "deferred", "retrying"}
Settled == {"completed", "failed", "cancelled"}

\* "absent" stands for a key with no row.
Row == [status  : GOAL_STATUSES \cup {"absent"},
        attempt : Nat,
        sched   : {"null", "later", "due"},
        old     : BOOLEAN,
        request : Run \cup {NoRun},
        created : Nat]

NoRow == [status |-> "absent", attempt |-> 0, sched |-> "null", old |-> FALSE,
          request |-> NoRun, created |-> 0]

QueueInit == row = [g \in Goal |-> NoRow]

Stored == {g \in Goal : row[g].status # "absent"}

----------------------------------------------------------------------------
(* enqueue *)

Enqueue(g, scheduled) ==
    /\ g \notin Stored
    /\ row' = [row EXCEPT ![g] =
                 [NoRow EXCEPT !.status  = IF scheduled THEN "deferred" ELSE "queued",
                               !.sched   = IF scheduled THEN "later" ELSE "null",
                               !.created = Cardinality(Stored)]]

----------------------------------------------------------------------------
(* dequeue: the SELECT picks a row, the UPDATE takes it by key alone. *)

Dequeueable ==
    {g \in Goal : row[g].status \in {"queued", "retrying"} /\ row[g].sched # "later"}

OrderedBefore(g, h) ==
    \/ Priority[g] < Priority[h]
    \/ Priority[g] = Priority[h] /\ row[g].created < row[h].created

Selected(g) ==
    /\ g \in Dequeueable
    /\ \A h \in Dequeueable \ {g} : OrderedBefore(g, h)

\* Mutants of Claim: the attempt is not counted; the status is one no query knows.
ClaimUncounted(g) == row' = [row EXCEPT ![g].status = "running", ![g].old = FALSE]
ClaimMisnamed(g) ==
    row' = [row EXCEPT ![g].status = "claimed", ![g].old = FALSE, ![g].attempt = @ + 1]

Claim(g) ==
    row' = [row EXCEPT ![g].status  = "running",
                       ![g].old     = FALSE,
                       ![g].attempt = @ + 1]

----------------------------------------------------------------------------
(* mark_running, mark_completed, mark_cancelled: UPDATEs with no condition on the status. *)

MarkRunning(g, r) ==
    row' = [row EXCEPT ![g].status = "running", ![g].request = r]

MarkCompleted(g) == row' = [row EXCEPT ![g].status = "completed"]

MarkCancelled(g) == row' = [row EXCEPT ![g].status = "cancelled"]

----------------------------------------------------------------------------
(* mark_failed and recover_stale_running decide on the attempt they have read. *)

\* Mutants of Judged: one retry too many; one too few.
JudgedGenerous(g, attemptRead) ==
    IF attemptRead <= MaxRetries[g]
    THEN [row[g] EXCEPT !.status = "retrying", !.sched = "later"]
    ELSE [row[g] EXCEPT !.status = "failed"]
JudgedStrict(g, attemptRead) ==
    IF attemptRead + 1 < MaxRetries[g]
    THEN [row[g] EXCEPT !.status = "retrying", !.sched = "later"]
    ELSE [row[g] EXCEPT !.status = "failed"]

Judged(g, attemptRead) ==
    IF attemptRead < MaxRetries[g]
    THEN [row[g] EXCEPT !.status = "retrying", !.sched = "later"]
    ELSE [row[g] EXCEPT !.status = "failed"]

MarkFailed(g, attemptRead) == row' = [row EXCEPT ![g] = Judged(g, attemptRead)]

StaleRunning == {g \in Goal : row[g].status = "running" /\ row[g].old}

RecoverStaleRunning(stale, attemptRead) ==
    row' = [g \in Goal |-> IF g \in stale THEN Judged(g, attemptRead[g]) ELSE row[g]]

----------------------------------------------------------------------------
(* promote_deferred: one UPDATE over every due row. *)

\* Mutant of Promotable: scheduled goals are forgotten.
PromotableRetryOnly(g) == row[g].status = "retrying" /\ row[g].sched = "due"

Promotable(g) == row[g].status \in {"deferred", "retrying"} /\ row[g].sched = "due"

PromoteDeferred ==
    row' = [g \in Goal |-> IF Promotable(g) THEN [row[g] EXCEPT !.status = "queued"]
                                            ELSE row[g]]

----------------------------------------------------------------------------
(* The clock: scheduled_at falls due, started_at passes the stale threshold. *)

FallDue(g) ==
    /\ row[g].sched = "later"
    /\ row' = [row EXCEPT ![g].sched = "due"]

GrowOld(g) ==
    /\ row[g].status = "running"
    /\ ~row[g].old
    /\ row' = [row EXCEPT ![g].old = TRUE]
=============================================================================
