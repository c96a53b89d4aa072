----------------------------- MODULE GoalDaemon -----------------------------
(***************************************************************************)
(* The goal daemon of core/runtime_manager.py over the durable queue: the  *)
(* daemon tick, the runs it starts for goals, cancel_goal and cancel_run,  *)
(* and a crash followed by a restart.                                      *)
(*                                                                         *)
(* Everything runs in one asyncio loop, so a step of this module is the    *)
(* code between two awaits.  A run is seen only through what the queue     *)
(* depends on (RunLifecycle models the run itself):                        *)
(*   live        planning, running or resuming: the daemon counts it       *)
(*   parked      its pipeline waits, uncounted: queued, recovering,        *)
(*               awaiting_approval                                         *)
(*   paused      it has no pipeline: paused, awaiting_input, rehydrated    *)
(*   cancelling  a cancel is on its way to a pipeline that runs            *)
(*   stranded    cancelled where no pipeline is left to notice             *)
(*   completing  status completed, mark_completed not yet done             *)
(*   failing     status failed, mark_failed has not yet read the row       *)
(*   judging     status failed, mark_failed has read the row               *)
(*   completed, failed, cancelled   nothing is left to do                  *)
(***************************************************************************)
EXTENDS DurableQueue

CONSTANTS
    Canceller,      \* clients that may call cancel_goal or cancel_run
    NoGoal,
    MaxConcurrent,  \* max_concurrent in _process_goal_queue
    MaxParks,       \* bound: how often one run leaves the counted statuses
    MaxCrashes      \* bound: how often the backend is restarted

ASSUME NoGoalAssumption == NoGoal \notin Goal
ASSUME BoundsAssumption == MaxConcurrent \in Nat /\ MaxParks \in Nat /\ MaxCrashes \in Nat

VARIABLES
    run,      \* the runs started for goals
    daemon,   \* where the daemon tick stands and what it has read
    cancel,   \* the same for each canceller
    crashes,  \* restarts so far
    torn      \* history: goals on which mark_failed has written a verdict about an attempt that
              \* was no longer the row's

vars == <<row, run, daemon, cancel, crashes, torn>>

RunPhase == {"unused", "live", "parked", "paused", "cancelling", "stranded",
             "completing", "completed", "failing", "judging", "failed", "cancelled"}
RunRecord == [phase : RunPhase, goal : Goal \cup {NoGoal}, attemptRead : Nat, parks : Nat]

DaemonPC == {"promote", "select", "recover", "resume", "count", "dequeue", "claim",
             "submit", "mark", "fail", "judge"}
DaemonRecord == [pc : DaemonPC, goal : Goal \cup {NoGoal}, run : Run \cup {NoRun},
                 slots : Nat, stale : SUBSET Goal, attemptRead : [Goal -> Nat]]

CancelPC == {"idle", "request", "deliver", "write"}
CancelRecord == [pc : CancelPC, goal : Goal \cup {NoGoal}, run : Run \cup {NoRun}]

AsleepDaemon == [pc |-> "promote", goal |-> NoGoal, run |-> NoRun, slots |-> 0,
                 stale |-> {}, attemptRead |-> [g \in Goal |-> 0]]
IdleCancel == [pc |-> "idle", goal |-> NoGoal, run |-> NoRun]

Init ==
    /\ QueueInit
    /\ run = [r \in Run |-> [phase |-> "unused", goal |-> NoGoal,
                             attemptRead |-> 0, parks |-> 0]]
    /\ daemon = AsleepDaemon
    /\ cancel = [c \in Canceller |-> IdleCancel]
    /\ crashes = 0
    /\ torn = {}

\* What the history gains when a verdict about attemptRead is written on g.
Torn(g, attemptRead) == IF attemptRead = row[g].attempt THEN {} ELSE {g}

Counted == {r \in Run : run[r].phase = "live"}
RunsOf(g) == {r \in Run : run[r].goal = g}

----------------------------------------------------------------------------
(* Clients *)

EnqueueGoal(g) ==
    /\ \E scheduled \in BOOLEAN : Enqueue(g, scheduled)
    /\ UNCHANGED <<run, daemon, cancel, crashes, torn>>

CancelGoalRead(c, g) ==
    /\ cancel[c].pc = "idle"
    /\ g \in Stored
    /\ row[g].status \notin Settled
    /\ cancel' = [cancel EXCEPT ![c] =
                    [pc   |-> IF row[g].request = NoRun THEN "write" ELSE "request",
                     goal |-> g,
                     run  |-> row[g].request]]
    /\ UNCHANGED <<row, run, daemon, crashes, torn>>

\* What is left to do may be noticed by a pipeline, or there is none.
WithPipeline == {"live", "parked", "cancelling"}
WithoutPipeline == {"paused", "stranded"}
Cancelling(phase) == IF phase \in WithPipeline THEN "cancelling" ELSE "stranded"

\* cancel_run called for the run itself: no goal is read or written.
CancelRunCall(c, r) ==
    /\ cancel[c].pc = "idle"
    /\ run[r].phase \in WithPipeline \cup WithoutPipeline
    /\ cancel' = [cancel EXCEPT ![c] = [pc |-> "deliver", goal |-> NoGoal, run |-> r]]
    /\ run' = [run EXCEPT ![r].phase = Cancelling(@)]
    /\ UNCHANGED <<row, daemon, crashes, torn>>

\* The first half of cancel_run inside cancel_goal: a terminal run is left alone.
CancelRunRequest(c) ==
    LET r == cancel[c].run
        open == run[r].phase \in WithPipeline \cup WithoutPipeline
    IN /\ cancel[c].pc = "request"
       /\ cancel' = [cancel EXCEPT ![c].pc = IF open THEN "deliver" ELSE "write"]
       /\ run' = IF open THEN [run EXCEPT ![r].phase = Cancelling(@)] ELSE run
       /\ UNCHANGED <<row, daemon, crashes, torn>>

\* The second half, after its awaits: task.cancel() reaches whatever the pipeline is at now.
CancelDeliver(c) ==
    LET r == cancel[c].run
        pipelineRuns == run[r].phase \in WithPipeline \cup {"completing", "failing", "judging"}
    IN /\ cancel[c].pc = "deliver"
       /\ run' = IF pipelineRuns THEN [run EXCEPT ![r].phase = "cancelled"] ELSE run
       /\ cancel' = [cancel EXCEPT ![c] =
                       IF @.goal = NoGoal THEN IdleCancel ELSE [@ EXCEPT !.pc = "write"]]
       /\ UNCHANGED <<row, daemon, crashes, torn>>

CancelGoalWrite(c) ==
    /\ cancel[c].pc = "write"
    /\ MarkCancelled(cancel[c].goal)
    /\ cancel' = [cancel EXCEPT ![c] = IdleCancel]
    /\ UNCHANGED <<run, daemon, crashes, torn>>

----------------------------------------------------------------------------
(* The daemon tick *)

DaemonGoes(from, to) == daemon.pc = from /\ daemon' = [daemon EXCEPT !.pc = to]

DaemonPromote ==
    /\ DaemonGoes("promote", "select")
    /\ PromoteDeferred
    /\ UNCHANGED <<run, cancel, crashes, torn>>

DaemonSelectStale ==
    /\ daemon.pc = "select"
    /\ daemon' = [daemon EXCEPT !.pc = IF StaleRunning = {} THEN "resume" ELSE "recover",
                                !.stale = StaleRunning,
                                !.attemptRead = [g \in Goal |-> IF g \in StaleRunning
                                                                THEN row[g].attempt ELSE 0]]
    /\ UNCHANGED <<row, run, cancel, crashes, torn>>

DaemonRecoverStale ==
    /\ daemon.pc = "recover"
    /\ RecoverStaleRunning(daemon.stale, daemon.attemptRead)
    /\ daemon' = [AsleepDaemon EXCEPT !.pc = "resume"]
    /\ UNCHANGED <<run, cancel, crashes, torn>>

\* A run is resumed as what it was; one that was cancelled resumes with its cancel event still set.
Resumed(phase) == IF phase = "stranded" THEN "cancelling" ELSE "live"

\* _resume_checkpointed_jobs: of the runs without a pipeline, those that left a checkpoint.
DaemonResume ==
    /\ DaemonGoes("resume", "count")
    /\ \E resumed \in SUBSET {r \in Run : run[r].phase \in WithoutPipeline} :
         run' = [r \in Run |-> IF r \in resumed THEN [run[r] EXCEPT !.phase = Resumed(@)]
                                                ELSE run[r]]
    /\ UNCHANGED <<row, cancel, crashes, torn>>

DaemonCount ==
    /\ daemon.pc = "count"
    /\ daemon' = [daemon EXCEPT !.pc = "dequeue", !.slots = Cardinality(Counted)]
    /\ UNCHANGED <<row, run, cancel, crashes, torn>>

DaemonDequeue ==
    /\ daemon.pc = "dequeue"
    /\ IF daemon.slots < MaxConcurrent /\ Dequeueable # {}
       THEN \E g \in Goal : Selected(g)
                            /\ daemon' = [daemon EXCEPT !.pc = "claim", !.goal = g]
       ELSE daemon' = AsleepDaemon
    /\ UNCHANGED <<row, run, cancel, crashes, torn>>

DaemonClaim ==
    /\ DaemonGoes("claim", "submit")
    /\ Claim(daemon.goal)
    /\ UNCHANGED <<run, cancel, crashes, torn>>

\* submit_run creates the task, and goal_id is set before the task first runs.
DaemonSubmit(r) ==
    /\ daemon.pc = "submit"
    /\ run[r].phase = "unused"
    /\ daemon' = [daemon EXCEPT !.pc = "mark", !.run = r]
    /\ run' = [run EXCEPT ![r].phase = "live", ![r].goal = daemon.goal]
    /\ UNCHANGED <<row, cancel, crashes, torn>>

DaemonMark ==
    /\ daemon.pc = "mark"
    /\ MarkRunning(daemon.goal, daemon.run)
    /\ daemon' = [daemon EXCEPT !.pc = "dequeue", !.slots = @ + 1,
                                !.goal = NoGoal, !.run = NoRun]
    /\ UNCHANGED <<run, cancel, crashes, torn>>

\* Starting the run or mark_running raises: the handler calls mark_failed.
DaemonStartRaises ==
    /\ daemon.pc \in {"submit", "mark"}
    /\ daemon' = [daemon EXCEPT !.pc = "fail", !.run = NoRun]
    /\ UNCHANGED <<row, run, cancel, crashes, torn>>

DaemonFailRead ==
    /\ daemon.pc = "fail"
    /\ daemon' = [daemon EXCEPT !.pc = "judge",
                                !.attemptRead[daemon.goal] = row[daemon.goal].attempt]
    /\ UNCHANGED <<row, run, cancel, crashes, torn>>

DaemonFailWrite ==
    /\ daemon.pc = "judge"
    /\ MarkFailed(daemon.goal, daemon.attemptRead[daemon.goal])
    /\ torn' = torn \cup Torn(daemon.goal, daemon.attemptRead[daemon.goal])
    /\ daemon' = [daemon EXCEPT !.pc = "dequeue", !.goal = NoGoal,
                                !.attemptRead[daemon.goal] = 0]
    /\ UNCHANGED <<run, cancel, crashes>>

DaemonStep ==
    \/ DaemonPromote \/ DaemonSelectStale \/ DaemonRecoverStale \/ DaemonResume
    \/ DaemonCount \/ DaemonDequeue \/ DaemonClaim \/ DaemonMark
    \/ DaemonStartRaises \/ DaemonFailRead \/ DaemonFailWrite
    \/ \E r \in Run : DaemonSubmit(r)

----------------------------------------------------------------------------
(* Runs, as far as the queue sees them *)

RunGoes(r, from, to) == run[r].phase \in from /\ run' = [run EXCEPT ![r].phase = to]

\* The pipeline waits or ends at a question to the user, also when a cancel is on its way.
RunParks(r) ==
    /\ run[r].parks < MaxParks
    /\ \E rest \in {"parked", "paused", "stranded"} :
         /\ run[r].phase = IF rest = "stranded" THEN "cancelling" ELSE "live"
         /\ run' = [run EXCEPT ![r].phase = rest, ![r].parks = @ + 1]
    /\ UNCHANGED <<row, daemon, cancel, crashes, torn>>

\* An approval or the end of a retry delay; resume_run, after a reply where one is due.
RunContinues(r) ==
    /\ \/ RunGoes(r, {"parked"}, "live")
       \/ run[r].phase \in WithoutPipeline /\ RunGoes(r, {run[r].phase}, Resumed(run[r].phase))
    /\ UNCHANGED <<row, daemon, cancel, crashes, torn>>

\* _complete_run and _fail_run set the status before anything else, also over "cancelling".
RunCompletes(r) ==
    /\ RunGoes(r, {"live", "cancelling"}, "completing")
    /\ UNCHANGED <<row, daemon, cancel, crashes, torn>>

RunFails(r) ==
    /\ RunGoes(r, {"live", "cancelling"}, "failing")
    /\ UNCHANGED <<row, daemon, cancel, crashes, torn>>

\* The pipeline notices the cancel event: _mark_run_cancelled leaves the goal as it is.
RunStops(r) ==
    /\ RunGoes(r, {"cancelling"}, "cancelled")
    /\ UNCHANGED <<row, daemon, cancel, crashes, torn>>

\* _finalize_goal_for_run
RunMarksCompleted(r) ==
    /\ RunGoes(r, {"completing"}, "completed")
    /\ MarkCompleted(run[r].goal)
    /\ UNCHANGED <<daemon, cancel, crashes, torn>>

RunReadsGoal(r) ==
    /\ run[r].phase = "failing"
    /\ run' = [run EXCEPT ![r].phase = "judging",
                          ![r].attemptRead = row[run[r].goal].attempt]
    /\ UNCHANGED <<row, daemon, cancel, crashes, torn>>

\* Mutant of RunMarksFailed: the goal is finalized as completed whatever became of the run.
RunMarksAnyCompleted(r) ==
    /\ RunGoes(r, {"judging"}, "failed")
    /\ MarkCompleted(run[r].goal)
    /\ UNCHANGED <<daemon, cancel, crashes, torn>>

RunMarksFailed(r) ==
    /\ run[r].phase = "judging"
    /\ MarkFailed(run[r].goal, run[r].attemptRead)
    /\ torn' = torn \cup Torn(run[r].goal, run[r].attemptRead)
    /\ run' = [run EXCEPT ![r].phase = "failed", ![r].attemptRead = 0]
    /\ UNCHANGED <<daemon, cancel, crashes>>

RunProceeds(r) ==
    \/ RunParks(r) \/ RunCompletes(r) \/ RunFails(r) \/ RunStops(r)
    \/ RunMarksCompleted(r) \/ RunReadsGoal(r) \/ RunMarksFailed(r)

----------------------------------------------------------------------------
(* The clock, and a crash followed by rehydrate_runs and start_daemon *)

Clock(g) ==
    /\ FallDue(g) \/ GrowOld(g)
    /\ UNCHANGED <<run, daemon, cancel, crashes, torn>>

\* rehydrate_runs: a run that was not terminal in the database comes back without a pipeline. A
\* terminal status whose save had not committed is lost with the memory.
AfterCrash(phase, saved) ==
    CASE phase \in WithPipeline \cup WithoutPipeline -> "paused"
      [] phase = "completing"             -> IF saved THEN "completed" ELSE "paused"
      [] phase \in {"failing", "judging"} -> IF saved THEN "failed" ELSE "paused"
      [] OTHER                            -> phase

Crash ==
    /\ crashes < MaxCrashes
    /\ crashes' = crashes + 1
    /\ daemon' = AsleepDaemon
    /\ cancel' = [c \in Canceller |-> IdleCancel]
    /\ \E saved \in SUBSET Run :
         run' = [r \in Run |-> [run[r] EXCEPT !.phase = AfterCrash(@, r \in saved),
                                              !.attemptRead = 0]]
    /\ UNCHANGED <<row, torn>>

----------------------------------------------------------------------------

Next ==
    \/ \E g \in Goal : EnqueueGoal(g) \/ Clock(g)
    \/ \E c \in Canceller :
         \/ \E g \in Goal : CancelGoalRead(c, g)
         \/ \E r \in Run : CancelRunCall(c, r)
         \/ CancelRunRequest(c) \/ CancelDeliver(c) \/ CancelGoalWrite(c)
    \/ DaemonStep
    \/ \E r \in Run : RunProceeds(r) \/ RunContinues(r)
    \/ Crash

\* The loop schedules every ready coroutine; a pipeline reaches its end (tools and provider
\* calls have timeouts) and the clock moves.  Nobody is assumed to answer, cancel or crash.
Fairness ==
    /\ WF_vars(DaemonStep)
    /\ \A r \in Run : WF_vars(RunProceeds(r))
    /\ \A g \in Goal : WF_vars(Clock(g))
    /\ \A c \in Canceller : WF_vars(CancelRunRequest(c) \/ CancelDeliver(c) \/ CancelGoalWrite(c))

Spec == Init /\ [][Next]_vars
FairSpec == Spec /\ Fairness

----------------------------------------------------------------------------
(* Properties *)

\* Every row, run and in-flight call has the shape the code gives it.
TypeOK ==
    /\ row \in [Goal -> Row]
    /\ run \in [Run -> RunRecord]
    /\ daemon \in DaemonRecord
    /\ cancel \in [Canceller -> CancelRecord]
    /\ crashes \in Nat
    /\ torn \in SUBSET Goal

\* A goal is never started more often than its attempt column says: the budget that mark_failed
\* and recover_stale_running compare with max_retries counts every execution of the goal, also
\* those lost to a crash, superseded as stale or never finalized after a cancel.
ExecutionsWithinAttempts ==
    \A g \in Goal : Cardinality(RunsOf(g)) <= row[g].attempt

\* No goal is executed more often than max_retries allows (once when it allows none), whatever
\* mixture of failures, stale recoveries, cancels and restarts leads to its being started again:
\* the one way to overrun the budget is the gap between the SELECT and the UPDATE of mark_failed.
Budget(g) == IF MaxRetries[g] = 0 THEN 1 ELSE MaxRetries[g]
AttemptBudget == \A g \in Goal \ torn : row[g].attempt <= Budget(g)

\* A goal is reported completed only if a run of that same goal completed.
CompletedHasWitness ==
    \A g \in Goal : row[g].status = "completed" =>
        \E r \in RunsOf(g) : run[r].phase = "completed"

\* A goal is given up as failed only when its budget is used up.
FailedIsExhausted ==
    \A g \in Goal : row[g].status = "failed" => row[g].attempt >= MaxRetries[g]

\* Every goal that is enqueued is eventually settled for good: none stays queued, deferred,
\* retrying or running forever, and none is started again and again.
GoalsSettle ==
    \A g \in Goal : (g \in Stored) ~> [](row[g].status \in Settled)

\* The daemon keeps the contract of GoalContract: a client sees a goal as open until it is
\* settled, every run of it is paid for by an attempt, and completed and failed have their reason.
VerdictOf(status) ==
    CASE status = "absent"  -> "none"
      [] status \in Settled -> status
      [] OTHER              -> "open"

Contract == INSTANCE GoalContract WITH
    verdict  <- [g \in Goal |-> VerdictOf(row[g].status)],
    attempts <- [g \in Goal |-> row[g].attempt],
    runs     <- [g \in Goal |-> Cardinality(RunsOf(g))]

KeepsContract == Contract!Spec
=============================================================================
