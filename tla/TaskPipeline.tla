---------------------------- MODULE TaskPipeline ----------------------------
(***************************************************************************)
(* The tasks of one local run: _run_local_heuristic_pipeline of            *)
(* core/runtime_manager.py, which schedules them with TaskGraph, and       *)
(* ActionExecutor.execute of core/action_executor.py, which executes each  *)
(* of them, several concurrently when a batch has several members.         *)
(*                                                                         *)
(* A step is the code of one branch between two awaits that matter.  Each  *)
(* step that changes a task saves the state before it goes on, so a crash  *)
(* leaves the statuses of the steps done; what a tool has done before its  *)
(* result is recorded is in the history variable succeeded alone.  Saves   *)
(* that overtake one another, cancel_run and repeated answers to one       *)
(* approval are the subject of RunLifecycle.                               *)
(***************************************************************************)
EXTENDS TaskGraph

CONSTANTS
    NoTask,
    Verdict,      \* the policy's verdict on each task
    InstallFor,   \* the task that would install a package the script of a task may lack, or NoTask
    MaxAttempts,  \* max_attempts
    MaxCrashes    \* bound: restarts of the backend

ASSUME NoTaskAssumption == NoTask \notin Task
ASSUME VerdictAssumption == Verdict \in [Task -> {"allow", "require_approval", "deny"}]
\* A failed task appends a task of its own.
ASSUME InstallForAssumption ==
    /\ InstallFor \in [Task -> Task \cup {NoTask}]
    /\ \A t, u \in Task : InstallFor[t] = InstallFor[u] /\ InstallFor[t] # NoTask => t = u
ASSUME BoundsAssumption == MaxAttempts \in Nat /\ MaxCrashes \in Nat

VARIABLES
    status,     \* task["status"]
    attempt,    \* task["attempt"]
    approval,   \* the approval created for each task
    result,     \* what the attempt of a branch came to
    pc,         \* where the branch of each task stands
    batch,      \* the batch being executed
    loop,       \* the pipeline: schedules, executes a batch, is over
    run,        \* state["status"]
    handoff,    \* the task pending_handoff is about
    replied,    \* history: tasks whose question was answered, not attempted since
    succeeded,  \* history: tasks whose tool has succeeded, wholly or in part, and whose success no
                \* exception has turned into a failure
    crashes     \* restarts so far

vars == <<status, attempt, approval, result, pc, batch, loop, run, handoff, replied, succeeded,
          crashes>>

Outcome == {"succeeded", "partial", "needs_input", "blocked", "error"}
RunStatus == {"running", "recovering", "awaiting_approval", "awaiting_input", "paused",
              "failed", "completed"}
BranchPC == {"idle", "enter", "wait", "start", "tool", "record", "judge", "backoff",
             "returned", "raised", "paused"}
BranchOver == {"returned", "raised", "paused"}

\* Tasks that no plan contains: a failure appends them, "absent" before that.
Installers == {InstallFor[t] : t \in Task} \ {NoTask}

Init ==
    /\ status = [t \in Task |-> IF t \in Installers THEN "absent" ELSE "pending"]
    /\ attempt = [t \in Task |-> 0]
    /\ approval = [t \in Task |-> "none"]
    /\ result = [t \in Task |-> "none"]
    /\ pc = [t \in Task |-> "idle"]
    /\ batch = {}
    /\ loop = "schedule"
    /\ run = "running"
    /\ handoff = NoTask
    /\ replied = {}
    /\ succeeded = {}
    /\ crashes = 0

----------------------------------------------------------------------------
(* The pipeline loop *)

Gated == {t \in Task : approval[t] # "none"} \cup Installers

\* Mutant of Schedule: only all_done ends the loop, an empty batch does not.
ScheduleUntilDone ==
    /\ loop = "schedule"
    /\ status' = Settle(status)
    /\ batch' = NextBatch(status', Gated)
    /\ pc' = [t \in Task |-> IF t \in batch' THEN "enter" ELSE pc[t]]
    /\ IF \A t \in Task : status'[t] \in TERMINAL_STATUSES \cup {"absent"}
       THEN loop' = "over" /\ run' = "completed"
       ELSE loop' = "execute" /\ UNCHANGED run
    /\ UNCHANGED <<attempt, approval, result, handoff, replied, succeeded, crashes>>

\* When all tasks are done no batch is left, and the loop ends for both reasons in the same way.
Schedule ==
    /\ loop = "schedule"
    /\ status' = Settle(status)
    /\ batch' = NextBatch(status', Gated)
    /\ pc' = [t \in Task |-> IF t \in batch' THEN "enter" ELSE pc[t]]
    /\ IF batch' = {} THEN loop' = "over" /\ run' = "completed"
                      ELSE loop' = "execute" /\ UNCHANGED run
    /\ UNCHANGED <<attempt, approval, result, handoff, replied, succeeded, crashes>>

\* gather waits for every branch.  A pause ends the pipeline; an exception ends it, and fails the
\* run, only when the batch had one member: _exec_branch turns it into a value otherwise.
BatchEnds ==
    LET pauses == \E t \in batch : pc[t] = "paused"
        fails  == Cardinality(batch) = 1 /\ \E t \in batch : pc[t] = "raised"
    IN /\ loop = "execute"
       /\ \A t \in batch : pc[t] \in BranchOver
       /\ loop' = IF pauses \/ fails THEN "over" ELSE "schedule"
       /\ run' = IF fails THEN "failed" ELSE run
       /\ batch' = {}
       /\ pc' = [t \in Task |-> "idle"]
       /\ UNCHANGED <<status, attempt, approval, result, handoff, replied, succeeded, crashes>>

----------------------------------------------------------------------------
(* ActionExecutor.execute, for one task of the batch *)

BranchGoes(t, from, to) == pc[t] = from /\ pc' = [pc EXCEPT ![t] = to]

SetStatus(t, value) == status' = [status EXCEPT ![t] = value]

\* _fail_run sets the status of the run while siblings may still be executing.
FailsRun(t, from, value) ==
    /\ BranchGoes(t, from, "raised")
    /\ SetStatus(t, value)
    /\ run' = "failed"

PolicyAllows(t) ==
    /\ Verdict[t] = "allow" \/ (Verdict[t] = "require_approval" /\ approval[t] = "approved")
    /\ BranchGoes(t, "enter", "start")
    /\ run' = "running"
    /\ UNCHANGED <<status, attempt, approval, result, batch, loop, handoff, replied, succeeded,
                   crashes>>

PolicyRefuses(t) ==
    /\ \/ Verdict[t] = "deny" /\ FailsRun(t, "enter", "failed")
       \/ /\ Verdict[t] = "require_approval" /\ approval[t] = "rejected"
          /\ FailsRun(t, "enter", "rejected")
    /\ UNCHANGED <<attempt, approval, result, batch, loop, handoff, replied, succeeded, crashes>>

AsksApproval(t) ==
    /\ Verdict[t] = "require_approval"
    /\ approval[t] \in {"none", "pending"}
    /\ BranchGoes(t, "enter", "wait")
    /\ SetStatus(t, "waiting_approval")
    /\ approval' = [approval EXCEPT ![t] = "pending"]
    /\ run' = "awaiting_approval"
    /\ UNCHANGED <<attempt, result, batch, loop, handoff, replied, succeeded, crashes>>

ApprovalWakes(t) ==
    /\ \/ /\ approval[t] = "approved"
          /\ BranchGoes(t, "wait", "start")
          /\ UNCHANGED <<status, run>>
       \/ approval[t] = "rejected" /\ FailsRun(t, "wait", "rejected")
    /\ UNCHANGED <<attempt, approval, result, batch, loop, handoff, replied, succeeded, crashes>>

StartsTool(t) ==
    /\ BranchGoes(t, "start", "tool")
    /\ attempt' = [attempt EXCEPT ![t] = @ + 1]
    /\ SetStatus(t, "running")
    /\ run' = "running"
    /\ replied' = replied \ {t}
    /\ UNCHANGED <<approval, result, batch, loop, handoff, succeeded, crashes>>

ToolReturns(t) ==
    /\ \E outcome \in Outcome :
         /\ BranchGoes(t, "tool", "record")
         /\ result' = [result EXCEPT ![t] = outcome]
         /\ succeeded' = IF outcome \in {"succeeded", "partial"} THEN succeeded \cup {t}
                                                                 ELSE succeeded
    /\ UNCHANGED <<status, attempt, approval, batch, loop, run, handoff, replied, crashes>>

\* Mutant of StatusFor: the outcome is taken for a task status.
StatusForUntranslated(outcome) == IF outcome = "error" THEN "failed" ELSE outcome

\* _task_status_for_action_status; an attempt that did not succeed at all raises into the handler.
StatusFor(outcome) ==
    CASE outcome = "succeeded" -> "completed"
      [] outcome = "error"     -> "failed"
      [] OTHER                 -> outcome

RecordsResult(t) ==
    /\ BranchGoes(t, "record", IF result[t] = "error" THEN "judge" ELSE "returned")
    /\ SetStatus(t, StatusFor(result[t]))
    /\ UNCHANGED <<attempt, approval, result, batch, loop, run, handoff, replied, succeeded,
                   crashes>>

\* Verification, reflection or a save raises on the way (the handlers of the first two name a
\* logger the module does not define): the attempt is judged as a failed one whatever the tool did.
RecordRaises(t) ==
    /\ BranchGoes(t, "record", "judge")
    /\ SetStatus(t, "failed")
    /\ result' = [result EXCEPT ![t] = "error"]
    /\ succeeded' = succeeded \ {t}
    /\ UNCHANGED <<attempt, approval, batch, loop, run, handoff, replied, crashes>>

\* The handler: a question to the user, a retry, or the end.
Pauses(t) ==
    /\ BranchGoes(t, "judge", "paused")
    /\ run' = "awaiting_input"
    /\ handoff' = t
    /\ UNCHANGED <<status, attempt, approval, result, batch, loop, replied, succeeded, crashes>>

SchedulesRetry(t) ==
    /\ attempt[t] < MaxAttempts
    /\ BranchGoes(t, "judge", "backoff")
    /\ SetStatus(t, "retry_scheduled")
    /\ run' = "recovering"
    /\ UNCHANGED <<attempt, approval, result, batch, loop, handoff, replied, succeeded, crashes>>

GivesUp(t) ==
    /\ FailsRun(t, "judge", "failed")
    /\ UNCHANGED <<attempt, approval, result, batch, loop, handoff, replied, succeeded, crashes>>

\* _handle_dependency_install appends a task for the package and asks whether to install it; the
\* question has no handoff_id, so _pause_for_handoff raises KeyError once it has been saved.
LacksPackage(t) ==
    /\ InstallFor[t] # NoTask
    /\ BranchGoes(t, "judge", "raised")
    /\ SetStatus(InstallFor[t], "pending")
    /\ handoff' = InstallFor[t]
    /\ run' = "awaiting_input"
    /\ UNCHANGED <<attempt, approval, result, batch, loop, replied, succeeded, crashes>>

BackoffEnds(t) ==
    /\ BranchGoes(t, "backoff", "enter")
    /\ UNCHANGED <<status, attempt, approval, result, batch, loop, run, handoff, replied,
                   succeeded, crashes>>

Branch(t) ==
    \/ PolicyAllows(t) \/ PolicyRefuses(t) \/ AsksApproval(t) \/ ApprovalWakes(t)
    \/ StartsTool(t) \/ ToolReturns(t) \/ RecordsResult(t) \/ RecordRaises(t)
    \/ Pauses(t) \/ SchedulesRetry(t) \/ GivesUp(t) \/ LacksPackage(t)
    \/ BackoffEnds(t)

----------------------------------------------------------------------------
(* Clients, the daemon, a crash *)

\* resolve_approval
Answer(t) ==
    /\ approval[t] = "pending"
    /\ \/ approval' = [approval EXCEPT ![t] = "approved"] /\ SetStatus(t, "approved")
       \/ approval' = [approval EXCEPT ![t] = "rejected"] /\ UNCHANGED status
    /\ UNCHANGED <<attempt, result, pc, batch, loop, run, handoff, replied, succeeded, crashes>>

\* reply_to_run
Reply ==
    /\ handoff # NoTask
    /\ handoff \notin replied
    /\ replied' = replied \cup {handoff}
    /\ run' = "paused"
    /\ UNCHANGED <<status, attempt, approval, result, pc, batch, loop, handoff, succeeded, crashes>>

\* resume_run wants the question and every approval answered; _resume_checkpointed_jobs wants a
\* run that is neither running nor planning, and leaves pending_handoff alone.
Resume ==
    /\ loop = "over"
    /\ run \notin {"failed", "completed"}
    /\ \/ /\ handoff = NoTask \/ handoff \in replied
          /\ \A t \in Task : approval[t] # "pending"
          /\ handoff' = NoTask
       \/ run # "running" /\ UNCHANGED handoff
    /\ loop' = "schedule"
    /\ run' = "running"
    /\ UNCHANGED <<status, attempt, approval, result, pc, batch, replied, succeeded, crashes>>

\* A restart and rehydrate_runs; the tasks come back as they were saved.
Rehydrated(s) ==
    IF s \in {"failed", "completed"} THEN s
    ELSE IF handoff # NoTask /\ handoff \notin replied THEN "awaiting_input"
    ELSE IF \E t \in Task : approval[t] = "pending" THEN "awaiting_approval"
    ELSE IF s \in {"running", "recovering"} THEN "paused" ELSE s

Crash ==
    /\ crashes < MaxCrashes
    /\ crashes' = crashes + 1
    /\ pc' = [t \in Task |-> "idle"]
    /\ batch' = {}
    /\ loop' = "over"
    /\ run' = Rehydrated(run)
    /\ UNCHANGED <<status, attempt, approval, result, handoff, replied, succeeded>>

----------------------------------------------------------------------------

PipelineStep == Schedule \/ BatchEnds \/ \E t \in Task : Branch(t)

Next ==
    \/ PipelineStep
    \/ \E t \in Task : Answer(t)
    \/ Reply \/ Resume \/ Crash

Spec == Init /\ [][Next]_vars

\* The loop runs every branch that is ready: tools and reflection return.  Nobody need answer.
FairSpec == Spec /\ WF_vars(Schedule \/ BatchEnds) /\ \A t \in Task : WF_vars(Branch(t))

----------------------------------------------------------------------------
(* Properties *)

\* Tasks, branches and the loop have the shape the code gives them.
TypeOK ==
    /\ status \in [Task -> TaskStatus \cup {"absent"}]
    /\ attempt \in [Task -> Nat]
    /\ approval \in [Task -> {"none", "pending", "approved", "rejected"}]
    /\ result \in [Task -> Outcome \cup {"none"}]
    /\ pc \in [Task -> BranchPC]
    /\ batch \in SUBSET Task
    /\ loop \in {"schedule", "execute", "over"}
    /\ run \in RunStatus
    /\ handoff \in Task \cup {NoTask}
    /\ replied \in SUBSET Task
    /\ succeeded \in SUBSET Task
    /\ crashes \in Nat

\* A tool starts only after every dependency of its task has produced a usable result; only
\* read-only speculation may run ahead.  Retries, pauses, resumes and restarts included.
DependenciesFirst ==
    [][\A t \in Task : attempt'[t] # attempt[t] /\ ~MayPrecedeDeps(t) => Deps[t] \subseteq succeeded]_vars

\* While the tool of a task that mutates state runs, no other tool of the run does.
MutatorsAlone ==
    \A t, u \in Task : pc[t] = "tool" /\ pc[u] = "tool" /\ t \in Mutating => t = u

\* A task whose tool has succeeded is never started again, also when the backend dies between
\* the tool's success and the record of it and the run is resumed from what was saved.  The one
\* way to repeat it is an exception while the success is recorded.
SucceededOnce ==
    [][\A t \in Task : attempt'[t] # attempt[t] => t \notin succeeded]_vars

\* A task that was blocked without being tried has a dependency that ended badly: a failure that
\* is still going to be retried blocks nothing.
BlockedHasCause ==
    \A t \in Task : status[t] = "blocked" /\ attempt[t] = 0
        => \E d \in Deps[t] : status[d] \in FAILING_STATUSES

\* Of the alternatives of a group that mutate state at most one is recorded as successful.
OneAlternative ==
    \A t, u \in Mutating :
        /\ Group[t] = Group[u] /\ Group[t] # NoGroup
        /\ status[t] \in SUCCESS_STATUSES /\ status[u] \in SUCCESS_STATUSES
        => t = u

\* A pipeline that was started ends, or waits for an approval: retries do not go on for ever and
\* a graph that is stuck does not keep the loop spinning.
PipelineEnds ==
    (loop # "over") ~> (loop = "over" \/ \E t \in Task : approval[t] = "pending")
=============================================================================
