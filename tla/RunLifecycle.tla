---------------------------- MODULE RunLifecycle ----------------------------
(***************************************************************************)
(* The life of one run in core/runtime_manager.py: its pipeline task, the  *)
(* calls clients make about it (cancel, reply, resume, resolve an          *)
(* approval), the daemon that resumes checkpointed jobs, and a crash with  *)
(* rehydrate_runs.                                                         *)
(*                                                                         *)
(* The loop is single threaded, so a step is the code between two awaits.  *)
(* The await that matters is _persist_state: the snapshot is taken when it *)
(* is called and reaches SQLite, through a connection of its own, some     *)
(* time later; its caller waits, the others do not, so two saves can land  *)
(* in either order.  An actor with a save under way has it in unsaved.     *)
(*                                                                         *)
(* The run has one task.  Local and agentic pipelines share the loop that  *)
(* matters here, ActionExecutor.execute; what precedes it (planning, the   *)
(* provider call) is part of the step to "head".  TaskPipeline models      *)
(* several tasks and their scheduling.  The run is one that a client has   *)
(* submitted: it has no goal to finalize (GoalDaemon).                     *)
(***************************************************************************)
EXTENDS Naturals, FiniteSets

CONSTANTS
    Verdicts,    \* verdicts the policy may give on the task
    MaxAsked,    \* bound: approvals that may be created for the task
    MaxTools,    \* bound: how often the tool may be started
    MaxAttempts, \* max_attempts of the task
    MaxCalls,    \* bound: client calls in one behaviour
    MaxCrashes   \* bound: restarts of the backend in one behaviour

ASSUME VerdictsAssumption == Verdicts \subseteq {"allow", "require_approval", "deny"}
ASSUME BoundsAssumption ==
    /\ MaxAsked \in Nat /\ MaxTools \in Nat /\ MaxAttempts \in Nat
    /\ MaxCalls \in Nat /\ MaxCrashes \in Nat

VARIABLES
    mem,       \* active_runs[request_id]: status, pending_handoff, approvals
    saved,     \* kv "state:<request_id>"
    unsaved,   \* per actor: the snapshot its _persist_state is writing
    pipe,      \* where the pipeline task stands
    waiter,    \* approval_waiters: the future of each approval
    stop,      \* run_cancel_events: whether the run's event is set
    checkpoint,\* whether job_checkpoints holds a row for the run
    attempt,   \* tool starts so far
    client,    \* per kind of call: where the call stands
    resolving, \* the approval that resolve_approval is resolving, or 0
    calls,     \* client calls so far
    crashes,   \* restarts so far
    assent,    \* history: the user has approved the task at least once
    cancelled  \* history: no cancel_run accepted / one stands / later undone by a client or crash

vars == <<mem, saved, unsaved, pipe, waiter, stop, checkpoint, attempt, client,
          resolving, calls, crashes, assent, cancelled>>

Terminal == {"completed", "failed", "cancelled"}
Status == {"queued", "planning", "running", "awaiting_input", "awaiting_approval", "paused",
           "resuming", "recovering", "cancelling"} \cup Terminal
Approval == 1 .. MaxAsked

Snapshot == [status   : Status,
             handoff  : {"none", "pending", "answered"},
             approval : [Approval -> {"none", "pending", "approved", "rejected"}]]
NotSaving == [status |-> "saved"]

Saver == {"pipeline", "cancel", "reply", "resume", "resolve"}
Caller == {"cancel", "resume", "daemon"}
PipePC == {"none", "start", "restart", "head", "policy", "asking", "waiting", "launch", "tool",
           "observe", "decide", "caught", "unasked", "backoff", "settle", "fell", "fallback", "pausing",
           "stopping"}

Init ==
    /\ mem = [status |-> "queued", handoff |-> "none",
              approval |-> [a \in Approval |-> "none"]]
    /\ saved = mem
    /\ unsaved = [s \in Saver |-> NotSaving]
    /\ pipe = "start"
    /\ waiter = [a \in Approval |-> "none"]
    /\ stop = FALSE
    /\ checkpoint = FALSE
    /\ attempt = 0
    /\ client = [c \in Caller |-> "idle"]
    /\ resolving = 0
    /\ calls = 0
    /\ crashes = 0
    /\ assent = FALSE
    /\ cancelled = "no"

----------------------------------------------------------------------------
(* Saving *)

\* What neither the pipeline nor a save touches.
others == <<client, resolving, calls, crashes, assent, cancelled>>

Saving(s) == unsaved[s] # NotSaving

\* Change the memory and start a save of it.
Set(s, snapshot) ==
    /\ mem' = snapshot
    /\ unsaved' = [unsaved EXCEPT ![s] = snapshot]

SetStatus(s, status) == Set(s, [mem EXCEPT !.status = status])

SaveLands(s) ==
    /\ Saving(s)
    /\ saved' = unsaved[s]
    /\ unsaved' = [unsaved EXCEPT ![s] = NotSaving]
    /\ UNCHANGED <<mem, pipe, waiter, stop, checkpoint, attempt, others>>

----------------------------------------------------------------------------
(* The pipeline *)

PipeAt(pc) == pipe = pc /\ ~Saving("pipeline")

\* _run_pipeline: a new run plans, a resumed one resumes.
PipeStarts ==
    /\ \/ PipeAt("start") /\ SetStatus("pipeline", "planning")
       \/ PipeAt("restart") /\ SetStatus("pipeline", "resuming")
    /\ pipe' = "head"
    /\ UNCHANGED <<saved, waiter, stop, checkpoint, attempt, others>>

\* Mutant of Stops: a status that nothing else knows.
StopsMisspelt == SetStatus("pipeline", "canceled") /\ pipe' = "stopping"

\* _mark_run_cancelled
Stops ==
    /\ SetStatus("pipeline", "cancelled")
    /\ pipe' = "stopping"

\* A resumed local run whose task is over (TaskPipeline) completes without looking at the event.
PipeEntersTask ==
    /\ PipeAt("head")
    /\ \/ stop /\ Stops
       \/ ~stop /\ SetStatus("pipeline", "running") /\ pipe' = "policy"
       \/ /\ attempt > 0 /\ mem.status \in {"resuming", "cancelling"}
          /\ SetStatus("pipeline", "completed")
          /\ pipe' = "settle"
    /\ UNCHANGED <<saved, waiter, stop, checkpoint, attempt, others>>

\* _resolved_approval_status: the first approval of the task that was answered.
Answered == {a \in Approval : mem.approval[a] \in {"approved", "rejected"}}
Asked == {a \in Approval : mem.approval[a] # "none"}
\* Mutant of Resolved: any answer counts as an approval.
ResolvedAnyhow == IF Answered = {} THEN "none" ELSE "approved"

Resolved == IF Answered = {} THEN "none"
            ELSE mem.approval[CHOOSE a \in Answered : \A b \in Answered : a <= b]

\* A rejection fails a local run; in an agentic run the task is blocked and the run goes on to
\* its end.
Refused ==
    \/ SetStatus("pipeline", "failed") /\ pipe' = "fell"
    \/ SetStatus("pipeline", "completed") /\ pipe' = "settle"

PipePolicy ==
    /\ PipeAt("policy")
    /\ \E verdict \in Verdicts :
         \/ /\ verdict = "allow" \/ (verdict = "require_approval" /\ Resolved = "approved")
            /\ SetStatus("pipeline", "running")
            /\ pipe' = "launch"
         \/ /\ verdict = "deny"
            /\ SetStatus("pipeline", "failed")
            /\ pipe' = "fell"
         \/ verdict = "require_approval" /\ Resolved = "rejected" /\ Refused
         \/ /\ verdict = "require_approval" /\ Resolved = "none"
            /\ Cardinality(Asked) < MaxAsked
            /\ SetStatus("pipeline", "awaiting_approval")
            /\ pipe' = "asking"
    /\ UNCHANGED <<saved, waiter, stop, checkpoint, attempt, others>>

\* _create_runtime_approval: the approval is visible to clients from here on.
PipeAsks ==
    LET a == Cardinality(Asked) + 1
    IN /\ PipeAt("asking")
       /\ Set("pipeline", [mem EXCEPT !.approval[a] = "pending"])
       /\ waiter' = [waiter EXCEPT ![a] = "open"]
       /\ pipe' = "waiting"
       /\ UNCHANGED <<saved, stop, checkpoint, attempt, others>>

\* _wait_for_approval: when resolve_approval has already popped the future, a new one is made.
Holds(a) == PipeAt("waiting") /\ a = Cardinality(Asked)

PipeWaits ==
    \E a \in Asked :
      /\ Holds(a)
      /\ waiter[a] = "none"
      /\ waiter' = [waiter EXCEPT ![a] = "open"]
      /\ UNCHANGED <<mem, saved, unsaved, pipe, stop, checkpoint, attempt, others>>

PipeWakes ==
    \E a \in Asked :
      /\ Holds(a)
      /\ \/ /\ stop \/ waiter[a] = "cancelled"
            /\ Stops
         \/ /\ ~stop /\ waiter[a] = "approved"
            /\ SetStatus("pipeline", "running")
            /\ pipe' = "launch"
         \/ ~stop /\ waiter[a] = "rejected" /\ Refused
      /\ UNCHANGED <<saved, waiter, stop, checkpoint, attempt, others>>

\* Mutant of PipeLaunches: the cancel event is not looked at before the tool starts.
PipeLaunchesBlindly ==
    /\ PipeAt("launch")
    /\ attempt < MaxTools
    /\ attempt' = attempt + 1
    /\ pipe' = "tool"
    /\ UNCHANGED <<mem, unsaved, saved, waiter, stop, checkpoint, others>>

PipeLaunches ==
    /\ PipeAt("launch")
    /\ IF stop
       THEN Stops /\ UNCHANGED attempt
       ELSE /\ attempt < MaxTools
            /\ attempt' = attempt + 1
            /\ pipe' = "tool"
            /\ UNCHANGED <<mem, unsaved>>
    /\ UNCHANGED <<saved, waiter, stop, checkpoint, others>>

\* _record_task_observation: the state is saved, then the checkpoint.
ToolReturns ==
    /\ PipeAt("tool")
    /\ SetStatus("pipeline", mem.status)
    /\ pipe' = "observe"
    /\ UNCHANGED <<saved, waiter, stop, checkpoint, attempt, others>>

PipeCheckpoints ==
    /\ PipeAt("observe")
    /\ checkpoint' = TRUE
    /\ pipe' = "decide"
    /\ UNCHANGED <<mem, saved, unsaved, waiter, stop, attempt, others>>

\* _pause_for_handoff
Asks ==
    /\ attempt < MaxTools
    /\ Set("pipeline", [mem EXCEPT !.status = "awaiting_input", !.handoff = "pending"])

Retries ==
    /\ attempt < MaxAttempts /\ attempt < MaxTools
    /\ SetStatus("pipeline", "recovering")
    /\ pipe' = "backoff"

\* The outcome of the attempt: success (its own or a recovery script's), a question to the user,
\* a retry or a failure.  A question asked about an agentic task raises RunPausedError inside the
\* very try whose "except Exception" judges failed attempts.
PipeDecides ==
    /\ PipeAt("decide")
    /\ \/ SetStatus("pipeline", "completed") /\ pipe' = "settle"
       \/ Asks /\ pipe' \in {"pausing", "caught", "unasked"}
       \/ Retries
       \/ SetStatus("pipeline", "failed") /\ pipe' = "fell"
    /\ UNCHANGED <<saved, waiter, stop, checkpoint, attempt, others>>

\* That handler asks again, retries, lets a script finish the task, or fails the run and raises
\* RunPausedError once more.
PipeCatchesPause ==
    /\ PipeAt("caught")
    /\ \/ SetStatus("pipeline", "completed") /\ pipe' = "settle"
       \/ Asks /\ pipe' = "pausing"
       \/ Retries
       \/ SetStatus("pipeline", "failed") /\ pipe' = "pausing"
    /\ UNCHANGED <<saved, waiter, stop, checkpoint, attempt, others>>

\* The question whether to install a missing package has no handoff_id: _pause_for_handoff raises
\* KeyError once it has saved it.  The run fails, goes on in the fallback or, the exception
\* swallowed by a parallel batch, to its end.
PipeUnasked ==
    /\ PipeAt("unasked")
    /\ \/ SetStatus("pipeline", "failed") /\ pipe' = "settle"
       \/ SetStatus("pipeline", "running") /\ pipe' = "fallback"
       \/ SetStatus("pipeline", "completed") /\ pipe' = "settle"
    /\ UNCHANGED <<saved, waiter, stop, checkpoint, attempt, others>>

PipeRetries ==
    /\ PipeAt("backoff")
    /\ pipe' = "head"
    /\ UNCHANGED <<mem, saved, unsaved, waiter, stop, checkpoint, attempt, others>>

\* After _fail_run raises: the pipeline is over, or a parallel batch has swallowed the exception
\* and the run completes, or _fallback_to_local takes the run up again and completes it, the task
\* being done with.
PipeFell ==
    /\ \/ PipeAt("fell") /\ UNCHANGED <<mem, unsaved>> /\ pipe' = "settle"
       \/ PipeAt("fell") /\ SetStatus("pipeline", "running") /\ pipe' = "fallback"
       \/ /\ PipeAt("fell") \/ PipeAt("fallback")
          /\ SetStatus("pipeline", "completed")
          /\ pipe' = "settle"
    /\ UNCHANGED <<saved, waiter, stop, checkpoint, attempt, others>>

\* Mutant of PipeEnds: a cancelled pipeline stays in run_tasks.
PipeEndsUncancelled ==
    /\ PipeAt("settle") \/ PipeAt("pausing")
    /\ pipe' = "none"
    /\ stop' = IF mem.status \in Terminal THEN FALSE ELSE stop
    /\ UNCHANGED <<mem, saved, unsaved, waiter, checkpoint, attempt, others>>

\* The finally of _run_pipeline.
PipeEnds ==
    /\ PipeAt("settle") \/ PipeAt("pausing") \/ PipeAt("stopping")
    /\ pipe' = "none"
    /\ stop' = IF mem.status \in Terminal THEN FALSE ELSE stop
    /\ UNCHANGED <<mem, saved, unsaved, waiter, checkpoint, attempt, others>>

PipeStep ==
    \/ PipeStarts \/ PipeEntersTask \/ PipePolicy \/ PipeAsks \/ PipeWaits \/ PipeWakes
    \/ PipeLaunches \/ ToolReturns \/ PipeCheckpoints \/ PipeDecides \/ PipeCatchesPause
    \/ PipeUnasked \/ PipeRetries \/ PipeFell \/ PipeEnds

----------------------------------------------------------------------------
(* cancel_run *)

CallBegins == calls < MaxCalls /\ calls' = calls + 1
Goes(c, from, to) == client[c] = from /\ client' = [client EXCEPT ![c] = to]

CancelCall ==
    /\ mem.status \notin Terminal
    /\ Goes("cancel", "idle", "deliver")
    /\ CallBegins
    /\ stop' = TRUE
    /\ SetStatus("cancel", "cancelling")
    /\ cancelled' = "stands"
    /\ UNCHANGED <<saved, pipe, waiter, checkpoint, attempt, resolving, crashes, assent>>

\* Open approval futures get "cancelled" and task.cancel() strikes the pipeline where it is: a
\* task a resume has just created, and that has not had its first step, never runs at all; one
\* already in _mark_run_cancelled ends there; any other goes to _mark_run_cancelled, its own save
\* abandoned.  The first task of a run has its first step long before a save lands.
CancelDelivers ==
    /\ pipe # "start"
    /\ ~Saving("cancel")
    /\ Goes("cancel", "deliver", "idle")
    /\ waiter' = [a \in Approval |-> IF waiter[a] = "open" THEN "cancelled" ELSE waiter[a]]
    /\ \/ /\ pipe \in {"none", "restart"}
          /\ pipe' = "none"
          /\ UNCHANGED <<mem, unsaved, stop>>
       \/ /\ pipe = "stopping"
          /\ pipe' = "none"
          /\ unsaved' = [unsaved EXCEPT !["pipeline"] = NotSaving]
          /\ stop' = IF mem.status \in Terminal THEN FALSE ELSE stop
          /\ UNCHANGED mem
       \/ /\ pipe \notin {"none", "restart", "stopping"}
          /\ Stops
          /\ UNCHANGED stop
    /\ UNCHANGED <<saved, checkpoint, attempt, resolving, calls, crashes, assent, cancelled>>

----------------------------------------------------------------------------
(* reply_to_run, resume_run *)

Undone == IF cancelled = "stands" THEN "undone" ELSE cancelled

ReplyCall ==
    /\ mem.handoff # "none"
    /\ ~Saving("reply")
    /\ CallBegins
    /\ Set("reply", [mem EXCEPT !.status = "paused", !.handoff = "answered"])
    /\ cancelled' = Undone
    /\ UNCHANGED <<saved, pipe, waiter, stop, checkpoint, attempt, client, resolving, crashes,
                   assent>>

ResumeDecides ==
    LET pending == \E a \in Approval : mem.approval[a] = "pending"
    IN /\ IF pending THEN SetStatus("resume", "awaiting_approval")
                     ELSE UNCHANGED <<mem, unsaved>>
       /\ pipe' = IF ~pending /\ pipe = "none" THEN "restart" ELSE pipe
       /\ cancelled' = IF mem.status \in Terminal /\ (pending \/ pipe = "none")
                       THEN Undone ELSE cancelled

\* _apply_handoff_response is awaited only if there is an answer to apply; what comes after it
\* does not look at the status again.
ResumeCall ==
    /\ mem.status \notin Terminal
    /\ mem.handoff # "pending"
    /\ client["resume"] = "idle" /\ ~Saving("resume")
    /\ CallBegins
    /\ IF mem.handoff = "answered"
       THEN /\ Set("resume", [mem EXCEPT !.handoff = "none"])
            /\ client' = [client EXCEPT !["resume"] = "decide"]
            /\ UNCHANGED <<pipe, cancelled>>
       ELSE ResumeDecides /\ UNCHANGED client
    /\ UNCHANGED <<saved, waiter, stop, checkpoint, attempt, resolving, crashes, assent>>

ResumeGoesOn ==
    /\ ~Saving("resume")
    /\ Goes("resume", "decide", "idle")
    /\ ResumeDecides
    /\ UNCHANGED <<saved, waiter, stop, checkpoint, attempt, resolving, calls, crashes, assent>>

----------------------------------------------------------------------------
(* resolve_approval: no check that the approval is still pending *)

ResolveCall(a, answer) ==
    /\ a \in Asked
    /\ resolving = 0
    /\ CallBegins
    /\ resolving' = a
    /\ Set("resolve", [mem EXCEPT !.approval[a] = answer])
    /\ assent' = (assent \/ answer = "approved")
    /\ UNCHANGED <<saved, pipe, waiter, stop, checkpoint, attempt, client, crashes, cancelled>>

\* The future is popped and, unless already done, gets the answer; only a pipeline that holds it
\* will see it.
ResolveWakes ==
    /\ resolving # 0
    /\ ~Saving("resolve")
    /\ resolving' = 0
    /\ waiter' = [waiter EXCEPT ![resolving] =
                    IF ~Holds(resolving) THEN "none"
                    ELSE IF @ = "open" THEN mem.approval[resolving] ELSE @]
    /\ UNCHANGED <<mem, saved, unsaved, pipe, stop, checkpoint, attempt, client, calls, crashes,
                   assent, cancelled>>

----------------------------------------------------------------------------
(* _resume_checkpointed_jobs *)

DaemonLists ==
    /\ checkpoint
    /\ Goes("daemon", "idle", "listed")
    /\ UNCHANGED <<mem, saved, unsaved, pipe, waiter, stop, checkpoint, attempt, resolving, calls,
                   crashes, assent, cancelled>>

\* Mutant of DaemonDecides: a run that is over is left alone, its checkpoint too.
DaemonDecidesOpenOnly ==
    /\ client["daemon"] = "listed"
    /\ \/ /\ pipe # "none" \/ mem.status \in {"running", "planning"} \cup Terminal
          /\ client' = [client EXCEPT !["daemon"] = "idle"]
          /\ UNCHANGED pipe
       \/ /\ pipe = "none" /\ mem.status \notin {"running", "planning"} \cup Terminal
          /\ client' = [client EXCEPT !["daemon"] = "delete"]
          /\ pipe' = "restart"
    /\ UNCHANGED <<mem, saved, unsaved, waiter, stop, checkpoint, attempt, resolving, calls,
                   crashes, assent, cancelled>>

DaemonDecides ==
    /\ client["daemon"] = "listed"
    /\ \/ /\ pipe # "none" \/ mem.status \in {"running", "planning"}
          /\ client' = [client EXCEPT !["daemon"] = "idle"]
          /\ UNCHANGED pipe
       \/ /\ pipe = "none" /\ mem.status \notin {"running", "planning"}
          /\ client' = [client EXCEPT !["daemon"] = "delete"]
          /\ pipe' = IF mem.status \in Terminal THEN pipe ELSE "restart"
    /\ UNCHANGED <<mem, saved, unsaved, waiter, stop, checkpoint, attempt, resolving, calls,
                   crashes, assent, cancelled>>

DaemonDeletes ==
    /\ Goes("daemon", "delete", "idle")
    /\ checkpoint' = FALSE
    /\ UNCHANGED <<mem, saved, unsaved, pipe, waiter, stop, attempt, resolving, calls, crashes,
                   assent, cancelled>>

----------------------------------------------------------------------------
(* Crash, restart and rehydrate_runs *)

\* Mutants of Rehydrated: a run that was waiting for its retry is not paused; the pending question
\* is not restored.
RehydratedRecovering(snapshot) ==
    [snapshot EXCEPT !.status = IF @ \in {"planning", "running", "resuming", "cancelling", "queued"}
                                THEN "paused" ELSE @]
RehydratedUnasked(snapshot) ==
    [snapshot EXCEPT !.handoff = "none",
                     !.status = IF @ \in Terminal THEN @ ELSE "paused"]

Rehydrated(snapshot) ==
    [snapshot EXCEPT !.status =
        CASE @ \in Terminal -> @
          [] @ \notin Terminal /\ snapshot.handoff = "pending" -> "awaiting_input"
          [] /\ @ \notin Terminal /\ snapshot.handoff # "pending"
             /\ \E a \in Approval : snapshot.approval[a] = "pending" -> "awaiting_approval"
          [] OTHER -> IF @ \in {"planning", "running", "resuming", "recovering", "cancelling",
                                "queued"} THEN "paused" ELSE @]

Crash ==
    /\ crashes < MaxCrashes
    /\ crashes' = crashes + 1
    /\ mem' = Rehydrated(saved)
    /\ saved' = mem'
    /\ unsaved' = [s \in Saver |-> NotSaving]
    /\ pipe' = "none"
    /\ waiter' = [a \in Approval |-> IF mem'.approval[a] = "pending" /\ mem'.status \notin Terminal
                                      THEN "open" ELSE "none"]
    /\ stop' = FALSE
    /\ client' = [c \in Caller |-> "idle"]
    /\ resolving' = 0
    /\ cancelled' = Undone
    /\ UNCHANGED <<checkpoint, attempt, calls, assent>>

----------------------------------------------------------------------------

SomeSaveLands == \E s \in Saver : SaveLands(s)
DaemonStep == DaemonLists \/ DaemonDecides \/ DaemonDeletes
CallStep == CancelDelivers \/ ResumeGoesOn \/ ResolveWakes

Next ==
    \/ SomeSaveLands
    \/ PipeStep
    \/ CancelCall \/ ReplyCall \/ ResumeCall
    \/ \E a \in Approval, answer \in {"approved", "rejected"} : ResolveCall(a, answer)
    \/ CallStep
    \/ DaemonStep
    \/ Crash

\* The loop runs every coroutine that is ready, SQLite finishes its writes, tools return (they
\* have timeouts) and the daemon ticks.  No client is assumed to call.
Fairness ==
    /\ \A s \in Saver : WF_vars(SaveLands(s))
    /\ WF_vars(PipeStep)
    /\ WF_vars(CancelDelivers) /\ WF_vars(ResumeGoesOn) /\ WF_vars(ResolveWakes)
    /\ WF_vars(DaemonStep)

Spec == Init /\ [][Next]_vars
FairSpec == Spec /\ Fairness

----------------------------------------------------------------------------
(* Properties *)

\* The memory, the database, the writes under way and every actor have the shape the code gives.
TypeOK ==
    /\ mem \in Snapshot
    /\ saved \in Snapshot
    /\ unsaved \in [Saver -> Snapshot \cup {NotSaving}]
    /\ pipe \in PipePC
    /\ waiter \in [Approval -> {"none", "open", "approved", "rejected", "cancelled"}]
    /\ stop \in BOOLEAN /\ checkpoint \in BOOLEAN /\ assent \in BOOLEAN
    /\ attempt \in Nat /\ calls \in Nat /\ crashes \in Nat
    /\ client \in [Caller -> {"idle", "deliver", "decide", "listed", "delete"}]
    /\ resolving \in 0 .. MaxAsked
    /\ cancelled \in {"no", "stands", "undone"}

\* A tool the policy wants approved runs only if the user approved it at some time, however
\* approvals, cancels, resumes and restarts interleave.  (Checked where the policy never says
\* "allow".)
ApprovalGate == pipe = "tool" => assent

\* No run is left in a status that says work is going on when no pipeline works on it: the
\* daemon would skip it, wait_for_run would wait for ever.
NoZombie == mem.status \in {"planning", "running", "resuming", "recovering"} => pipe # "none"

\* Once cancel_run has been accepted no tool of the run is started any more, also not by a
\* resume, an approval or the daemon that were already on their way, until the user replies, a
\* resume that had passed its checks takes the run up again, or the backend restarts.
CancelHolds ==
    [][pipe' = "tool" /\ pipe # "tool" => cancelled # "stands"]_vars

\* A question that has been put to the user and saved stays until the user answers it, also when
\* the daemon resumes the run, the run is cancelled or the backend restarts.
QuestionKept ==
    [][mem.handoff = "pending" /\ saved.handoff = "pending"
         => mem'.handoff \in {"pending", "answered"}]_vars

\* A cancel of a run whose pipeline is alive ends it.
CancelEnds ==
    (cancelled = "stands" /\ pipe \notin {"none", "restart"})
       ~> (pipe = "none" \/ cancelled # "stands")

\* README: "Checkpoints are deleted after terminal states".
CheckpointsCleaned ==
    (mem.status \in Terminal /\ checkpoint) ~> (~checkpoint \/ mem.status \notin Terminal)
=============================================================================
