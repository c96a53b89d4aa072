---------------------------- MODULE RunDeletion ----------------------------
(***************************************************************************)
(* delete_run of core/runtime_manager.py: it cancels the pipeline of the   *)
(* run, waits for it, and takes the run out of active_runs, run_tasks and  *)
(* the tables, while other clients call about the same run and the daemon  *)
(* resumes checkpointed jobs.                                              *)
(*                                                                         *)
(* The run is the places its state lives in.  A state read from the row is *)
(* an object of its own, a copy, and whoever holds a copy works on it and  *)
(* saves it, in active_runs or not.  What a pipeline does while the run    *)
(* exists, and saves that overtake one another, are RunLifecycle: here a   *)
(* pipeline saves in one step, and a status is open (the run may go on),   *)
(* cancelling or over.  The process does not crash.                        *)
(***************************************************************************)
EXTENDS Naturals

CONSTANTS
    Client,     \* clients of the API
    MaxCopies,  \* bound: copies of the state in one behaviour
    MaxPipes,   \* bound: pipelines in one behaviour
    MaxCalls    \* bound: calls of clients in one behaviour

ASSUME DeletionAssumption == {MaxCopies, MaxPipes} \subseteq Nat \ {0} /\ MaxCalls \in Nat

VARIABLES
    state,     \* the status of each copy, or "unused"
    active,    \* active_runs: the copy everybody finds, or 0
    row,       \* kv "state:<request_id>": the status in it, or "none"
    approvals, \* whether the approvals table has rows of the run
    checkpoint,\* whether job_checkpoints has a row of the run
    pipe,      \* the pipelines: where each stands, and its copy
    tracked,   \* run_tasks: the pipeline it names, or 0
    call,      \* the call each client has under way
    daemon,    \* _resume_checkpointed_jobs: where it stands, and the status it has read
    calls,     \* calls so far
    answered,  \* history: a delete_run has answered that the run is deleted
    alone      \* history: nobody else was at the run during that delete_run

vars == <<state, active, row, approvals, checkpoint, pipe, tracked, call, daemon, calls,
          answered, alone>>

Copy == 1 .. MaxCopies
Pipe == 1 .. MaxPipes
Status == {"open", "cancelling", "over"}

Unused == [pc |-> "unused", copy |-> 0]
Idle == [op |-> "none", pc |-> "idle", copy |-> 0, snap |-> "none", task |-> 0, found |-> FALSE]
NoTick == [pc |-> "idle", snap |-> "none"]

Alive(p) == pipe[p].pc \notin {"unused", "done"}
Tracked == tracked # 0 /\ Alive(tracked)

\* A run just submitted, one that rehydrate_runs has found, or one that was over by then.
Init ==
    /\ approvals \in BOOLEAN /\ checkpoint \in BOOLEAN
    /\ \/ active = 1 /\ row = "open" /\ tracked \in {0, 1}
       \/ active = 0 /\ row = "over" /\ tracked = 0
    /\ state = [o \in Copy |-> IF o = active THEN "open" ELSE "unused"]
    /\ pipe = [p \in Pipe |-> IF p = tracked THEN [Unused EXCEPT !.pc = "created"] ELSE Unused]
    /\ call = [c \in Client |-> Idle] /\ daemon = NoTick /\ calls = 0
    /\ answered = FALSE /\ alone = FALSE

\* The next copy and the next pipeline.
Least(numbers) == CHOOSE n \in numbers : \A m \in numbers : n <= m
FreeCopies == {o \in Copy : state[o] = "unused"}
FreePipes == {p \in Pipe : pipe[p].pc = "unused"}

Launches ==
    /\ FreePipes # {}
    /\ tracked' = Least(FreePipes)
    /\ pipe' = [pipe EXCEPT ![Least(FreePipes)].pc = "created"]

\* active_runs[request_id] = persisted
Adopts(status) ==
    /\ FreeCopies # {}
    /\ active' = Least(FreeCopies)
    /\ state' = [state EXCEPT ![Least(FreeCopies)] = status]

\* Somebody comes to the run: a delete_run that is under way is no longer alone with it.
Disturbs == alone' = (alone /\ answered)

----------------------------------------------------------------------------
(* The pipelines *)

pipeOthers == <<active, call, daemon, calls, answered, alone>>

At(p, pc) == pipe[p].pc = pc
Goes(p, pc) == pipe' = [pipe EXCEPT ![p].pc = pc]

\* A run that has gone meanwhile is a KeyError, before the try whose finally clears run_tasks.
PipeStarts(p) ==
    /\ At(p, "created")
    /\ IF active = 0
       THEN Goes(p, "done") /\ UNCHANGED <<state, row>>
       ELSE /\ state' = [state EXCEPT ![active] = "open"] /\ row' = "open"
            /\ pipe' = [pipe EXCEPT ![p] = [pc |-> "working", copy |-> active]]
    /\ UNCHANGED <<approvals, checkpoint, tracked, pipeOthers>>

\* A status is set and saved, a checkpoint is written, or an approval is asked for.
PipeWorks(p) ==
    /\ At(p, "working")
    /\ \/ /\ \E s \in {state[pipe[p].copy], "open"} :
                state' = [state EXCEPT ![pipe[p].copy] = s] /\ row' = s
          /\ UNCHANGED <<approvals, checkpoint>>
       \/ checkpoint' = TRUE /\ UNCHANGED <<state, row, approvals>>
       \/ approvals' = TRUE /\ UNCHANGED <<state, row, checkpoint>>
    /\ UNCHANGED <<pipe, tracked, pipeOthers>>

\* The run pauses or is over and this is being saved, or the cancel event was seen.
PipeCloses(p) ==
    /\ At(p, "working")
    /\ \/ /\ \E s \in {state[pipe[p].copy], "open", "over"} :
                state' = [state EXCEPT ![pipe[p].copy] = s]
          /\ Goes(p, "closing")
       \/ state[pipe[p].copy] = "cancelling" /\ Goes(p, "stopping") /\ UNCHANGED state
    /\ UNCHANGED <<row, approvals, checkpoint, tracked, pipeOthers>>

\* _mark_run_cancelled
PipeMarks(p) ==
    /\ At(p, "stopping")
    /\ state' = [state EXCEPT ![pipe[p].copy] = "over"] /\ Goes(p, "marking")
    /\ UNCHANGED <<row, approvals, checkpoint, tracked, pipeOthers>>

\* The finally of _run_pipeline takes out of run_tasks whatever is there.
PipeEnds(p) ==
    /\ pipe[p].pc \in {"closing", "marking"}
    /\ row' = state[pipe[p].copy]
    /\ Goes(p, "done") /\ tracked' = 0
    /\ UNCHANGED <<state, approvals, checkpoint, pipeOthers>>

\* task.cancel(): a pipeline at work goes on to _mark_run_cancelled; one that has not begun never
\* does, and stays in run_tasks; one that is already stopping ends, its save may land or not.
Struck(p) ==
    \/ pipe[p].pc \in {"working", "closing"} /\ Goes(p, "stopping") /\ UNCHANGED tracked
    \/ At(p, "created") /\ Goes(p, "done") /\ UNCHANGED tracked
    \/ pipe[p].pc \in {"stopping", "marking"} /\ Goes(p, "done") /\ tracked' = 0

----------------------------------------------------------------------------
(* reply_to_run and resume_run *)

Busy(c, pc) == call[c].pc = pc
Moves(c, pc) == call' = [call EXCEPT ![c].pc = pc]
Ends(c) == call' = [call EXCEPT ![c] = Idle]

ResumeLaunches(c) ==
    /\ Ends(c)
    /\ IF Tracked THEN UNCHANGED <<pipe, tracked>> ELSE Launches

\* A call saves a status it has given to a copy, and does so outside active_runs too.
Saves(c, op, pc, o, status) ==
    call' = [call EXCEPT ![c] = [Idle EXCEPT !.op = op, !.pc = pc, !.copy = o, !.snap = status]]

\* What a call does with the copy it has found, whose status is now[o].  A reply makes any run
\* with a question paused.  A resume applies the answer first if there is one, and stops at an
\* approval that is pending.
Uses(c, op, o, now) ==
    \/ /\ op = "reply" \/ now[o] # "over"
       /\ state' = [now EXCEPT ![o] = "open"]
       /\ Saves(c, op, "saving", o, "open")
       /\ UNCHANGED <<pipe, tracked>>
    \/ /\ op = "resume" /\ now[o] # "over" /\ state' = now
       /\ \/ Saves(c, op, "answering", o, now[o]) /\ UNCHANGED <<pipe, tracked>>
          \/ ResumeLaunches(c)
    \/ op = "resume" /\ now[o] = "over" /\ state' = now /\ Ends(c) /\ UNCHANGED <<pipe, tracked>>

callOthers == <<approvals, checkpoint, daemon, answered>>

\* _ensure_active_state finds the run in active_runs, or has to read the row.
CallBegins(c, op) ==
    /\ Busy(c, "idle") /\ calls < MaxCalls /\ calls' = calls + 1
    /\ op \in {"reply", "resume"}
    /\ IF active # 0
       THEN Uses(c, op, active, state)
       ELSE /\ call' = [call EXCEPT ![c] = [Idle EXCEPT !.op = op, !.pc = "reading"]]
            /\ UNCHANGED <<state, pipe, tracked>>
    /\ Disturbs
    /\ UNCHANGED <<active, row, callOthers>>

CallReads(c) ==
    /\ Busy(c, "reading")
    /\ call' = [call EXCEPT ![c] = IF row = "none" THEN Idle ELSE [@ EXCEPT !.pc = "read", !.snap = row]]
    /\ UNCHANGED <<state, active, row, pipe, tracked, calls, alone, callOthers>>

CallAdopts(c) ==
    /\ Busy(c, "read") /\ FreeCopies # {}
    /\ active' = Least(FreeCopies)
    /\ Uses(c, call[c].op, Least(FreeCopies), [state EXCEPT ![Least(FreeCopies)] = call[c].snap])
    /\ UNCHANGED <<row, calls, alone, callOthers>>

CallSaved(c) ==
    /\ row' = call[c].snap
    /\ \/ Busy(c, "saving") /\ Ends(c) /\ UNCHANGED <<pipe, tracked>>
       \/ Busy(c, "answering") /\ ResumeLaunches(c)
    /\ UNCHANGED <<state, active, calls, alone, callOthers>>

----------------------------------------------------------------------------
(* cancel_run and delete_run *)

\* Nobody is at the run but this client and the pipeline that run_tasks names.  There may be another
\* pipeline (DaemonAdopts), and delete_run cannot know of it.
NobodyElse(c) ==
    /\ daemon = NoTick
    /\ \A d \in Client \ {c} : call[d] = Idle
    /\ \A p \in Pipe : Alive(p) => p = tracked

Arrives(c, op) ==
    /\ Busy(c, "idle") /\ calls < MaxCalls /\ calls' = calls + 1
    /\ IF op = "delete" /\ ~answered THEN alone' = NobodyElse(c) ELSE Disturbs

\* cancel_run is over: delete_run goes on to wait for the pipeline that run_tasks names then.
Cancelled(c, op, found, task) ==
    call' = [call EXCEPT ![c] = IF op = "cancel" THEN Idle
             ELSE [Idle EXCEPT !.op = op, !.pc = "waiting", !.task = task, !.found = found]]

\* A client cancels the run, or deletes one whose pipeline is alive.
CancelBegins(c, op) ==
    /\ Arrives(c, op)
    /\ op = "cancel" \/ (op = "delete" /\ Tracked)
    /\ \/ /\ active = 0
          /\ call' = [call EXCEPT ![c] = [Idle EXCEPT !.op = op, !.pc = "looking"]]
          /\ UNCHANGED state
       \/ active # 0 /\ state[active] = "over" /\ Cancelled(c, op, TRUE, tracked) /\ UNCHANGED state
       \/ /\ active # 0 /\ state[active] # "over"
          /\ state' = [state EXCEPT ![active] = "cancelling"]
          /\ call' = [call EXCEPT ![c] = [Idle EXCEPT !.op = op, !.pc = "striking", !.found = TRUE]]
    /\ UNCHANGED <<active, row, pipe, tracked, callOthers>>

\* A run that is only in its row counts as over; one that is nowhere is a KeyError, for both.
CancelLooks(c) ==
    /\ Busy(c, "looking")
    /\ IF row = "none" THEN Ends(c) ELSE Cancelled(c, call[c].op, FALSE, tracked)
    /\ UNCHANGED <<state, active, row, pipe, tracked, calls, alone, callOthers>>

\* "cancelling" is saved, and the pipeline that run_tasks names now is struck.
Strikes ==
    IF Tracked
    THEN /\ Struck(tracked)
         /\ row' = "cancelling" \/ (At(tracked, "marking") /\ row' = "over")
    ELSE row' = "cancelling" /\ UNCHANGED <<pipe, tracked>>

CancelStrikes(c) ==
    /\ Busy(c, "striking")
    /\ Strikes
    /\ Cancelled(c, call[c].op, call[c].found, tracked)
    /\ UNCHANGED <<state, active, calls, alone, callOthers>>

\* No pipeline of the run is alive, so far as run_tasks knows.
DeleteBegins(c) ==
    /\ Arrives(c, "delete") /\ ~Tracked
    /\ call' = [call EXCEPT ![c] = [Idle EXCEPT !.op = "delete", !.pc = "checking", !.found = active # 0]]
    /\ UNCHANGED <<state, active, row, pipe, tracked, callOthers>>

\* Mutant of PipelineOver: delete_run does not wait.
PipelineOverOrNot(p) == TRUE

PipelineOver(p) == p # 0 => ~Alive(p)

\* wait_for_run: a run still "cancelling" when its pipeline is over is marked cancelled.
DeleteWaited(c) ==
    /\ Busy(c, "waiting") /\ PipelineOver(call[c].task)
    /\ IF call[c].task # 0 /\ active # 0 /\ state[active] = "cancelling"
       THEN state' = [state EXCEPT ![active] = "over"] /\ row' = "over"
       ELSE UNCHANGED <<state, row>>
    /\ Moves(c, "checking")
    /\ UNCHANGED <<active, pipe, tracked, calls, alone, callOthers>>

\* The pipeline is alive after ten seconds.
DeleteTimesOut(c) ==
    /\ Busy(c, "waiting") /\ ~PipelineOver(call[c].task)
    /\ Moves(c, "checking") /\ Disturbs
    /\ UNCHANGED <<state, active, row, pipe, tracked, calls, callOthers>>

\* A run that was not in active_runs and has no row is a KeyError.
DeleteChecks(c) ==
    /\ Busy(c, "checking")
    /\ IF ~call[c].found /\ row = "none" THEN Ends(c) ELSE Moves(c, "popping")
    /\ UNCHANGED <<state, active, row, pipe, tracked, calls, alone, callOthers>>

\* What is in memory goes; a pipeline that waits for an approval has its future cancelled.
DeletePops(c) ==
    /\ Busy(c, "popping")
    /\ active' = 0 /\ tracked' = 0
    /\ UNCHANGED pipe \/ \E p \in Pipe : At(p, "working") /\ Goes(p, "stopping")
    /\ Moves(c, "deleting")
    /\ UNCHANGED <<state, row, calls, alone, callOthers>>

DeleteRow(c) ==
    /\ Busy(c, "deleting") /\ row' = "none"
    /\ Moves(c, "clearing")
    /\ UNCHANGED <<state, active, pipe, tracked, calls, alone, callOthers>>

DeleteApprovals(c) ==
    /\ Busy(c, "clearing")
    /\ approvals' = FALSE /\ answered' = TRUE /\ Ends(c)
    /\ UNCHANGED <<state, active, row, pipe, tracked, calls, alone, checkpoint, daemon>>

----------------------------------------------------------------------------
(* _resume_checkpointed_jobs *)

daemonOthers == <<row, approvals, call, calls, answered>>

Turns(pc, status) == daemon' = [pc |-> pc, snap |-> status]

DaemonLists ==
    /\ daemon = NoTick /\ checkpoint
    /\ Turns("listed", "none") /\ Disturbs
    /\ UNCHANGED <<state, active, checkpoint, pipe, tracked, daemonOthers>>

\* A run that has a pipeline, or is planning or running without one, is passed over.
DaemonSkips ==
    /\ daemon.pc = "listed"
    /\ Tracked \/ (active # 0 /\ state[active] = "open")
    /\ daemon' = NoTick
    /\ UNCHANGED <<state, active, checkpoint, pipe, tracked, alone, daemonOthers>>

DaemonTakes ==
    /\ daemon.pc = "listed" /\ ~Tracked
    /\ \/ active # 0 /\ state[active] = "over" /\ Turns("dropping", "none") /\ UNCHANGED <<pipe, tracked>>
       \/ active # 0 /\ state[active] # "over" /\ Launches /\ Turns("dropping", "none")
       \/ active = 0 /\ Turns("reading", "none") /\ UNCHANGED <<pipe, tracked>>
    /\ UNCHANGED <<state, active, checkpoint, alone, daemonOthers>>

DaemonReads ==
    /\ daemon.pc = "reading"
    /\ IF row \in {"none", "over"} THEN Turns("dropping", "none") ELSE Turns("read", row)
    /\ UNCHANGED <<state, active, checkpoint, pipe, tracked, alone, daemonOthers>>

\* What was read is taken for the run, and its pipeline started, whatever happened meanwhile.
DaemonAdopts ==
    /\ daemon.pc = "read"
    /\ Adopts(daemon.snap) /\ Launches
    /\ Turns("dropping", "none")
    /\ UNCHANGED <<checkpoint, alone, daemonOthers>>

DaemonDrops ==
    /\ daemon.pc = "dropping"
    /\ checkpoint' = FALSE /\ daemon' = NoTick
    /\ UNCHANGED <<state, active, pipe, tracked, alone, daemonOthers>>

----------------------------------------------------------------------------
PipeStep(p) ==
    PipeStarts(p) \/ PipeWorks(p) \/ PipeCloses(p) \/ PipeMarks(p) \/ PipeEnds(p)

DeleteStep(c) ==
    \/ DeleteWaited(c) \/ DeleteTimesOut(c) \/ DeleteChecks(c) \/ DeletePops(c)
    \/ DeleteRow(c) \/ DeleteApprovals(c)

CancelStep(c) == CancelLooks(c) \/ CancelStrikes(c)

DaemonStep ==
    DaemonLists \/ DaemonSkips \/ DaemonTakes \/ DaemonReads \/ DaemonAdopts \/ DaemonDrops

Next ==
    \/ \E p \in Pipe : PipeStep(p)
    \/ \E c \in Client :
          \/ \E op \in {"reply", "resume"} : CallBegins(c, op)
          \/ CallReads(c) \/ CallAdopts(c) \/ CallSaved(c)
          \/ \E op \in {"cancel", "delete"} : CancelBegins(c, op)
          \/ DeleteBegins(c) \/ CancelStep(c) \/ DeleteStep(c)
    \/ DaemonStep

Spec == Init /\ [][Next]_vars

----------------------------------------------------------------------------
(* Once delete_run has answered that the run is deleted, and neither the daemon nor another client
   was at the run in the meantime and the pipeline ended in time, nothing brings the run back: no
   row, no approval, no state in memory and no pipeline that still works, whatever the clients ask
   for later and although its checkpoint is still there.  (With others at the run it may come back:
   a tick that finds the checkpoint of a paused run between the look at run_tasks and the removal of
   the row starts a pipeline that nobody can find.) *)
DeletedStaysDeleted ==
    answered /\ alone =>
        /\ active = 0 /\ row = "none" /\ ~approvals
        /\ \A p \in Pipe : ~Alive(p)
=============================================================================
