---------------------------- MODULE AgenticLoop ----------------------------
(***************************************************************************)
(* A run of the agentic pipeline: AgenticLoop.run with its fast path, the  *)
(* model's turns, the tool calls and subagent branches of a turn, and what *)
(* runtime_manager.py makes of its result: pause, completion, or the fall  *)
(* back to the local pipeline.  ActionExecutor, which executes a task, is  *)
(* RunLifecycle's; here a task just ends in one of the ways it lets its    *)
(* caller see.  A call of the model is named by its step and its place in  *)
(* the turn.                                                               *)
(***************************************************************************)
EXTENDS Sequences, FiniteSets, ModelTurn

CONSTANTS
    Turns,      \* the turns with tool calls the model may answer with
    Branch,     \* branches of a subagent call
    Complexity, \* what _complexity_from_state may do: "raises", "answers"
    MaxSteps,   \* max_steps of an invocation
    MaxTurns,   \* bound: the last step in which the model calls tools
    MaxReplies, \* bound: replies of the user in one behaviour
    MaxResumes  \* bound: resumed invocations in one behaviour

Kind == {"read", "write", "bad", "ask", "sub"}

ASSUME LoopAssumption ==
    /\ Turns \subseteq Seq(Kind) \ {<<>>}
    /\ IsFiniteSet(Branch) /\ Complexity \subseteq {"raises", "answers"}
    /\ {MaxSteps, MaxTurns, MaxReplies, MaxResumes} \subseteq Nat /\ MaxSteps # 0

VARIABLES
    status,    \* state["status"]
    handoff,   \* state["pending_handoff"]: whether it is answered, and the call it answers
    cancel,    \* the run's cancel event is set, the pipeline's task.cancel() called
    session,   \* state["agent_session"]: its step, and the calls its messages leave unanswered
    task,      \* state["tasks"]: the status of the task made for each call
    running,   \* tasks being executed
    disclosed, \* state["_disclosure_expansion_step"]
    inv,       \* the invocation of the pipeline: its place and its locals
    replies, resumes \* calls so far

vars == <<status, handoff, cancel, session, task, running, disclosed, inv, replies, resumes>>

Terminal == {"completed", "failed", "cancelled"}
Status == {"planning", "resuming", "running", "cancelling", "awaiting_input", "paused"} \cup Terminal

LastStep == MaxSteps * (1 + MaxResumes)
Place == UNION {DOMAIN t : t \in Turns}
\* Tasks no call of the model stands for: the fast path's, and the one the local plan begins with.
FastTasks == {<<0, i>> : i \in 1 .. MaxResumes + 1}
LocalTask == <<0, MaxResumes + 2>>
Call == ((1 .. MaxTurns) \X Place) \cup FastTasks \cup {LocalTask}
NoCall == <<0, 0>>
BranchStatus == {"none", "waiting", "asking", "satisfied", "completed", "failed",
                 "budget_exceeded", "timeout", "cancelled"}

(* How ActionExecutor.execute may end for its caller: a result ("completed", "failed"), or an     *)
(* exception: "paused" after a question was stored, "install" after the question without a        *)
(* handoff_id, "raised" after _fail_run.  The task itself is then failed.                         *)
Outcome == {"completed", "failed", "paused", "install", "raised"}
Exceptions == {"paused", "install", "raised"}
Ended == {"completed", "failed", "invalid", "cancelled"}

\* Mutant of StatusOf: the caller's view is written into the task.
StatusAsSeen(how) == how
StatusOf(how) == IF how = "completed" THEN "completed" ELSE "failed"

Invocation ==
    [pc : {"none", "start", "fast", "summarize", "head", "ask", "subs", "branches", "plan",
           "gather", "serial", "answer", "fallback", "local"},
     start : 0 .. LastStep, step : 0 .. LastStep,
     turn : Turns \cup {<<>>},
     open : SUBSET Call,              \* calls its messages leave unanswered
     thrown : SUBSET Exceptions,      \* what left a task, until the loop looks at it
     group : Call \cup {NoCall}, stop : BOOLEAN, \* the subagent call, its stop_on_first_success
     branch : [Branch -> BranchStatus],
     question : Question,             \* ModelTurn
     spent : BOOLEAN]                 \* the cost tracker has recorded a turn

NoInvocation ==
    [pc |-> "none", start |-> 0, step |-> 0, turn |-> <<>>, open |-> {}, thrown |-> {},
     group |-> NoCall, stop |-> FALSE, branch |-> [b \in Branch |-> "none"],
     question |-> FreshConfig, spent |-> FALSE]

NoQuestion == [state |-> "none", call |-> NoCall]
WaitsForAnswer(c) == [state |-> "pending", call |-> c]

Init ==
    /\ status = "planning" /\ handoff = NoQuestion /\ cancel = FALSE
    /\ session = [step |-> 0, open |-> {}]
    /\ task = [c \in Call |-> "none"] /\ running = {}
    /\ disclosed = 0
    /\ inv = [NoInvocation EXCEPT !.pc = "start"]
    /\ replies = 0 /\ resumes = 0

FastTask == <<0, resumes + 1>>
AtCall(i) == <<inv.step, i>>
Calls(kinds) == {AtCall(i) : i \in {j \in DOMAIN inv.turn : inv.turn[j] \in kinds}}
Planned == Calls({"read", "write"})
Earliest(calls) == CHOOSE c \in calls : \A d \in calls : c[2] <= d[2]

At(pc) == inv.pc = pc /\ ~cancel
Ends(s) == inv' = NoInvocation /\ status' = s
Goes(i, pc) == inv' = [i EXCEPT !.pc = pc] /\ UNCHANGED status
\* Local variables of a turn end with it.
TurnOver == [inv EXCEPT !.turn = <<>>, !.thrown = {}]

client == <<cancel, replies, resumes>>

----------------------------------------------------------------------------
(* _run_pipeline, AgenticLoop.run up to its loop, intent_fast_path *)

PipeStarts ==
    /\ At("start")
    /\ status' = IF resumes = 0 THEN "planning" ELSE "resuming"
    /\ LET new == [NoInvocation EXCEPT !.start = session.step, !.step = session.step,
                                       !.open = session.open]
       IN \/ inv' = [new EXCEPT !.pc = "head"] /\ UNCHANGED <<task, running>>
          \/ /\ session.step = 0
             /\ inv' = [new EXCEPT !.pc = "fast"]
             /\ running' = {FastTask} /\ task' = [task EXCEPT ![FastTask] = "running"]
    /\ UNCHANGED <<handoff, session, disclosed, client>>

\* Whatever the task raised is caught: an exception, and RunPausedError is one, means None.
FastTaskDone ==
    /\ At("fast") /\ running = {}
    /\ Goes([inv EXCEPT !.thrown = {}],
            IF task[FastTask] = "completed" THEN "summarize" ELSE "head")
    /\ UNCHANGED <<handoff, session, task, running, disclosed, client>>

FastSummarizes ==
    /\ At("summarize")
    /\ \/ Ends("completed") /\ session' = [step |-> 1, open |-> {}]
       \/ Goes(inv, "head") /\ UNCHANGED session
    /\ UNCHANGED <<handoff, task, running, disclosed, client>>

----------------------------------------------------------------------------
(* A step of the loop: what is checked before the model is asked, and its answer *)

StepBegins ==
    /\ At("head") /\ inv.step < inv.start + MaxSteps
    /\ session' = [session EXCEPT !.step = inv.step + 1]
    /\ LET next == [inv EXCEPT !.step = @ + 1]
       IN \/ "raises" \in Complexity /\ Goes(next, "fallback")
          \/ /\ "answers" \in Complexity
             /\ Goes([next EXCEPT !.question = Asked(@)], "ask")
    /\ UNCHANGED <<handoff, task, running, disclosed, client>>

\* The loop returns a result: the run is completed with what there is.
Completes ==
    /\ Ends("completed")
    /\ session' = [step |-> inv.step, open |-> inv.open]

OverBudget ==
    /\ At("head") /\ inv.step < inv.start + MaxSteps /\ inv.spent
    /\ Completes
    /\ UNCHANGED <<handoff, task, running, disclosed, client>>

OutOfSteps ==
    /\ At("head") /\ inv.step = inv.start + MaxSteps
    /\ Goes(inv, "fallback")
    /\ UNCHANGED <<handoff, session, task, running, disclosed, client>>

PostFails(error) ==
    /\ At("ask")
    /\ IF GivesUp(inv.question, error)
       THEN Completes
       ELSE Goes([inv EXCEPT !.question = Reposted(@, error)], "ask") /\ UNCHANGED session
    /\ UNCHANGED <<handoff, task, running, disclosed, client>>

\* An answer that cannot be read, or an error of a kind nothing handles.
PostEscapes ==
    /\ At("ask")
    /\ Goes([inv EXCEPT !.question = Over(@)], "fallback")
    /\ UNCHANGED <<handoff, session, task, running, disclosed, client>>

ModelSays ==
    /\ At("ask")
    /\ \/ Completes
       \/ /\ Goes([inv EXCEPT !.question = Over(@), !.spent = TRUE], "fallback") \* says nothing
          /\ UNCHANGED session
    /\ UNCHANGED <<handoff, task, running, disclosed, client>>

\* request_user_input ends the turn at once: its other calls are left as they are.
ModelCalls(t) ==
    /\ At("ask") /\ inv.step <= MaxTurns
    /\ LET open == inv.open \cup {AtCall(i) : i \in DOMAIN t}
           asks == {AtCall(i) : i \in {j \in DOMAIN t : t[j] = "ask"}}
           taken == [inv EXCEPT !.turn = t, !.open = open, !.question = Over(@), !.spent = TRUE]
       IN /\ session' = [step |-> inv.step, open |-> open]
          /\ IF asks # {}
             THEN handoff' = WaitsForAnswer(Earliest(asks)) /\ Ends("awaiting_input")
             ELSE /\ Goes(taken, IF \E i \in DOMAIN t : t[i] = "sub" THEN "subs" ELSE "plan")
                  /\ UNCHANGED handoff
    /\ UNCHANGED <<task, running, disclosed, client>>

----------------------------------------------------------------------------
(* Subagent calls come first, one after the other; their branches run side by side. *)

\* Mutant of SubsLeft: a call that has been executed is not left out.
SubsLeftAll == Calls({"sub"})

SubsLeft == {c \in Calls({"sub"}) : inv.group = NoCall \/ c[2] > inv.group[2]}
Unfinished(b) == inv.branch[b] \in {"waiting", "asking"}
Satisfied == \E b \in Branch : inv.branch[b] = "satisfied"
SetBranch(b, s) == Goes([inv EXCEPT !.branch[b] = s], "branches")

\* A call without the right action or without branches is answered without any.
SubBegins(stop) ==
    /\ At("subs") /\ SubsLeft # {}
    /\ LET sub == [inv EXCEPT !.group = Earliest(SubsLeft), !.stop = stop]
       IN \/ Goes([sub EXCEPT !.branch = [b \in Branch |-> "waiting"]], "branches")
          \/ Goes([sub EXCEPT !.branch = [b \in Branch |-> "none"]], "subs")
    /\ UNCHANGED <<handoff, session, task, running, disclosed, client>>

BranchStarts(b) ==
    /\ At("branches") /\ inv.branch[b] = "waiting"
    /\ IF inv.stop /\ Satisfied THEN SetBranch(b, "cancelled")
       ELSE SetBranch(b, "asking") \/ SetBranch(b, "budget_exceeded")
    /\ UNCHANGED <<handoff, session, task, running, disclosed, client>>

\* A branch has one question: if the model answers with tool calls, planning them awaits the
\* result of an emit that is not a coroutine, and the branch fails before any of them runs.
BranchEnds(b) ==
    /\ At("branches") /\ inv.branch[b] = "asking"
    /\ \E how \in {"satisfied", "completed", "failed", "budget_exceeded", "timeout"} :
          SetBranch(b, how)
    /\ UNCHANGED <<handoff, session, task, running, disclosed, client>>

\* Mutant of BranchesCollected: once a branch is satisfied the others are not waited for.
FirstCollected == Satisfied \/ \A b \in Branch : ~Unfinished(b)

\* gather waits for every branch; with stop_on_first_success the others are cancelled, and waited
\* for, as soon as one is satisfied.
BranchesCollected == \A b \in Branch : ~Unfinished(b)

BranchesStop ==
    /\ At("branches") /\ inv.stop /\ Satisfied /\ \E b \in Branch : Unfinished(b)
    /\ Goes([inv EXCEPT !.branch =
                [b \in Branch |-> IF Unfinished(b) THEN "cancelled" ELSE @[b]]], "branches")
    /\ UNCHANGED <<handoff, session, task, running, disclosed, client>>

SubEnds ==
    /\ At("branches") /\ BranchesCollected
    /\ Goes(inv, "subs")
    /\ UNCHANGED <<handoff, session, task, running, disclosed, client>>

SubsAnswered ==
    /\ At("subs") /\ SubsLeft = {}
    /\ LET open == inv.open \ Calls({"sub"})
           answered == [inv EXCEPT !.open = open, !.group = NoCall, !.stop = FALSE,
                                   !.branch = NoInvocation.branch]
       IN /\ Goes(answered, IF Calls({"read", "write", "bad"}) = {} THEN "head" ELSE "plan")
          /\ session' = [session EXCEPT !.open = open]
    /\ UNCHANGED <<handoff, task, running, disclosed, client>>

----------------------------------------------------------------------------
(* The other calls: planned, those before the first mutation executed together, then the rest *)

\* Mutant of Independent: the call that mutates is still taken into the group.
IndependentWithFirst ==
    {c \in Planned : \A d \in Planned : (d[2] < c[2]) => inv.turn[d[2]] # "write"}

Independent ==
    IF \A c, d \in Planned : c = d THEN Planned
    ELSE {c \in Planned : \A d \in Planned : (d[2] <= c[2]) => inv.turn[d[2]] # "write"}
Dependent == Planned \ Independent

\* Mutant of Invalid: a call that does not validate is dropped without an answer.
InvalidDropped == {}

\* Calls that planning answers itself.
Invalid == Calls({"bad"})

Launches(calls) ==
    /\ running' = calls
    /\ task' = [c \in Call |-> IF c \in calls THEN "running" ELSE task[c]]
    /\ status' = IF calls = {} THEN status ELSE "running"

\* The answer of an invalid call reaches the session with the next call that is planned.
TurnPlanned ==
    /\ At("plan")
    /\ inv' = [inv EXCEPT !.open = @ \ Invalid, !.pc = IF Independent = {} THEN "serial" ELSE "gather"]
    /\ session' = [session EXCEPT !.open = @ \ {c \in Invalid : \E d \in Planned : c[2] < d[2]}]
    /\ running' = Independent
    /\ task' = [c \in Call |-> CASE c \in Invalid -> "invalid"
                                 [] c \in Independent -> "running"
                                 [] c \in Dependent -> "pending"
                                 [] OTHER -> task[c]]
    /\ status' = IF Independent = {} THEN status ELSE "running"
    /\ UNCHANGED <<handoff, disclosed, client>>

TaskLeaves(c, how, asked) ==
    /\ ~cancel /\ c \in running
    /\ running' = running \ {c}
    /\ task' = [task EXCEPT ![c] = StatusOf(how)]
    /\ handoff' = IF asked \/ how \in {"paused", "install"} THEN WaitsForAnswer(NoCall) ELSE handoff

\* A question stored inside execute may be swallowed there and the task go on (RunLifecycle).
TaskEnds(c, how, asked) ==
    /\ inv.pc # "local"
    /\ TaskLeaves(c, how, asked)
    /\ inv' = [inv EXCEPT !.thrown = @ \cup ({how} \cap Exceptions)]
    /\ status' = CASE how \in {"paused", "install"} -> "awaiting_input"
                   [] how = "raised" -> "failed"
                   [] OTHER -> IF asked THEN "running" ELSE status
    /\ UNCHANGED <<session, disclosed, client>>

\* RunPausedError leaves _run_pipeline: what the session has saved is what a resume begins with.
\* gather returns exceptions: that one is raised again, any other is an answer like another.
GatherEnds ==
    /\ At("gather") /\ running = {}
    /\ IF "paused" \in inv.thrown THEN Ends(status)
                                  ELSE Goes([inv EXCEPT !.thrown = {}], "serial")
    /\ UNCHANGED <<handoff, session, task, running, disclosed, client>>

SerialNext ==
    /\ At("serial") /\ running = {} /\ inv.thrown = {}
    /\ LET left == {c \in Dependent : task[c] = "pending"}
       IN /\ Launches(IF left = {} THEN {} ELSE {Earliest(left)})
          /\ inv' = [inv EXCEPT !.pc = IF left = {} THEN "answer" ELSE "serial"]
    /\ UNCHANGED <<handoff, session, disclosed, client>>

SerialThrows ==
    /\ At("serial") /\ inv.thrown # {}
    /\ IF inv.thrown = {"paused"} THEN Ends(status) ELSE Goes(TurnOver, "fallback")
    /\ UNCHANGED <<handoff, session, task, running, disclosed, client>>

TurnAnswered ==
    /\ At("answer")
    /\ LET open == inv.open \ Planned
           failed == Invalid # {} \/ \E c \in Planned : task[c] # "completed"
       IN /\ Goes([TurnOver EXCEPT !.open = open], "head")
          /\ session' = [session EXCEPT !.open = IF Planned = {} THEN @ ELSE open]
          /\ disclosed' = IF failed /\ disclosed < 2 THEN disclosed + 1 ELSE disclosed
    /\ UNCHANGED <<handoff, task, running, client>>

----------------------------------------------------------------------------
(* _fallback_to_local: the local pipeline takes the tasks that are there (TaskPipeline has its    *)
(* batches; here one at a time), or its own plan if there are none.                               *)

FallsBack ==
    LET made == {c \in Call : task[c] # "none"}
        done == {c \in made : task[c] = "completed"}
    IN /\ At("fallback")
       /\ \/ Ends("completed") /\ UNCHANGED task \* all is done, or the planner finds nothing to do
          \/ /\ done = {} \/ made # done
             /\ inv' = [inv EXCEPT !.pc = "local"] /\ status' = "running"
             /\ task' = IF made = {} THEN [task EXCEPT ![LocalTask] = "pending"] ELSE task
       /\ UNCHANGED <<handoff, session, running, disclosed, client>>

\* Mutant of Runnable: what failed in the loop is tried once more.
RunnableOnceMore == {"pending", "failed"}

Runnable == {"pending"}

LocalLaunches(c) ==
    /\ At("local") /\ running = {} /\ task[c] \in Runnable
    /\ Launches({c})
    /\ UNCHANGED <<inv, handoff, session, disclosed, client>>

\* Every exception of the local pipeline, a pause too, fails the run.
LocalTaskEnds(c, how, asked) ==
    /\ At("local")
    /\ TaskLeaves(c, how, asked)
    /\ IF how \in Exceptions THEN Ends("failed") ELSE UNCHANGED <<inv, status>>
    /\ UNCHANGED <<session, disclosed, client>>

LocalEnds ==
    /\ At("local") /\ running = {} /\ \A c \in Call : task[c] \notin Runnable
    /\ Ends("completed")
    /\ UNCHANGED <<handoff, session, task, running, disclosed, client>>

----------------------------------------------------------------------------
(* The client: cancel_run, reply_to_run, resume_run *)

\* The task that is marked is the current one, whatever its status, or the first that is not over.
CancelRun ==
    /\ status \notin Terminal /\ ~cancel
    /\ cancel' = TRUE /\ status' = "cancelling"
    /\ \/ UNCHANGED task
       \/ \E c \in Call : task[c] # "none" /\ task' = [task EXCEPT ![c] = "cancelled"]
    /\ UNCHANGED <<handoff, session, running, disclosed, inv, replies, resumes>>

\* task.cancel() strikes the pipeline, and all it waits for, at the await where they are; the
\* event of a run that is over is dropped.
PipeCancelled ==
    /\ cancel /\ inv.pc # "none"
    /\ Ends("cancelled")
    /\ cancel' = FALSE /\ running' = {}
    /\ UNCHANGED <<handoff, session, task, disclosed, replies, resumes>>

Reply ==
    /\ replies < MaxReplies /\ handoff.state # "none"
    /\ replies' = replies + 1
    /\ handoff' = [handoff EXCEPT !.state = "answered"]
    /\ status' = "paused"
    /\ UNCHANGED <<cancel, session, task, running, disclosed, inv, resumes>>

\* The answer of request_user_input is appended to the session's messages.
Resume ==
    /\ resumes < MaxResumes /\ status \notin Terminal /\ handoff.state # "pending"
    /\ handoff' = NoQuestion
    /\ session' = [session EXCEPT !.open = @ \ {handoff.call}]
    /\ IF inv.pc = "none"
       THEN resumes' = resumes + 1 /\ inv' = [inv EXCEPT !.pc = "start"]
       ELSE UNCHANGED <<resumes, inv>>
    /\ UNCHANGED <<status, cancel, replies, task, running, disclosed>>

----------------------------------------------------------------------------
PipeStep ==
    \/ PipeStarts \/ FastTaskDone \/ FastSummarizes
    \/ StepBegins \/ OverBudget \/ OutOfSteps
    \/ (\E e \in PostError : PostFails(e)) \/ PostEscapes \/ ModelSays
    \/ (\E t \in Turns : ModelCalls(t))
    \/ (\E stop \in BOOLEAN : SubBegins(stop)) \/ BranchesStop \/ SubEnds \/ SubsAnswered
    \/ (\E b \in Branch : BranchStarts(b) \/ BranchEnds(b))
    \/ TurnPlanned \/ GatherEnds \/ SerialNext \/ SerialThrows \/ TurnAnswered
    \/ (\E c \in Call, how \in Outcome, asked \in BOOLEAN :
            TaskEnds(c, how, asked) \/ LocalTaskEnds(c, how, asked))
    \/ FallsBack \/ (\E c \in Call : LocalLaunches(c)) \/ LocalEnds
    \/ PipeCancelled

Next == PipeStep \/ CancelRun \/ Reply \/ Resume

\* The event loop goes on with a pipeline that can go on: posts and tools end or time out.
Spec == Init /\ [][Next]_vars /\ WF_vars(PipeStep)

----------------------------------------------------------------------------
(* Properties *)

TypeOK ==
    /\ status \in Status
    /\ handoff \in [state : {"none", "pending", "answered"}, call : Call \cup {NoCall}]
    /\ cancel \in BOOLEAN
    /\ session \in [step : 0 .. LastStep, open : SUBSET Call]
    /\ task \in [Call -> {"none", "pending", "running"} \cup Ended]
    /\ running \subseteq Call
    /\ disclosed \in 0 .. 2
    /\ inv \in Invocation
    /\ replies \in 0 .. MaxReplies /\ resumes \in 0 .. MaxResumes

\* The messages the model gets answer every call it has made in this invocation, whatever path
\* the call took (not valid, executed in the group or alone, failed, a subagent's): a provider
\* refuses a transcript with an unanswered call.  Only a turn that a pause or a cancel cut short
\* comes back unanswered, in the messages a resume begins with.
AnsweredBeforeAsked == inv.pc = "ask" => \A c \in inv.open : c[1] <= inv.start

\* README.md:66 - only independent calls run in parallel: a call that mutates runs alone.
MutatorAlone ==
    \A c, d \in running : (c # d /\ c[1] = inv.step) => inv.turn[c[2]] # "write"

\* The three nested retry loops of a turn stay within their product: no turn posts more often.
PostsBounded == inv.question.posts <= MostPosts

\* No branch goes on asking the model after the subagent call it belongs to is answered.
NoBranchLeft == inv.pc # "branches" => \A b \in Branch : ~Unfinished(b)

\* A task that has ended is not executed again: not by the loop, the fallback or a resume.
WhatIsDoneStaysDone ==
    [][\A c \in Call : task[c] \in Ended => c \notin running' \ running]_vars

\* README.md:103 - the local pipeline takes over when the model fails: every fallback comes after
\* the model was asked in this invocation.
FallbackHasCause == inv.pc = "fallback" => inv.question.posts > 0

\* README.md:265 - a run that has asked the user waits for the answer.
AskedRunWaits == handoff.state = "pending" => status \notin {"completed", "failed"}

\* Every invocation comes to an end: the steps, the retries and the branches run out.
InvocationsEnd == <>[](inv.pc = "none")
=============================================================================
