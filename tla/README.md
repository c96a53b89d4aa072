# PHYLUM runtime: TLA+ models and proofs

PHYLUM is a Python backend (FastAPI and asyncio, SQLite through aiosqlite) that takes goals and
runs from a desktop client, plans tasks or lets a model call tools, asks the user for approvals
and answers, and survives restarts. This directory holds TLA+ models of the parts where order,
concurrency and failure matter, TLC configurations that check them on small instances, and TLAPS
proofs of their safety for instances of any size. Paths below are relative to the repository.

## 1. The system

| component | state it keeps | operations | talks to |
|---|---|---|---|
| durable goal queue, `persistence/durable_queue.py` | table `goal_queue` | enqueue, dequeue, mark_*, promote_deferred, recover_stale_running | goal daemon, API |
| goal daemon, `core/runtime_manager.py` | the tick's local variables, `active_runs` | `_daemon_tick`, `_process_goal_queue`, `_submit_goal_run`, `_finalize_goal_for_run`, `cancel_goal` | queue, runs |
| run lifecycle, `core/runtime_manager.py` | `active_runs`, `run_tasks`, `run_cancel_events`, `approval_waiters` | `_run_pipeline`, cancel, reply, resume, delete, resolve_approval, `rehydrate_runs` | persistence, executor, clients |
| persistence, `persistence/agent_persistence.py` | `kv`, `approvals`, `job_checkpoints` | save_kv, set_approval, save/delete checkpoint | run lifecycle |
| action executor, `core/action_executor.py` | fields of the task | policy, approval, attempts, observation, recovery | run lifecycle, tools, recovery engine |
| task graph, `core/task_graph.py` | task statuses | next_batch, resolve_alternative_branches, mark_blocked_by_failed_dependencies | local pipeline |
| agentic loop, `core/agentic_loop.py`, `core/intent_fast_path.py` | messages, budgets, subagent branches | fast path, turns, tool calls, parallel branches, fallback | provider client, executor |
| provider client, `providers/multi_provider_client.py` | none that outlives a call | complete with retries, lighter payloads | agentic loop |
| sessions, `persistence/session_manager.py` | table `agent_sessions` | find_or_create, checkpoint, add_run, add_goal, advance_phase, close, expire_stale | daemon, API |
| UI lock and tool calls, `core/ui_lock.py`, `tools/tool_base.py`, `core/hung_process_reaper.py` | an asyncio lock, the tool's target context | run with timeout, acquire_operation, reap_if_hung | Windows, worker threads |
| process watchdog, `core/process_watchdog.py` | targets, their status and the actions taken | add_target, check_once, recovery, stop | Windows |
| skills, `core/skill_*.py`, `tools/tool_skill.py` | folder of a skill, index on disk and in memory | register, update, import, approve, evaluate, execute, verify | agentic loop, sandbox |
| state graph, `core/state_graph.py`, `core/graph_definitions.py` | visit counts, traversal log | run, find_recovery_target | runtime (recovery targets only) |
| event bus, `core/event_bus.py` | handlers, bounded history | emit, subscribe | WebSocket clients |
| safety, `safety/`, `nodes/nodes_safety.py` | none that outlives a call | verdict on a task, classification of a failure | executor |
| planning, memory, agents, other tools, execution, API, frontend, evaluation | see `PROJECT.json` | | |

Everything in the backend runs in one asyncio loop: two coroutines interleave only at an `await`,
but nearly every state change is followed by one, because it is saved. SQLite is reached through a
new connection per call, so the order in which two saves were issued is not the order in which they
take effect. Blocking calls run in worker threads, which nothing can interrupt. Components meet
through shared dictionaries (`active_runs`), awaited calls, futures (`approval_waiters`), events
(`run_cancel_events`), `task.cancel()`, files, and rows of the database that one tick of the daemon
writes and a later one reads.

What is hard, and what makes each part correct:

- **Queue and daemon.** A goal is claimed, started, marked running, finalized, given up as stale,
  cancelled and retried by different coroutines, each in several statements. Correct means: every
  execution is counted; nobody gets more attempts than allowed or is given up before; completed
  has a run behind it that completed; every goal is settled in the end.
- **Run lifecycle.** Cancel, reply, resume, approval, the resuming daemon and a restart meet the
  pipeline at any await. Correct means: no unapproved tool; a cancel is final and effective; a
  question stays until it is answered; no run looks active without a pipeline; a deleted run stays
  deleted.
- **Local pipeline.** Tasks of a batch execute concurrently, pause, fail and retry on their own.
  Correct means: dependencies first, mutators alone, one winner per alternative group, no blocked
  task without a cause, no successful tool repeated, and an end.
- **Agentic loop.** A turn mixes calls that are invalid, delegated, executed together and one by one;
  a request to the model is retried for five reasons, nested in one another; a pause, a cancel or an
  exception may leave at any of them, and a fallback goes on with what is left. Correct means: every
  call is answered before the model is asked again, mutating calls run alone, retries are bounded, no
  branch outlives its call, nothing is done twice, and every invocation ends.
- **UI lock, tool calls, watchdog.** A call that times out leaves its thread behind; the reaper kills
  a process so that the thread can end; two checks may be at one target. Correct means: one
  operation on the desktop at a time, and the process that is killed is the one that was meant, last.
- **Skills.** Code, manifest and index are three files written one after the other, edited behind the
  registry, and evaluated while others register. Correct means: what is executed was vouched for,
  and has passed its tests.
- **Sessions.** Rows are read in one statement and written back in another. Correct means: nothing
  that was added is lost, one session per workspace, and the end of a session is final.

`PROJECT.json` lists every component with its status, and under `hazards` the places where these
difficulties bite, with the property that would catch each of them.

## 2. Modules

| module | models | abstraction |
|---|---|---|
| `GoalContract` | what a client of the goal queue may rely on | verdict, attempts and runs of a goal |
| `DurableQueue` | the goal table; one operator per SQL statement | timestamps become "due" and "old" |
| `GoalDaemon` (extends it, implements `GoalContract`) | daemon tick split at its awaits, runs as the queue sees them, cancel_goal, cancel_run, crash | a run is a phase |
| `RunLifecycle` | one run: pipeline, clients, saves in flight, checkpoint, crash | one task; its scheduling is in `TaskPipeline` |
| `RunDeletion` | the end of a run: delete_run against clients, pipelines and the daemon | a run is the places its state lives in; a status is open, cancelling or over |
| `TaskGraph` | scheduler as functions of the statuses | sorting key is a constant |
| `TaskPipeline` (extends it) | batch loop and executor branches of several tasks | saves are immediate |
| `ModelTurn` | one question to the model with its nested retries | an error is one of seven kinds |
| `AgenticLoop` (extends it) | invocations of the agentic pipeline of one run | messages are the calls they leave unanswered; a task is one step from start to end |
| `ProcessWatchdog` | targets and checks of the watchdog | a process answers, is frozen or dead |
| `UITools` (extends it) | concurrent calls of the desktop tool, the lock, the reaper | what a call does is its thread |
| `SkillRegistry` | files and index of one skill, a crash between two writes | a checksum is the code itself |
| `SkillTool` (extends it) | concurrent evaluations and executions of the skill | a code passes its tests or does not |
| `Sessions` | rows of sessions, requests between read and write | one workspace |
| `MC*` | small instances | |
| `*Proofs` | TLAPS proofs, section 6 | |

### GoalContract, DurableQueue and GoalDaemon

`row` is the table. A method that selects and then updates is two steps of the caller, and what it
has read stays with the caller (`daemon.attemptRead`, `run[r].attemptRead`): `mark_failed` decides on
the attempt it read, `dequeue` updates by key whatever the status has become. `daemon.pc` names the
await at which the tick stands: promote, select and recover stale goals, resume checkpointed jobs,
count, dequeue, claim, submit, mark, and the exception path of `_process_goal_queue` (fail, judge).
`run[r].phase` says whether the daemon counts the run, whether a pipeline exists and how far
`_finalize_goal_for_run` is. `parked` has a pipeline that waits, `paused` and `stranded` have none;
only the latter two are resumed by the daemon. `cancel[c]` is a caller of `cancel_goal` or
`cancel_run` between its awaits. `Clock` lets scheduled times fall due and running goals grow old at
any time, so "stale but alive" is among the behaviours. After a crash a run that was not terminal in
the database is `paused`; whether the last status had been committed is a choice.

`torn` is a history variable: goals on which `mark_failed` wrote a verdict about an attempt that was
no longer the current one, because the goal was claimed again between its SELECT and its UPDATE.

`GoalContract` is what the client of all this may believe: a goal is accepted, attempted, started and
judged; a start needs an attempt that pays for it, a verdict needs its reason. A verdict is not final:
`dequeue` and `mark_running` have no condition on the status, and the contract says so. `GoalDaemon`
maps the table's status to a verdict and its runs to a count, and its property `KeepsContract` is that
every step is a step of the contract or none.

### RunLifecycle

`mem` is `active_runs[request_id]`, `saved` what the database holds, `unsaved[s]` the snapshot that
actor `s` is writing. The caller of `_persist_state` waits for its write, others do not, hence saves
overtake one another. `pipe` is the place of the pipeline task between awaits, `waiter` the approval
futures, `stop` the cancel event, `client[c]` the calls that are under way, `checkpoint` the row of
`job_checkpoints`. `CancelDelivers` is `task.cancel()`: it strikes the pipeline wherever it is.
`Crash` keeps `saved` and applies `rehydrate_runs`. The model keeps what the code does on its odd
paths: `RunPausedError` caught by the executor's own `except Exception` (`PipeCatchesPause`), the
KeyError of a question without `handoff_id` (`PipeUnasked`), a failed run that its parallel batch or
`_fallback_to_local` completes after all (`PipeFell`), approvals that may be answered twice.

### RunDeletion

`RunLifecycle` follows a run that exists, with one state in memory. When the run is removed there can be
several: whoever misses it in `active_runs` reads the row into an object of its own and puts that there.
So `state[o]` is the status of copy `o`, `active` the copy in `active_runs`, `pipe[p]` a pipeline with the
copy it works on, and `tracked` the pipeline that `run_tasks` names, which the `finally` of any pipeline
clears. `call[c]` is a call of a client between its awaits: `CancelBegins` to `CancelStrikes` is
`cancel_run`, alone or inside `delete_run`, whose further awaits are `DeleteWaited` to `DeleteApprovals`;
`CallBegins` to `CallSaved` stand for a reply and a resume. `alone` is a history variable: during the
delete_run there was no other call, no tick that found a checkpoint, no pipeline beyond the tracked one,
and no timeout of the wait. The model begins with a run just submitted, rehydrated, or over before the start.

### TaskGraph and TaskPipeline

`TaskGraph` gives `Settle` (skip losers of an alternative group, block dependents of failures),
`Ready` and `NextBatch`. Blocking, a loop until nothing changes in the code, is the least set closed
under the rule. `TaskPipeline` runs them: `Schedule` picks a batch, `Branch(t)` is
`ActionExecutor.execute` for one member, `BatchEnds` is the `gather` with its three ways out.
`RecordRaises` is an exception between the tool's return and the end of the record; the two handlers
that should absorb it name a `logger` that the module does not define. `LacksPackage` is
`_handle_dependency_install`. `succeeded` remembers what tools have really done, across crashes;
`replied` remembers answered questions.

### ModelTurn and AgenticLoop

A call of the model is named `<<step, place>>`, and the task made for it by the same name. `inv` is
the invocation of the pipeline: the await at which it stands and its local variables, among them the
calls its messages leave unanswered (`open`), the exceptions that left a task and that the loop has
not looked at (`thrown`) and the subagent branches. `session` is what a resume begins with. `PipeStarts`
to `FastSummarizes` are the intent fast path; `StepBegins` to `ModelCalls` a step, with its budget and
its question; `SubBegins` to `SubsAnswered` the subagent calls, one after the other, their branches
side by side; `TurnPlanned` to `TurnAnswered` the gathered and the serial part of the remaining calls;
`FallsBack` to `LocalEnds` the local plan. `TaskEnds` is how `ActionExecutor.execute` may end for its caller.
`PipeCancelled` is `task.cancel()` arriving at any await. `Complexity` says what
`_complexity_from_state` may do: as the code stands it raises (section 3), and the run `agentic` also
lets it answer, because everything behind it would otherwise be out of reach.

`ModelTurn` is a question: `complete` repeats a post up to three times, Groq tries each with a lighter
payload, and the loop escalates once to a stronger model and once to focused tools.

### ProcessWatchdog and UITools

`watch` holds the status made for a target each time it was added, `checker[k]` a call of `check_once`,
by the watchdog's loop or the tool, between its awaits. `proc` is what the system does: a process
freezes, thaws or ends by itself. `tried` and `raced` are histories: what was done to a process, and
that two recoveries of it were under way at once.

`call[c]` is a call of the tool, `thread[c]` its worker thread, which outlives a call that timed out.
`holder` and `waiters` are the asyncio lock. `context` is the tool's `_target_context`, one attribute for
all concurrent calls; `swapped` remembers the calls under whose feet another one changed it.

### SkillRegistry and SkillTool

`disk` holds the files, `index` the entry in memory. Every operation names the files it writes, in
order; `Remains` is what a crash leaves of them: the first ones new, one perhaps torn, the others old.
`EditCode` is a change behind the registry, `Verify` and its quarantine the answer to it. `vouched`
remembers codes that were trusted, `passed` codes that passed an evaluation in which only they ran,
`unsure` codes that were given the verdict of other code. `script` is `skill_script.py`, which all
executions of the skill share.

### Sessions

A request is split where another may come between: find, create, read, write. `client[c].row` is the
row it has read. `update_session` writes the columns it is given, and the model writes these and no
others. `raced` and `twin` name the two windows in which the code loses an addition or creates a
second session.

## 3. Runs

| run | checks | instance and size |
|---|---|---|
| `goal_safety` | type, `ExecutionsWithinAttempts`, `AttemptBudget`, `CompletedHasWitness`, `FailedIsExhausted`, `KeepsContract` | 1 goal with 2 attempts, 3 runs, 1 canceller, 1 slot, 1 park per run, 1 crash; 1.9 million states |
| `goal_liveness` | `GoalsSettle` | same with 2 runs, no crash; 612 000 states |
| `run` | type, `ApprovalGate`, `NoZombie`, `CancelHolds`, `QuestionKept`, `CancelEnds`, `CheckpointsCleaned` | approval required or denied, 2 approvals, 2 tool starts, 2 attempts, 3 calls, 1 crash; 239 000 states |
| `deletion` | `DeletedStaysDeleted` | 2 clients, 3 calls, 2 pipelines, 2 copies of the state; 3.9 million states |
| `task_pipeline` | type, `MutatorsAlone`, `BlockedHasCause`, `OneAlternative`, `DependenciesFirst`, `SucceededOnce`, `PipelineEnds` | 6 tasks, batches of 2, 2 attempts, 1 crash; 405 000 states |
| `agentic` | type, `AnsweredBeforeAsked`, `MutatorAlone`, `PostsBounded`, `NoBranchLeft`, `WhatIsDoneStaysDone`, `InvocationsEnd` | Groq, 2 branches, 2 steps of up to 2 calls of every kind, 1 reply, 1 resume; 660 000 states |
| `ui` | type, `OneInControl`, `ReapsOwnTarget`, `KillComesLast` | 2 locking calls, 2 processes, 2 checkers, 1 freeze, 1 target added anew; 3.3 million states |
| `skills` | type, `RunsVouchedCode`, `RunsEvaluatedCode` | 2 calls, a good and a bad code, 2 cases, 3 registrations, 2 edits, 1 crash; 921 000 states |
| `sessions` | type, `NothingLost`, `OneSession`, `EndedStaysEnded` | 3 clients, 2 sessions, 2 objectives, 2 columns, 1 phase; 1.5 million states |
| `agentic_model` | violation of `FallbackHasCause` | 1 step |
| `agentic_question` | violation of `AskedRunWaits` | 1 step, 1 reply |
| `skills_unevaluated` | violation of `EvaluatedBeforeRun` | as `skills`, without a crash |

Why the bounds are enough:

- Three runs for a goal that may be attempted twice let a third attempt happen if the code allowed
  it; one crash and one cancel already meet every place of the daemon and of a run. Interference
  between goals is only through the slots and the order of dequeue, and the theorems are about any
  number of goals.
- Two approvals are what a second attempt or a restart can create, two tool starts show a start
  after a cancel, a pause or an answer. Three calls fit a cancel between
  an answer and a resume; the theorems about the run are for any number.
- Three calls are a delete with others before, beside or after it, two pipelines and copies the one that
  is deleted and the one that somebody starts anew.
- The six tasks contain each feature of the scheduler once (alternatives, mutation, approval, denial,
  speculation, dependency on several tasks, an appended installer) in one connected graph, and two
  attempts give one retry of each.
- The turns of `agentic` are read with write, subagent with an invalid call, and write with a question:
  each kind of call meets another one. The second step shows what the first has left; one resume
  what an invocation has left. Two branches are what it takes for one to stop the other.
- Two calls with their own targets are enough to wait for the lock, to swap the context and to have a
  thread left over; two checkers to race; a target added anew once to forget what was done to it.
- Two codes, one of which fails its tests, and three registrations let a skill be replaced, and
  replaced back, while it is evaluated or executed; the crash falls between any two writes.
- Two columns and two adders show that one column does not take away the other, the third client is
  the one that ends or creates the session meanwhile.

Deadlock is not checked: a run that is over, or that waits for a user nobody simulates, stops.

### What the violation runs show

Each is a sentence of `README.md` that the code does not keep; `PROJECT.json` quotes it.

1. `agentic_model`: `_complexity_from_state` is a static method with a `self` parameter. Each step raises
   TypeError before the model is asked, and every run falls back to the local plan.
2. `agentic_question`: `RunPausedError` is an `Exception`. The fast path (`intent_fast_path.py:81`) and
   `_fallback_to_local` (`runtime_manager.py:1124`) catch it: the run goes on, or ends, with the
   question open.
3. `skills_unevaluated`: `SkillEvaluator.evaluate` stores its verdict under the name of the skill after
   its last await: code registered meanwhile is marked passed without a case of its own.

### Divergences without a run

Found while reading and modelling. The models behave as the code does; the properties are stated so that
they say what does hold.

Daemon and runs:

- `README.md:260` promises up to 3 simultaneous runs; a run that waits for the user is not counted
  (`runtime_manager.py:250`) and comes back on top of the three.
- `_resume_checkpointed_jobs` resumes a run whose question nobody has answered (374-412, against 561-563).
- A question raised inside the executor's `try` is swallowed by its handler (`action_executor.py:180`,
  248), and the tool may be started again while the question is open.
- A cancel of a run without a pipeline leaves it in `cancelling` (`runtime_manager.py:533`, `README.md:268`).
- A local task the user was asked about is `failed` and not runnable after the answer
  (`action_executor.py:249`, `task_graph.py:19`); so is a task left `running` by a crash.
- A deleted run may come back (`runtime_manager.py:602-628`): `delete_run` looks at `run_tasks` before its
  awaits and leaves the row of `job_checkpoints`, so a tick in between finds a paused run, or reads the row
  that is about to go, and starts a pipeline, which then works on where no call finds it. A reply that is
  being saved, or a pipeline that outlasts the wait, writes the row anew.
- The install question has no `handoff_id`: the pause raises KeyError and the run fails with the
  question open (`runtime_manager.py:2168`, `action_executor.py:480-492`, `README.md:224`).

Agentic loop:

- `_fail_run` inside `execute` may be followed by the loop going on: the run is failed, then completed.
- Calls beside `request_user_input`, or after a pause in their turn, stay unanswered in the transcript a
  resume sends; `AnsweredBeforeAsked` therefore excepts the messages an invocation began with.
- Branches of a subagent that call a tool fail: the `emit` they are given returns None and is awaited.
- `README.md:66` says results come in the original order; invalid and subagent calls are answered first.
- The budget of `README.md:81` is counted per invocation. A reply to a run that is over sets it paused.

UI, watchdog and reaper:

- `CursorGuard` never restores the cursor after an operation that moved it (`ui_lock.py:8-9`).
- `invoke_element` reads `rec.interference` before it is set; the record of an operation that timed
  out keeps `success=True`.
- `recovery_actions_taken` is never reset and a restart counts in it: after three actions a target that
  freezes again is left alone.
- Two checks at once skip an action of the ladder, and may restart a process twice (`raced`).
- The shared `_target_context` is overwritten or cleared by other calls (`swapped`): the reaper of a call
  that timed out may kill the target of another one.
- Input blocking, `acquire_simple` and `release_simple` have no caller outside tests.

Skills:

- `approve_trust` cannot approve altered code, although `skill_runner.py:259-265` tells the user to.
- An evaluation executes code without looking at its integrity or trust.
- Quarantine leaves `agent_available` set in the index.
- `register` signs what it is given with the local key: an untrusted import, exported and imported
  again, is trusted. Imports never copy `tests.json`.
- A torn index makes the registry forget all skills.

Sessions:

- Goal rows have no `session_id` (`runtime_manager.py:277`): a run of a goal never joins its session, and
  the update of `total_steps` (1453-1461) is never reached.
- A stale `advance_phase` may move `current_phase` back. It, `merge_context` and `cleanup_old` have no caller
  outside tests. `expires_at` is not extended by activity.

## 4. Properties worth explaining

- `ExecutionsWithinAttempts`: stale recovery may give back a goal whose run is alive; the second run
  is counted by its claim, so at no time has a goal more runs than attempts.
- `AttemptBudget` is stated for goals not in `torn`. The gap in `mark_failed` is real, and the
  theorem says that it is the only one.
- `GoalsSettle` holds although `mark_running` may come after the run's end and set the goal back to
  running, and although a cancelled run does not finalize its goal: stale recovery ends both.
- `KeepsContract` relates every step of every actor to a verdict with its reason; `Judge` covers several
  goals because stale goals are judged in one transaction.
- `CompletedHasWitness` and `FailedIsExhausted` tie the verdict in the table to what the runs did.
- `CancelHolds` says when an accepted cancel stops being binding: a reply, a resume that had passed
  its checks, or a restart.
- `DeletedStaysDeleted` is what `delete_run` does achieve: its wait ends the pipeline, and every later
  caller looks for the row before it adopts anything. `alone` names the company that breaks it.
- `SucceededOnce` holds across a crash between the tool's success and the record of it, because a
  task left `running` is not runnable. The price is that such a task is not run at all.
- `AnsweredBeforeAsked` is about all paths a call may take in a turn, five of them, and about what an
  exception on one of them does to the others.
- `MutatorAlone`: the split of a turn looks at what each call mutates and at the paths it names.
- `PostsBounded`: the product of the nested retries, not of one of them.
- `NoBranchLeft`: first success, timeout, exception and cancel each have to end the siblings.
- `WhatIsDoneStaysDone`: fast path, loop, fallback and resume share the tasks, and none repeats another's.
- `OneInControl`: of two threads at work, one belongs to a call that has timed out. Nothing stronger is
  true, since a thread cannot be stopped; a call that times out while it waits must not open the lock.
- `ReapsOwnTarget` names the only way the reaper kills a stranger: a context that was swapped.
- `KillComesLast` holds over freezes, thaws, cancels and targets added anew.
- `RunsVouchedCode`: of code, manifest and index any may be old, new or torn after a crash; still no
  code runs that nobody trusted. `RunsEvaluatedCode` is the same for the tests, outside `unsure`.
- `NothingLost`, `OneSession`: the lost update and the double creation are exactly the windows `raced`
  and `twin` name; another column is never taken away.
- `EndedStaysEnded`: a request that read an active row writes columns, not the row.

Each property of a passing run has a mutant in `PROJECT.json`: a definition with a plausible bug,
under which TLC finds the property violated.

## 5. Fairness

- `DaemonStep`, `Schedule`, `BatchEnds`, `Branch`, `PipeStep`, save and call steps are weakly fair: one
  loop schedules every ready coroutine, SQLite finishes its writes, and tools run under a timeout
  (`tools/tool_base.py`). The daemon loop catches every exception and ticks again.
- `PipeStep` of `AgenticLoop` is weakly fair: a post ends or runs into the client's timeout, a branch into
  its own, and a task ends. `InvocationsEnd` then rests on the limits of steps and retries.
- `RunProceeds` is weakly fair for runs that have a pipeline. It does not say that a run succeeds.
- `Clock` is weakly fair: time passes.
- Nothing a user does is fair: no answer, reply, resume or cancel is assumed. `PipelineEnds`
  therefore allows waiting for an approval.
- `UITools`, `SkillTool`, `Sessions` and `RunDeletion` state no fairness: a worker thread that waits for a
  frozen window may wait for ever, and the others are checked for safety only.

## 6. Proofs

The theorems hold for every value of the constants that satisfies the named assumptions of the modules:
finite sets, "no such" values that are not members, bounds that are naturals, a task graph whose
dependencies are tasks and have no cycle (`TaskGraph`, what `validate` checks), turns of any length and
number, but finitely many branches of a subagent call (`AgenticLoop`: the call lists them). TLC evaluates all of
them on the instances it runs. Every theorem follows one pattern: an inductive invariant, a lemma that it
holds initially, one lemma per operation or actor that it is preserved, and the property as a consequence.
The inductive invariants of the daemon, of the pipeline and of the deletion, `CauseInv`, and what
`DescentCorrect` and `CancelDescends` say of a step were run through TLC before they were proved.

| module | theorems | inductive invariant |
|---|---|---|
| `GoalDaemonProofs` | `TypeCorrect`, `FailedCorrect`, `BudgetCorrect`, `WitnessCorrect`, `ExecutionsCorrect`, `ContractKept` | `TypeInv`, `ReadInv`, `BudgetInv`, `SubmitHasAttempt`, `RefineInv` |
| `RunLifecycleProofs` | `TypeCorrect`, `NoZombieCorrect`, `GateCorrect`, `CancelCorrect`, `QuestionCorrect`, `CancelDescends` | `RunInv`, `GateInv` |
| `RunDeletionProofs` | `TypeCorrect`, `DeletionCorrect` | `DeletionInv`: `TypeInv`, `AloneInv`, `GoneInv` |
| `TaskPipelineProofs` | `TypeCorrect`, `MutatorsCorrect`, `BlockedCorrect`, `AlternativesCorrect`, `DependenciesCorrect`, `OnceCorrect`, `WorkCorrect`, `GoesOnCorrect`; of the scheduler alone `BatchCorrect`, `LeftBehind` | `PipelineInv`, `DescentInv` |
| `AgenticLoopProofs` | `TypeCorrect`, `AnsweredCorrect`, `MutatorCorrect`, `PostsCorrect`, `BranchCorrect`, `DoneCorrect`, `DescentCorrect`, `FallbackCorrect` | `Inv` of eight parts, `MadeInv`, `CauseInv` |
| `UIToolsProofs` | `TypeCorrect`, `QueueCorrect`, `ControlCorrect`, `ReapsCorrect`, `KillsLast` | `TypeInv`, `QueueInv`, `LockInv`, `ReapInv`, `LadderInv` |
| `SkillToolProofs` | `TypeCorrect`, `VouchedCorrect`, `EvaluatedCorrect` | `ToolInv` |
| `SessionsProofs` | `TypeCorrect`, `NothingLostCorrect`, `OneSessionCorrect`, `EndedCorrect` | `TypeInv`, `LossInv`, `SharedInv` |

**Goal daemon.** `TypeOK` is not inductive, since a step that writes `row[daemon.goal]` needs a goal
there; `TypeInv` adds that the daemon knows its goal between claim and verdict and that every used run
knows its goal. A verdict is written from an attempt that was read earlier: `ReadInv` states that
every attempt anybody has read is at most the row's (attempts only grow, lemma `AttemptsGrow`), that
recovery has read the current one (the daemon itself is the only one who claims), and that an absent row
has never been tried. Then `attemptRead >= MaxRetries` at the verdict implies the same of the row.
`BudgetInv` adds that goals waiting for another attempt and the goal about to be claimed are below the
budget unless torn; only a claim raises the attempt (`AttemptStep`). A row becomes completed only by the
step that completes its run, and a completed run stays so, across a crash too. Only `DaemonSubmit` adds
a run to a goal, and `SubmitHasAttempt` says that at that moment the claim has raised the attempt
beyond the runs there are; finiteness of `Run` gives the cardinalities.

**Contract.** For the refinement two more facts are needed (`HoldInv`): whoever holds a goal in its hand
holds one that was enqueued, else a verdict would appear on a goal nobody accepted; and a run that is
handed out belongs to no goal yet, else starting it for one goal would take it from another.

**Run.** `RunInv` has four parts. `OrderInv`: approvals are created in order, in memory, in the database
and in every write under way, so that what is overtaken or restored is a prefix of what there is; and
`resolve_approval` holds one that is answered. `WorkInv`: where the pipeline is when the status says work
goes on, from which `NoZombie`. `StopInv`: an accepted cancel that stands has its event set, or the run is
over, from which `CancelHolds`. `GateInv`: before the first assent nothing anywhere says approved,
neither memory nor database nor a write under way nor what a waiter was woken with. `GateCorrect` has the
condition `Guarded`, that the policy does not say allow: otherwise no approval is needed.
`CancelDescends` counts what a pipeline that a cancel has struck still has before it: three times the depth
of its place in the nested handlers, one for the save it waits for, one for a future it has still to make
(`Left`). Each of its steps, its save and the delivery of the cancel lower the count, which starts at 47 at
most, and no other call, save or pass of the daemon raises it while the cancel stands. A loop in the
handlers, a retry after the cancel or an approval asked for anew would each break it.

**Deletion.** `AloneInv` describes a `delete_run` that nobody disturbs: the one pipeline alive is the tracked
one until the wait is over, then none is; the memory is empty before the row goes, and the row before the
checkpoints and approvals. `GoneInv` is what it leaves: neither row nor copy nor approval, and no caller
between a read that succeeded and its adoption, hence nobody who could put the run back. The history
variable `alone` turns false at each of the ways to disturb (another call, a second pipeline, a tick with a
checkpoint in hand, the timeout of the wait), and the proof shows that there are no others.

**Pipeline.** `TaskInv` ties the record of a task, the place of its branch and what its tool has done
together, `BatchInv` says that a mutating member is the whole batch. `BlockedHasReason` is about the
least closed set that `Settle` blocks: each of its members has a dependency that failed or is blocked,
since the set without a member that has none would be closed too. `DependenciesFirst` and
`SucceededOnce` follow for each step from the invariant.
`Work` is the set of steps the tasks have left: twelve for each attempt not yet used and the rest of the
attempt under way. `WorkCorrect` says that no step adds to it while the pipeline is under way and that each
step of the pipeline takes from it: the set is finite, so neither retries, installed packages, refused
approvals nor exceptions keep the loop alive for ever. `DescentInv` says why: whoever may start a tool has
an attempt left, and a branch that is over leaves no open task in the batch. `GoesOnCorrect` adds that it is
not stuck either: a branch may go on, or waits for an approval that exists and can be given.

**Scheduler.** Two theorems about `TaskGraph` hold for any statuses, reachable or not. `BatchCorrect` is the
contract of `next_batch`. `LeftBehind` answers what a loop that ends with runnable tasks has left: following
unfinished dependencies one comes to a task that was skipped, was cut off while it ran or waits for an
answer, or to a speculative task whose dependency failed, which `block_dependents` passes over. The
descent along the graph is an induction on the depth that the absence of cycles gives.

**Agentic loop.** Types rest on `StepInv` (the steps of session and invocation agree, and an invocation
begins where the ones before it may have ended) and `TurnInv` (a turn is worked on only if it has no
question to the user). `Within` bounds the posts made so far by the rounds, attempts and payloads used up,
so that each of the four ways to post again has to use up one of them. `OpenInv` says of every place of a
turn which kinds of calls can still be unanswered there; at the question none is left but those from
before the invocation. `RunningInv` says that more than one task runs only in the group that is gathered,
and that only one task is left when an exception is looked at. `FreshInv` says which calls no task has
been made for: those of later steps, of the turn that is still to be planned, and the fast path's of later
invocations; what is begun is one of these or pending, hence nothing that has ended.

`DescentCorrect` is about the end of an invocation. A step count will not do as a measure, since a turn may
have any length and so may the work it brings. `ToGo` is lexicographic: how far the invocation is from
its last step and place; the depth of the place within the step; the posts, subagent calls and tasks that
are left there; the branches not begun and not ended. `BelowIsWellFounded` says that such fours cannot fall
for ever, and every step of the pipeline lowers `ToGo` or ends the invocation, while clients leave it or
lower it. The number of tasks left is a number only because of `MadeInv`: the model could make infinitely
many calls, but at any time it has made finitely many.

`FallbackCorrect` goes with the finding of the run `agentic_model`: where `_complexity_from_state` does not
raise, no fallback comes before the model was asked. The exception is thus the only cause of what that
run finds. `CauseInv` says at which places of an invocation the model has been asked.

**UI.** `LockInv`: the holder is the only call inside. `QueueInv`: the sequence of waiters holds each call that
waits once and no other, so that a call that times out while it waits leaves no place behind to which the
lock would be handed; `TypeCorrect` needs it for the call that is woken. `ReapInv`: as long as no other call has touched the
context it is the target of the call under way, and so is the victim taken from it. `LadderInv`: unless
two checks have raced, one check recovers a target, and what it does is what the actions recorded so far
lead to.

**Skills.** `RegistryInv`: a manifest that says trusted names code that was trusted, and one under an entry
that says passed names code that has passed or is in `unsure`, on disk and in memory, whichever of the
files a crash has left old. `RemainsEach` gives what a crash leaves, file by file. The proof failed at
first at the end of an evaluation whose code had been replaced and replaced back; `unsure` covers it now.

**Sessions.** `LossInv`: what a request is about to write holds all the column holds unless another has
read it too. `SharedInv`: if a request is creating, what can be found was created beside it.

Only model-checked is liveness (`GoalsSettle`, `CancelEnds`, `CheckpointsCleaned`, `PipelineEnds`,
`InvocationsEnd`), since the proof system has neither fairness nor ENABLED in reach. Of three of them the
safety core is proved: `CancelDescends` for `CancelEnds`, `WorkCorrect` and `GoesOnCorrect` for
`PipelineEnds`, `DescentCorrect` for `InvocationsEnd`. What is left to TLC there is that a fair step is
enabled and therefore taken. The two other settle by the clock and the daemon's ticks, which come again and
again, so that no measure of the state falls with each step. The three properties of the violation runs are false
and have no theorem. The models have no RECURSIVE operator.

## 7. Plan

Done, in this order because the daemon and the run are where a mistake costs a goal or an unapproved
action: `DurableQueue`, `GoalDaemon`, `RunLifecycle`, `TaskGraph`, `TaskPipeline`, then `ModelTurn` and
`AgenticLoop`, `ProcessWatchdog` and `UITools`, `SkillRegistry` and `SkillTool`, `Sessions`,
`GoalContract` with its refinement, and `RunDeletion`; the proofs of section 6.

Left:

1. Approval grants of run scope in `RunLifecycle`; script recovery in `TaskPipeline`.
2. `StateGraph`: executor with visit limit, compile checks, recovery targets, if the runtime comes to
   drive runs with it.
3. A composition of `RunLifecycle` and `TaskPipeline`, whose saves are immediate so far.

## 8. Not modelled

The map covers about a tenth of the lines of the implementation. The rest is, for the larger part, code
with no state that two actors share: text and prompt processing (`planner_agent`, `execution_economics`,
tool schemas, intents), source-tree analysis (`codebase_map`, `semantic_index`, `canonical_tools`),
automation of browsers, Windows and Office behind one tool call, adapters, record types and the user
interface. A model of these would restate the code without anything a step of another actor could disturb.

Of what is modelled, left out are:

- Queue: `cleanup_old`, listing, workspace filters (the daemon uses none), the textual comparison of
  `scheduled_at` with a naive UTC timestamp.
- Daemon: a crash between the first save of a run and the save of its `goal_id`; database errors other
  than those that make `_submit_goal_run` or `mark_running` fail (`_finalize_goal_for_run` swallows its
  own: the goal then waits for stale recovery); the deletion of the checkpoint of a goal's run.
- Run: a crash while a run is deleted (approvals may stay), `request_manual_approval`, grants of run scope, manual assist; `RunLifecycle` follows a
  run that a client submitted, without a goal.
- Pipeline: `optional` tasks (announced in a comment of `task_graph.py`, not implemented), the
  `manual_step` status (made `pending` by `prepare`), script recovery, pip install itself.
- Agentic loop: contents of prompts, transcripts and schemas, prices, the read-only filter of a branch and
  the turns of a branch beyond their outcome; restart (`RunLifecycle` has it).
- UI: input blocking and the cursor guard (Windows calls), `remove_target`, `acquire_simple`.
- Skills: discovery, export, validation of a manifest by its text, limits of the sandbox, PowerShell skills,
  more than one skill (they share nothing but the index file).
- Sessions: `cleanup_old`; `merge_context` (one more column, updated as `add_run` does); more than one
  workspace (rows of different workspaces never meet).
- State graph, event bus: reasons in `PROJECT.json`.
