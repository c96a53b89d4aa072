------------------------- MODULE TaskPipelineProofs -------------------------
(***************************************************************************)
(* Theorems about TaskPipeline and TaskGraph, for any graph of tasks, any  *)
(* verdicts of the policy and any bounds.                                  *)
(***************************************************************************)
EXTENDS TaskPipeline, FiniteSetTheorems, WellFoundedInduction, TLAPS

\* The record of a task, where its branch stands and what its tool has done go together.
Consistent(t) ==
    /\ status[t] = "absent" => pc[t] = "idle"
    /\ status[t] \in SUCCESS_STATUSES => t \in succeeded /\ pc[t] \in {"idle", "returned"}
    /\ t \in succeeded => /\ status[t] \in SUCCESS_STATUSES \cup {"running"}
                          /\ pc[t] \in {"idle", "record", "returned"}
    /\ pc[t] \in {"tool", "record"} => status[t] = "running" /\ attempt[t] # 0
    /\ pc[t] = "record" => /\ result[t] \in Outcome
                           /\ t \in succeeded <=> result[t] \in {"succeeded", "partial"}
    /\ pc[t] = "judge" => status[t] = "failed"
    /\ approval[t] = "pending" => pc[t] \in {"idle", "wait"} /\ status[t] = "waiting_approval"
    /\ approval[t] # "none" => Verdict[t] = "require_approval"

\* A task that has asked for a package is over.
Asked(t) ==
    InstallFor[t] # NoTask /\ status[InstallFor[t]] # "absent" =>
        status[t] = "failed" /\ pc[t] \in {"idle", "raised"}

DepsDone(t) ==
    pc[t] # "idle" /\ ~MayPrecedeDeps(t) => \A d \in Deps[t] : status[d] \in SUCCESS_STATUSES

\* What blocks an untried task is over: it is not in the batch.
Cause(t) ==
    status[t] = "blocked" /\ attempt[t] = 0
        => \E d \in Deps[t] : status[d] \in FAILING_STATUSES /\ pc[d] = "idle"

\* While an alternative that mutates state is under way, no other of its group has succeeded.
Sole(t) ==
    pc[t] # "idle" /\ t \in Mutating /\ Group[t] # NoGroup =>
        \A u \in Mutating \ {t} : Group[u] = Group[t] => status[u] \notin SUCCESS_STATUSES

BatchInv ==
    /\ \A t \in Task : pc[t] # "idle" => t \in batch
    /\ \A t \in batch \cap Mutating : batch = {t}
    /\ loop # "execute" => batch = {}

TaskInv == \A t \in Task : Consistent(t) /\ Asked(t) /\ DepsDone(t) /\ Cause(t) /\ Sole(t)
PipelineInv == TypeOK /\ TaskInv /\ BatchInv /\ OneAlternative

LEMMA Statuses ==
    /\ SUCCESS_STATUSES = {"completed", "partial"}
    /\ RUNNABLE_STATUSES = {"pending", "approved", "retry_scheduled"}
    /\ {"pending", "approved", "retry_scheduled", "running", "waiting_approval", "needs_input",
        "completed", "partial", "failed", "blocked", "cancelled", "rejected", "skipped"}
       \subseteq TaskStatus
    /\ "absent" \notin TaskStatus
    /\ FAILING_STATUSES = {"failed", "blocked", "cancelled", "rejected"}
BY DEF SUCCESS_STATUSES, RUNNABLE_STATUSES, TaskStatus, TERMINAL_STATUSES, FAILING_STATUSES

LEMMA PipelineInit == Init => PipelineInv
<1> SUFFICES ASSUME Init PROVE PipelineInv
  OBVIOUS
<1>1. TypeOK
  BY Statuses, NoTaskAssumption DEF Init, TypeOK, BranchPC, RunStatus
<1>2. BatchInv
  BY DEF Init, BatchInv
<1>3. ASSUME NEW t \in Task PROVE Consistent(t) /\ Asked(t) /\ DepsDone(t) /\ Cause(t) /\ Sole(t)
  <2>1. Consistent(t)
    BY Statuses DEF Init, Consistent
  <2>2. InstallFor[t] # NoTask => status[InstallFor[t]] = "absent"
    BY InstallForAssumption DEF Init, Installers
  <2>3. Asked(t) /\ DepsDone(t) /\ Cause(t) /\ Sole(t)
    BY <2>2 DEF Init, Asked, DepsDone, Cause, Sole
  <2> QED
    BY <2>1, <2>3
<1>4. OneAlternative
  BY Statuses, GraphAssumption DEF Init, OneAlternative
<1> QED
  BY <1>1, <1>2, <1>3, <1>4 DEF PipelineInv, TaskInv

----------------------------------------------------------------------------
(* Steps of a branch *)

\* The rest of the state a branch leaves alone.
Others(t) ==
    /\ UNCHANGED <<batch, loop, crashes>>
    /\ \A u \in Task \ {t} : /\ status'[u] = status[u] /\ approval'[u] = approval[u]
                             /\ pc'[u] = pc[u] /\ result'[u] = result[u]
                             /\ attempt'[u] = attempt[u]
                             /\ u \in succeeded' <=> u \in succeeded

\* A branch that is under way has succeeded at nothing but what it is recording.
LEMMA UnderWay ==
    ASSUME PipelineInv, NEW t \in Task, pc[t] \notin {"idle", "raised", "returned", "paused"}
    PROVE  /\ status[t] # "absent" /\ status[t] \notin SUCCESS_STATUSES
           /\ pc[t] # "record" => t \notin succeeded
           /\ InstallFor[t] # NoTask => status[InstallFor[t]] = "absent"
BY DEF PipelineInv, TaskInv, Consistent, Asked

LEMMA BranchFrame ==
    ASSUME PipelineInv, TypeOK', NEW t \in Task, Others(t), Consistent(t)',
           pc[t] \notin {"idle", "raised", "returned", "paused"}, pc'[t] # "idle",
           status'[t] # "absent",
           status'[t] = "blocked" => attempt'[t] # 0 \/ (status'[t] = status[t] /\ attempt'[t] = attempt[t])
    PROVE  PipelineInv'
<1>1. status[t] # "absent" /\ status[t] \notin SUCCESS_STATUSES
      /\ (InstallFor[t] # NoTask => status[InstallFor[t]] = "absent")
  BY UnderWay
<1>2. \A u \in Task : Consistent(u)'
  BY DEF PipelineInv, TaskInv, Others, Consistent
<1>3. \A u \in Task : InstallFor[u] # NoTask => InstallFor[u] \in Task
  BY InstallForAssumption
<1>4. \A u \in Task : status'[u] = "absent" <=> status[u] = "absent"
  BY <1>1 DEF Others
<1>5. \A u \in Task : Asked(u)'
  BY <1>1, <1>3, <1>4 DEF PipelineInv, TaskInv, Others, Asked
<1>6. \A d \in Task : status[d] \in SUCCESS_STATUSES => status'[d] = status[d]
  BY <1>1 DEF Others
<1>7. \A u \in Task : pc'[u] # "idle" => pc[u] # "idle"
  BY DEF Others
<1>8. \A u \in Task : DepsDone(u)'
  BY <1>6, <1>7, DepsAssumption DEF PipelineInv, TaskInv, DepsDone
<1>9. BatchInv'
  BY <1>7 DEF PipelineInv, BatchInv, Others
<1>10. \A u \in Task : Cause(u)'
  BY DepsAssumption DEF PipelineInv, TaskInv, Others, Cause
<1>11. \A u \in Mutating : pc[u] # "idle" => u = t
  BY GraphAssumption DEF PipelineInv, BatchInv
<1>12. \A u \in Task : Sole(u)'
  BY <1>7, <1>11, GraphAssumption DEF PipelineInv, TaskInv, Others, Sole
<1>13. OneAlternative'
  BY GraphAssumption DEF PipelineInv, TaskInv, Others, Sole, OneAlternative
<1> QED
  BY <1>2, <1>5, <1>8, <1>9, <1>10, <1>12, <1>13 DEF PipelineInv, TaskInv

LEMMA PolicyStep ==
    ASSUME PipelineInv, NEW t \in Task, PolicyAllows(t) \/ PolicyRefuses(t) \/ AsksApproval(t)
    PROVE  PipelineInv'
<1> USE DEF PipelineInv, TypeOK
<1>1. CASE PolicyAllows(t)
  <2>1. TypeOK' /\ Others(t) /\ pc[t] = "enter" /\ pc'[t] = "start"
        /\ status' = status /\ attempt' = attempt
    BY <1>1 DEF PolicyAllows, BranchGoes, BranchPC, RunStatus, Others
  <2>2. Consistent(t)'
    BY <1>1, <2>1 DEF PolicyAllows, TaskInv, Consistent
  <2> QED
    BY <2>1, <2>2, UnderWay, BranchFrame
<1>2. CASE PolicyRefuses(t)
  <2>1. PICK value \in {"failed", "rejected"} : FailsRun(t, "enter", value)
    BY <1>2 DEF PolicyRefuses
  <2>2. approval' = approval /\ succeeded' = succeeded /\ approval[t] # "pending"
    BY <1>2 DEF PolicyRefuses, TaskInv, Consistent
  <2>3. TypeOK' /\ Others(t)
    BY <1>2, <2>1, Statuses DEF PolicyRefuses, FailsRun, BranchGoes, SetStatus, BranchPC, RunStatus, Others
  <2>4. pc[t] = "enter" /\ pc'[t] = "raised" /\ status'[t] = value
    BY <2>1 DEF FailsRun, BranchGoes, SetStatus
  <2>5. Consistent(t)'
    BY <2>2, <2>4, Statuses DEF TaskInv, Consistent
  <2> QED
    BY <2>3, <2>4, <2>5, BranchFrame
<1>3. CASE AsksApproval(t)
  <2>1. TypeOK' /\ Others(t) /\ pc[t] = "enter" /\ pc'[t] = "wait"
        /\ status'[t] = "waiting_approval" /\ approval'[t] = "pending" /\ succeeded' = succeeded
    BY <1>3, Statuses DEF AsksApproval, BranchGoes, SetStatus, BranchPC, RunStatus, Others
  <2>2. Consistent(t)'
    BY <1>3, <2>1, Statuses DEF AsksApproval, TaskInv, Consistent
  <2> QED
    BY <2>1, <2>2, BranchFrame
<1> QED
  BY <1>1, <1>2, <1>3

LEMMA WakeStep == ASSUME PipelineInv, NEW t \in Task, ApprovalWakes(t) PROVE PipelineInv'
<1> USE DEF PipelineInv, TypeOK
<1>1. approval[t] # "pending" /\ succeeded' = succeeded /\ approval' = approval
  BY DEF ApprovalWakes
<1>2. CASE BranchGoes(t, "wait", "start") /\ UNCHANGED <<status, run>>
  <2>1. TypeOK' /\ Others(t) /\ pc[t] = "wait" /\ pc'[t] = "start"
        /\ status' = status /\ attempt' = attempt
    BY <1>2 DEF ApprovalWakes, BranchGoes, BranchPC, Others
  <2>2. Consistent(t)'
    BY <1>1, <2>1 DEF TaskInv, Consistent
  <2> QED
    BY <2>1, <2>2, UnderWay, BranchFrame
<1>3. CASE FailsRun(t, "wait", "rejected")
  <2>1. TypeOK' /\ Others(t) /\ pc[t] = "wait" /\ pc'[t] = "raised" /\ status'[t] = "rejected"
    BY <1>3, Statuses DEF ApprovalWakes, FailsRun, BranchGoes, SetStatus, BranchPC, RunStatus, Others
  <2>2. Consistent(t)'
    BY <1>1, <2>1, Statuses DEF TaskInv, Consistent
  <2> QED
    BY <2>1, <2>2, BranchFrame
<1> QED
  BY <1>2, <1>3 DEF ApprovalWakes

LEMMA StartStep == ASSUME PipelineInv, NEW t \in Task, StartsTool(t) PROVE PipelineInv'
<1> USE DEF PipelineInv, TypeOK
<1>1. /\ TypeOK' /\ Others(t) /\ pc[t] = "start" /\ pc'[t] = "tool" /\ status'[t] = "running"
      /\ approval' = approval /\ succeeded' = succeeded /\ attempt'[t] = attempt[t] + 1
  BY Statuses DEF StartsTool, BranchGoes, SetStatus, BranchPC, RunStatus, Others
<1>2. Consistent(t)'
  BY <1>1, Statuses DEF TaskInv, Consistent
<1> QED
  BY <1>1, <1>2, BranchFrame

LEMMA ReturnStep == ASSUME PipelineInv, NEW t \in Task, ToolReturns(t) PROVE PipelineInv'
<1> USE DEF PipelineInv, TypeOK
<1>1. PICK outcome \in Outcome :
          /\ BranchGoes(t, "tool", "record")
          /\ result' = [result EXCEPT ![t] = outcome]
          /\ succeeded' = IF outcome \in {"succeeded", "partial"} THEN succeeded \cup {t} ELSE succeeded
  BY DEF ToolReturns
<1>2. UNCHANGED <<status, attempt, approval, batch, loop, run, handoff, replied, crashes>>
  BY DEF ToolReturns
<1>3. TypeOK' /\ Others(t) /\ pc[t] = "tool" /\ pc'[t] = "record" /\ result'[t] = outcome
  BY <1>1, <1>2 DEF BranchGoes, BranchPC, Others
<1>4. t \notin succeeded
  BY <1>3, UnderWay
<1>5. t \in succeeded' <=> outcome \in {"succeeded", "partial"}
  BY <1>1, <1>4
<1>6. Consistent(t)'
  BY <1>2, <1>3, <1>5, Statuses DEF TaskInv, Consistent
<1> QED
  BY <1>2, <1>3, <1>6, UnderWay, BranchFrame

LEMMA StatusForType ==
    ASSUME NEW outcome \in Outcome
    PROVE  /\ StatusFor(outcome) \in TaskStatus /\ StatusFor(outcome) \notin {"absent", "running"}
           /\ StatusFor(outcome) \in SUCCESS_STATUSES <=> outcome \in {"succeeded", "partial"}
           /\ outcome = "error" => StatusFor(outcome) = "failed"
BY Statuses DEF StatusFor, Outcome

LEMMA RecordStep ==
    ASSUME PipelineInv, NEW t \in Task, RecordsResult(t) \/ RecordRaises(t)
    PROVE  PipelineInv'
<1> USE DEF PipelineInv, TypeOK
<1>1. CASE RecordsResult(t)
  <2>1. pc[t] = "record" /\ UNCHANGED <<attempt, approval, result, batch, loop, run, handoff,
                                        replied, succeeded, crashes>>
    BY <1>1 DEF RecordsResult, BranchGoes
  <2>2. /\ result[t] \in Outcome /\ approval[t] # "pending" /\ attempt[t] # 0
        /\ t \in succeeded <=> result[t] \in {"succeeded", "partial"}
    BY <2>1 DEF TaskInv, Consistent
  <2> DEFINE value == StatusFor(result[t])
  <2>3. /\ value \in TaskStatus /\ value \notin {"absent", "running"}
        /\ value \in SUCCESS_STATUSES <=> result[t] \in {"succeeded", "partial"}
        /\ result[t] = "error" => value = "failed"
    BY <2>2, StatusForType
  <2>4. status' = [status EXCEPT ![t] = value]
        /\ pc' = [pc EXCEPT ![t] = IF result[t] = "error" THEN "judge" ELSE "returned"]
    BY <1>1 DEF RecordsResult, BranchGoes, SetStatus
  <2> HIDE DEF value
  <2>5. status'[t] = value /\ pc'[t] = (IF result[t] = "error" THEN "judge" ELSE "returned")
    BY <2>4
  <2>6. TypeOK' /\ Others(t)
    BY <2>1, <2>3, <2>4 DEF BranchPC, Others
  <2>7. Consistent(t)'
    BY <2>1, <2>2, <2>3, <2>5 DEF TaskInv, Consistent
  <2> QED
    BY <2>1, <2>2, <2>3, <2>5, <2>6, <2>7, BranchFrame
<1>2. CASE RecordRaises(t)
  <2>1. /\ TypeOK' /\ Others(t) /\ pc[t] = "record" /\ pc'[t] = "judge" /\ status'[t] = "failed"
        /\ approval' = approval /\ succeeded' = succeeded \ {t}
    BY <1>2, Statuses DEF RecordRaises, BranchGoes, SetStatus, BranchPC, Outcome, Others
  <2>2. Consistent(t)'
    BY <2>1, Statuses DEF TaskInv, Consistent
  <2> QED
    BY <2>1, <2>2, BranchFrame
<1> QED
  BY <1>1, <1>2

LEMMA JudgeStep ==
    ASSUME PipelineInv, NEW t \in Task, Pauses(t) \/ SchedulesRetry(t) \/ GivesUp(t) \/ BackoffEnds(t)
    PROVE  PipelineInv'
<1> USE DEF PipelineInv, TypeOK
<1>1. CASE Pauses(t)
  <2>1. TypeOK' /\ Others(t) /\ pc[t] = "judge" /\ pc'[t] = "paused"
        /\ UNCHANGED <<status, attempt, approval, succeeded>>
    BY <1>1 DEF Pauses, BranchGoes, BranchPC, RunStatus, Others
  <2>2. Consistent(t)'
    BY <2>1, Statuses DEF TaskInv, Consistent
  <2> QED
    BY <2>1, <2>2, UnderWay, BranchFrame
<1>2. CASE SchedulesRetry(t)
  <2>1. TypeOK' /\ Others(t) /\ pc[t] = "judge" /\ pc'[t] = "backoff"
        /\ status'[t] = "retry_scheduled" /\ UNCHANGED <<approval, succeeded>>
    BY <1>2, Statuses DEF SchedulesRetry, BranchGoes, SetStatus, BranchPC, RunStatus, Others
  <2>2. Consistent(t)'
    BY <2>1, Statuses DEF TaskInv, Consistent
  <2> QED
    BY <2>1, <2>2, BranchFrame
<1>3. CASE GivesUp(t)
  <2>1. TypeOK' /\ Others(t) /\ pc[t] = "judge" /\ pc'[t] = "raised"
        /\ status'[t] = "failed" /\ UNCHANGED <<approval, succeeded>>
    BY <1>3, Statuses DEF GivesUp, FailsRun, BranchGoes, SetStatus, BranchPC, RunStatus, Others
  <2>2. Consistent(t)'
    BY <2>1, Statuses DEF TaskInv, Consistent
  <2> QED
    BY <2>1, <2>2, BranchFrame
<1>4. CASE BackoffEnds(t)
  <2>1. TypeOK' /\ Others(t) /\ pc[t] = "backoff" /\ pc'[t] = "enter"
        /\ UNCHANGED <<status, attempt, approval, succeeded>>
    BY <1>4 DEF BackoffEnds, BranchGoes, BranchPC, Others
  <2>2. Consistent(t)'
    BY <2>1, Statuses DEF TaskInv, Consistent
  <2> QED
    BY <2>1, <2>2, UnderWay, BranchFrame
<1> QED
  BY <1>1, <1>2, <1>3, <1>4

\* The task that is appended was not there: its branch is idle and nobody waits for it.
LEMMA LacksStep == ASSUME PipelineInv, NEW t \in Task, LacksPackage(t) PROVE PipelineInv'
<1> USE DEF PipelineInv, TypeOK
<1> DEFINE i == InstallFor[t]
<1>1. i \in Task /\ i # NoTask
  BY InstallForAssumption DEF LacksPackage
<1>2. /\ pc[t] = "judge" /\ pc' = [pc EXCEPT ![t] = "raised"] /\ status' = [status EXCEPT ![i] = "pending"]
      /\ handoff' = i /\ run' = "awaiting_input"
      /\ UNCHANGED <<attempt, approval, result, batch, loop, replied, succeeded, crashes>>
  BY DEF LacksPackage, BranchGoes, SetStatus
<1>3. status[i] = "absent" /\ pc[i] = "idle" /\ i \notin succeeded /\ i # t
      /\ status[t] = "failed" /\ approval[t] # "pending"
  <2>1. status[i] = "absent"
    BY <1>1, <1>2, UnderWay
  <2> QED
    BY <1>1, <1>2, <2>1, Statuses DEF TaskInv, Consistent
<1> HIDE DEF i
<1>4. TypeOK'
  BY <1>1, <1>2, Statuses DEF BranchPC, RunStatus
<1>5. /\ status'[i] = "pending" /\ pc'[i] = "idle" /\ pc'[t] = "raised" /\ status'[t] = "failed"
      /\ \A u \in Task \ {i} : status'[u] = status[u]
      /\ \A u \in Task \ {t} : pc'[u] = pc[u]
  BY <1>1, <1>2, <1>3
<1>6. \A u \in Task : Consistent(u)'
  <2> SUFFICES ASSUME NEW u \in Task PROVE Consistent(u)'
    OBVIOUS
  <2>1. CASE u = i
    BY <1>2, <1>3, <1>5, <2>1, Statuses DEF TaskInv, Consistent
  <2>2. CASE u = t
    BY <1>2, <1>3, <1>5, <2>2, Statuses DEF TaskInv, Consistent
  <2>3. CASE u \notin {i, t}
    BY <1>2, <1>5, <2>3 DEF TaskInv, Consistent
  <2> QED
    BY <2>1, <2>2, <2>3
<1>7. \A u \in Task : Asked(u)'
  <2> SUFFICES ASSUME NEW u \in Task PROVE Asked(u)'
    OBVIOUS
  <2>1. CASE u = t
    BY <1>2, <1>3, <1>5, <2>1 DEF Asked
  <2>2. CASE u # t
    <3>1. InstallFor[u] # NoTask => InstallFor[u] \in Task \ {i}
      BY <1>1, <2>2, InstallForAssumption DEF i
    <3>2. status'[u] = status[u] \/ (InstallFor[u] # NoTask => status[InstallFor[u]] = "absent")
      BY <1>1, <1>3, <1>5, Statuses DEF TaskInv, Asked
    <3> QED
      BY <1>2, <1>5, <2>2, <3>1, <3>2 DEF TaskInv, Asked
  <2> QED
    BY <2>1, <2>2
<1>8. \A u \in Task : DepsDone(u)'
  <2>1. \A d \in Task : status[d] \in SUCCESS_STATUSES => status'[d] = status[d]
    BY <1>1, <1>3, <1>5, Statuses
  <2>2. \A u \in Task : pc'[u] # "idle" => pc[u] # "idle"
    BY <1>2, <1>5
  <2> QED
    BY <2>1, <2>2, DepsAssumption DEF TaskInv, DepsDone
<1>9. BatchInv'
  BY <1>2, <1>5 DEF BatchInv
<1>10. \A u \in Task : Cause(u)'
  <2>1. \A d \in Task : status[d] \in FAILING_STATUSES /\ pc[d] = "idle" =>
            status'[d] = status[d] /\ pc'[d] = "idle"
    BY <1>2, <1>3, <1>5, Statuses
  <2>2. \A u \in Task : status'[u] = "blocked" => status[u] = "blocked"
    BY <1>5
  <2> QED
    BY <1>2, <2>1, <2>2, DepsAssumption DEF TaskInv, Cause
<1>11. \A u \in Task : status'[u] \in SUCCESS_STATUSES => status[u] \in SUCCESS_STATUSES
  BY <1>5, Statuses
<1>12. \A u \in Task : Sole(u)'
  <2>1. \A u \in Task : pc'[u] # "idle" => pc[u] # "idle"
    BY <1>2, <1>5
  <2> QED
    BY <1>11, <2>1, GraphAssumption DEF TaskInv, Sole
<1>13. OneAlternative'
  BY <1>11, GraphAssumption DEF OneAlternative
<1> QED
  BY <1>4, <1>6, <1>7, <1>8, <1>9, <1>10, <1>12, <1>13 DEF TaskInv

LEMMA BranchStep == ASSUME PipelineInv, NEW t \in Task, Branch(t) PROVE PipelineInv'
BY PolicyStep, WakeStep, StartStep, ReturnStep, RecordStep, JudgeStep, LacksStep DEF Branch

----------------------------------------------------------------------------
(* The scheduler *)

\* Blocked is the least set that what has failed spreads to: each of its tasks has a reason.
LEMMA BlockedHasReason ==
    ASSUME NEW st, NEW skipped, NEW t \in Blocked(st, skipped)
    PROVE  /\ t \in Task /\ st[t] \in RUNNABLE_STATUSES /\ t \notin skipped
           /\ HasFailedDep(st, Blocked(st, skipped), t)
<1> DEFINE open == {u \in Task : st[u] \in RUNNABLE_STATUSES /\ u \notin skipped \cup Speculative}
           closed == {b \in SUBSET open : \A u \in open : HasFailedDep(st, b, u) => u \in b}
           least == Blocked(st, skipped)
           reached == {u \in open : HasFailedDep(st, least, u)}
<1>1. least = {u \in open : \A b \in closed : u \in b}
  BY DEF Blocked
<1> HIDE DEF least
<1>2. ASSUME NEW a, NEW b, NEW u, a \subseteq b, HasFailedDep(st, a, u)
      PROVE  HasFailedDep(st, b, u)
  BY <1>2 DEF HasFailedDep
<1>3. \A b \in closed : least \subseteq b
  BY <1>1
<1>4. reached \subseteq least
  <2> SUFFICES ASSUME NEW u \in open, HasFailedDep(st, least, u), NEW b \in closed
               PROVE  u \in b
    BY <1>1
  <2>1. HasFailedDep(st, b, u)
    BY <1>2, <1>3
  <2> QED
    BY <2>1
<1>5. reached \in closed
  <2> SUFFICES ASSUME NEW u \in open, HasFailedDep(st, reached, u)
               PROVE  HasFailedDep(st, least, u)
    OBVIOUS
  <2> QED
    BY <1>2, <1>4
<1>6. t \in reached
  BY <1>1, <1>5 DEF least
<1> QED
  BY <1>6 DEF least

LEMMA Settled ==
    ASSUME NEW st, NEW t \in Task
    PROVE  /\ Settle(st)[t] \in {st[t], "skipped", "blocked"}
           /\ Settle(st)[t] # st[t] => st[t] \in RUNNABLE_STATUSES
           /\ Settle(st)[t] = "blocked" /\ st[t] # "blocked" =>
                 \E d \in Deps[t] : Settle(st)[d] \in FAILING_STATUSES
           /\ Settle(st)[t] \in RUNNABLE_STATUSES /\ Group[t] # NoGroup =>
                 \A u \in Task \ {t} : Group[u] = Group[t] => st[u] \notin SUCCESS_STATUSES
<1> DEFINE skipped == Skipped(st)
           blocked == Blocked(st, skipped)
<1>1. \A u \in Task : Settle(st)[u] = CASE u \in skipped -> "skipped"
                                        [] u \in blocked -> "blocked"
                                        [] OTHER -> st[u]
  BY DEF Settle
<1>2. \A u \in skipped : st[u] \in RUNNABLE_STATUSES
  BY DEF Skipped
<1>3. \A u \in blocked : st[u] \in RUNNABLE_STATUSES /\ u \notin skipped /\ HasFailedDep(st, blocked, u)
  BY BlockedHasReason
<1>4. t \notin skipped /\ st[t] \in RUNNABLE_STATUSES /\ Group[t] # NoGroup =>
          \A u \in Task \ {t} : Group[u] = Group[t] => st[u] \notin SUCCESS_STATUSES
  BY DEF Skipped
<1> HIDE DEF skipped, blocked
<1>5. ASSUME Settle(st)[t] = "blocked", st[t] # "blocked"
      PROVE  \E d \in Deps[t] : Settle(st)[d] \in FAILING_STATUSES
  <2>1. t \in blocked
    BY <1>1, <1>5
  <2>2. PICK d \in Deps[t] : st[d] \in FAILING_STATUSES \/ d \in blocked
    BY <1>3, <2>1 DEF HasFailedDep
  <2>3. d \in Task
    BY DepsAssumption
  <2>4. CASE d \in blocked
    BY <1>1, <1>3, <2>3, <2>4, Statuses
  <2>5. CASE d \notin blocked
    <3>1. d \notin skipped
      BY <1>2, <2>2, <2>5, Statuses
    <3> QED
      BY <1>1, <2>2, <2>3, <2>5, <3>1
  <2> QED
    BY <2>4, <2>5
<1> QED
  BY <1>1, <1>2, <1>3, <1>4, <1>5, Statuses

\* A batch is one task that wants to be alone or holds none of these.
LEMMA BatchAlone ==
    ASSUME NEW st, NEW gated
    PROVE  /\ NextBatch(st, gated) \subseteq Ready(st)
           /\ \A t \in NextBatch(st, gated) \cap Mutating : NextBatch(st, gated) = {t}
<1> DEFINE alone == Mutating \cup gated
           first == {t \in Ready(st) : \A u \in Ready(st) : SortPlace[t] <= SortPlace[u]}
<1>1. Ready(st) \subseteq Task
  BY DEF Ready
<1>2. \A t, u \in first : t = u
  <2> SUFFICES ASSUME NEW t \in first, NEW u \in first PROVE t = u
    OBVIOUS
  <2>1. SortPlace[t] <= SortPlace[u] /\ SortPlace[u] <= SortPlace[t]
    OBVIOUS
  <2>2. t \in Task /\ u \in Task /\ SortPlace[t] \in Nat /\ SortPlace[u] \in Nat
    BY <1>1, SortPlaceAssumption
  <2>3. SortPlace[t] = SortPlace[u]
    BY <2>1, <2>2
  <2> QED
    BY <2>2, <2>3, SortPlaceAssumption
<1>3. CASE first \subseteq alone
  <2>1. NextBatch(st, gated) = first
    BY <1>3 DEF NextBatch
  <2> QED
    BY <1>2, <2>1
<1>4. CASE ~(first \subseteq alone)
  <2>1. NextBatch(st, gated) \subseteq Ready(st) \ alone
    BY <1>4 DEF NextBatch
  <2> QED
    BY <2>1
<1> QED
  BY <1>3, <1>4

LEMMA ScheduleStep == ASSUME PipelineInv, Schedule PROVE PipelineInv'
<1> USE DEF PipelineInv, TypeOK
<1>1. /\ loop = "schedule" /\ status' = Settle(status) /\ batch' = NextBatch(status', Gated)
      /\ pc' = [t \in Task |-> IF t \in batch' THEN "enter" ELSE pc[t]]
      /\ IF batch' = {} THEN loop' = "over" /\ run' = "completed" ELSE loop' = "execute" /\ run' = run
      /\ UNCHANGED <<attempt, approval, result, handoff, replied, succeeded, crashes>>
  BY DEF Schedule
<1>2. \A t \in Task : pc[t] = "idle"
  BY <1>1 DEF BatchInv
<1>3. \A t \in Task :
          /\ status'[t] \in {status[t], "skipped", "blocked"}
          /\ status'[t] # status[t] => status[t] \in RUNNABLE_STATUSES
          /\ status'[t] = "blocked" /\ status[t] # "blocked" =>
                \E d \in Deps[t] : status'[d] \in FAILING_STATUSES
          /\ status'[t] \in RUNNABLE_STATUSES /\ Group[t] # NoGroup =>
                \A u \in Task \ {t} : Group[u] = Group[t] => status[u] \notin SUCCESS_STATUSES
  BY <1>1, Settled
<1>4. status' = [t \in Task |-> status'[t]]
  BY <1>1 DEF Settle
<1>5. /\ batch' \subseteq Ready(status')
      /\ \A t \in batch' \cap Mutating : batch' = {t}
  BY <1>1, BatchAlone
<1>6. \A t \in batch' : /\ t \in Task /\ status'[t] \in RUNNABLE_STATUSES
                        /\ MayPrecedeDeps(t) \/ \A d \in Deps[t] : status'[d] \in SUCCESS_STATUSES
  BY <1>5 DEF Ready
<1>7. \A t \in Task : pc'[t] = IF t \in batch' THEN "enter" ELSE "idle"
  BY <1>1, <1>2
<1>8. TypeOK'
  <2>1. \A t \in Task : status'[t] \in TaskStatus \cup {"absent"}
    BY <1>3, Statuses
  <2>2. status' \in [Task -> TaskStatus \cup {"absent"}]
    BY <1>4, <2>1
  <2>3. pc' \in [Task -> BranchPC] /\ batch' \in SUBSET Task
    BY <1>1, <1>2, <1>6 DEF BranchPC
  <2> QED
    BY <1>1, <2>2, <2>3 DEF RunStatus
<1>9. BatchInv'
  BY <1>1, <1>5, <1>7 DEF BatchInv
<1>10. ASSUME NEW t \in Task PROVE Consistent(t)'
  <2>1. t \in batch' => status[t] \in RUNNABLE_STATUSES /\ status'[t] = status[t]
    BY <1>3, <1>6, Statuses
  <2>2. Consistent(t)
    BY DEF TaskInv
  <2>3. CASE t \in batch'
    BY <1>1, <1>2, <1>7, <2>1, <2>2, <2>3, Statuses DEF Consistent
  <2>4. CASE t \notin batch'
    BY <1>1, <1>2, <1>3, <1>7, <2>2, <2>4, Statuses DEF Consistent
  <2> QED
    BY <2>3, <2>4
<1>11. ASSUME NEW t \in Task PROVE Asked(t)'
  <2>1. InstallFor[t] # NoTask => InstallFor[t] \in Task
    BY InstallForAssumption
  <2>2. InstallFor[t] # NoTask /\ status'[InstallFor[t]] # "absent" => status[InstallFor[t]] # "absent"
    BY <1>3, <2>1, Statuses
  <2>3. status[t] = "failed" => status'[t] = "failed" /\ t \notin batch'
    BY <1>3, <1>6, Statuses
  <2> QED
    BY <1>7, <2>2, <2>3 DEF TaskInv, Asked
<1>12. ASSUME NEW t \in Task PROVE DepsDone(t)'
  BY <1>6, <1>7 DEF DepsDone
<1>13. ASSUME NEW t \in Task PROVE Cause(t)'
  <2>1. \A d \in Task : status'[d] \in FAILING_STATUSES => pc'[d] = "idle"
    BY <1>6, <1>7, Statuses
  <2>2. \A d \in Task : status[d] \in FAILING_STATUSES => status'[d] = status[d]
    BY <1>3, Statuses
  <2>3. Deps[t] \subseteq Task
    BY DepsAssumption
  <2>4. status'[t] = "blocked" /\ attempt[t] = 0 => \E d \in Deps[t] : status'[d] \in FAILING_STATUSES
    BY <1>3, <2>2, <2>3 DEF TaskInv, Cause
  <2> QED
    BY <1>1, <2>1, <2>3, <2>4 DEF Cause
<1>14. \A u \in Task : status'[u] \in SUCCESS_STATUSES => status[u] \in SUCCESS_STATUSES
  BY <1>3, Statuses
<1>15. ASSUME NEW t \in Task PROVE Sole(t)'
  BY <1>3, <1>6, <1>7, <1>14, GraphAssumption DEF Sole
<1>16. OneAlternative'
  BY <1>14, GraphAssumption DEF OneAlternative
<1> QED
  BY <1>8, <1>9, <1>10, <1>11, <1>12, <1>13, <1>15, <1>16 DEF TaskInv

\* A step that ends branches, or none, and leaves the record of the tasks.
LEMMA IdleFrame ==
    ASSUME PipelineInv, TypeOK', UNCHANGED <<status, attempt, approval, result, succeeded>>,
           \/ UNCHANGED <<pc, batch>>
           \/ pc' = [t \in Task |-> "idle"] /\ batch' = {},
           loop' # "execute" => batch' = {}
    PROVE  PipelineInv'
<1>1. \A t \in Task : pc'[t] = pc[t] \/ pc'[t] = "idle"
  OBVIOUS
<1>2. \A t \in Task : Consistent(t)'
  BY <1>1 DEF PipelineInv, TaskInv, Consistent
<1>3. \A t \in Task : Asked(t)' /\ DepsDone(t)' /\ Sole(t)'
  BY <1>1 DEF PipelineInv, TaskInv, Asked, DepsDone, Sole
<1>4. \A t \in Task : Cause(t)'
  BY <1>1, DepsAssumption DEF PipelineInv, TaskInv, Cause
<1>5. BatchInv' /\ OneAlternative'
  BY <1>1 DEF PipelineInv, BatchInv, OneAlternative
<1> QED
  BY <1>2, <1>3, <1>4, <1>5 DEF PipelineInv, TaskInv

LEMMA LoopStep ==
    ASSUME PipelineInv, BatchEnds \/ Reply \/ Resume \/ Crash
    PROVE  PipelineInv'
<1> USE DEF PipelineInv, TypeOK
<1>1. CASE BatchEnds
  <2>1. TypeOK' /\ pc' = [t \in Task |-> "idle"] /\ batch' = {}
        /\ UNCHANGED <<status, attempt, approval, result, succeeded>>
    BY <1>1 DEF BatchEnds, BranchPC, RunStatus
  <2> QED
    BY <2>1, IdleFrame
<1>2. CASE Reply
  <2>1. TypeOK' /\ UNCHANGED <<status, attempt, approval, result, succeeded, pc, batch, loop>>
    BY <1>2 DEF Reply, RunStatus
  <2> QED
    BY <2>1, IdleFrame DEF BatchInv
<1>3. CASE Resume
  <2>1. TypeOK' /\ UNCHANGED <<status, attempt, approval, result, succeeded, pc, batch>>
        /\ loop = "over"
    BY <1>3 DEF Resume, RunStatus
  <2> QED
    BY <2>1, IdleFrame DEF BatchInv
<1>4. CASE Crash
  <2>1. Rehydrated(run) \in RunStatus
    BY DEF Rehydrated, RunStatus
  <2>2. TypeOK' /\ pc' = [t \in Task |-> "idle"] /\ batch' = {}
        /\ UNCHANGED <<status, attempt, approval, result, succeeded>>
    BY <1>4, <2>1 DEF Crash, BranchPC
  <2> QED
    BY <2>2, IdleFrame
<1> QED
  BY <1>1, <1>2, <1>3, <1>4

\* The answer to a question finds the task waiting for it, in the batch or not.
LEMMA AnswerStep == ASSUME PipelineInv, NEW t \in Task, Answer(t) PROVE PipelineInv'
<1> USE DEF PipelineInv, TypeOK
<1>1. /\ approval[t] = "pending" /\ status[t] = "waiting_approval" /\ pc[t] \in {"idle", "wait"}
      /\ t \notin succeeded /\ Verdict[t] = "require_approval"
  BY Statuses DEF Answer, TaskInv, Consistent
<1>2. UNCHANGED <<attempt, result, pc, batch, loop, run, handoff, replied, succeeded, crashes>>
  BY DEF Answer
<1>3. /\ approval'[t] \in {"approved", "rejected"} /\ status'[t] \in {"approved", "waiting_approval"}
      /\ \A u \in Task \ {t} : status'[u] = status[u] /\ approval'[u] = approval[u]
  BY <1>1 DEF Answer, SetStatus
<1>4. TypeOK'
  BY <1>2, Statuses DEF Answer, SetStatus
<1>5. \A u \in Task : Consistent(u)'
  BY <1>1, <1>2, <1>3, Statuses DEF TaskInv, Consistent
<1>6. \A u \in Task : InstallFor[u] # NoTask => InstallFor[u] \in Task
  BY InstallForAssumption
<1>7. \A u \in Task : status'[u] = "absent" <=> status[u] = "absent"
  BY <1>1, <1>3
<1>8. \A u \in Task : Asked(u)'
  BY <1>1, <1>2, <1>3, <1>6, <1>7 DEF TaskInv, Asked
<1>9. \A u \in Task : /\ status'[u] \in SUCCESS_STATUSES <=> status[u] \in SUCCESS_STATUSES
                      /\ status'[u] \in FAILING_STATUSES <=> status[u] \in FAILING_STATUSES
                      /\ status'[u] = "blocked" <=> status[u] = "blocked"
  BY <1>1, <1>3, Statuses
<1>10. \A u \in Task : DepsDone(u)' /\ Cause(u)'
  BY <1>2, <1>9, DepsAssumption DEF TaskInv, DepsDone, Cause
<1>11. \A u \in Task : Sole(u)'
  BY <1>2, <1>9, GraphAssumption DEF TaskInv, Sole
<1>12. BatchInv' /\ OneAlternative'
  BY <1>2, <1>9, GraphAssumption DEF BatchInv, OneAlternative
<1> QED
  BY <1>4, <1>5, <1>8, <1>10, <1>11, <1>12 DEF TaskInv

LEMMA PipelineInvStep == PipelineInv /\ [Next]_vars => PipelineInv'
<1> SUFFICES ASSUME PipelineInv, [Next]_vars PROVE PipelineInv'
  OBVIOUS
<1>1. CASE UNCHANGED vars
  <2>1. TypeOK' /\ UNCHANGED <<status, attempt, approval, result, succeeded, pc, batch, loop>>
    BY <1>1 DEF vars, PipelineInv, TypeOK
  <2> QED
    BY <2>1, IdleFrame DEF PipelineInv, BatchInv
<1>2. CASE PipelineStep
  BY <1>2, ScheduleStep, LoopStep, BranchStep DEF PipelineStep
<1>3. CASE \E t \in Task : Answer(t)
  BY <1>3, AnswerStep
<1>4. CASE Reply \/ Resume \/ Crash
  BY <1>4, LoopStep
<1> QED
  BY <1>1, <1>2, <1>3, <1>4 DEF Next

LEMMA PipelineInvariant == Spec => []PipelineInv
BY PipelineInit, PipelineInvStep, PTL DEF Spec

----------------------------------------------------------------------------
\* Tasks, branches and the loop keep the shape the code gives them.
THEOREM TypeCorrect == Spec => []TypeOK
<1>1. PipelineInv => TypeOK
  BY DEF PipelineInv
<1> QED
  BY PipelineInvariant, <1>1, PTL

\* task_graph.py:115 - the tool of a task that mutates state runs alone.
THEOREM MutatorsCorrect == Spec => []MutatorsAlone
<1>1. PipelineInv => MutatorsAlone
  BY DEF PipelineInv, BatchInv, MutatorsAlone
<1> QED
  BY PipelineInvariant, <1>1, PTL

\* task_graph.py:180 - a task that was blocked untried has a dependency that ended badly, in any
\* graph and however far the failure had to spread.
THEOREM BlockedCorrect == Spec => []BlockedHasCause
<1>1. PipelineInv => BlockedHasCause
  BY DEF PipelineInv, TaskInv, Cause, BlockedHasCause
<1> QED
  BY PipelineInvariant, <1>1, PTL

\* task_graph.py:163 - of the alternatives of a group that mutate state at most one succeeds.
THEOREM AlternativesCorrect == Spec => []OneAlternative
<1>1. PipelineInv => OneAlternative
  BY DEF PipelineInv
<1> QED
  BY PipelineInvariant, <1>1, PTL

\* Only the start of a tool counts an attempt.
LEMMA AttemptStarts ==
    ASSUME TypeOK, [Next]_vars, NEW t \in Task, attempt'[t] # attempt[t]
    PROVE  pc[t] = "start"
<1> USE DEF TypeOK
<1>1. ASSUME NEW u \in Task, Branch(u)
      PROVE  pc[t] = "start"
  BY <1>1 DEF Branch, PolicyAllows, PolicyRefuses, AsksApproval, ApprovalWakes, StartsTool,
              ToolReturns, RecordsResult, RecordRaises, Pauses, SchedulesRetry, GivesUp,
              LacksPackage, BackoffEnds, BranchGoes
<1>2. CASE UNCHANGED vars
  BY <1>2 DEF vars
<1>3. CASE Schedule \/ BatchEnds \/ Reply \/ Resume \/ Crash \/ \E u \in Task : Answer(u)
  BY <1>3 DEF Schedule, BatchEnds, Reply, Resume, Crash, Answer
<1> QED
  BY <1>1, <1>2, <1>3 DEF Next, PipelineStep

\* task_graph.py:193 - whatever fails, is retried, asked or restarted, a tool starts only after the
\* tools of the dependencies have succeeded.
THEOREM DependenciesCorrect == Spec => DependenciesFirst
<1>1. PipelineInv /\ [Next]_vars =>
          [\A t \in Task : attempt'[t] # attempt[t] /\ ~MayPrecedeDeps(t) => Deps[t] \subseteq succeeded]_vars
  <2> SUFFICES ASSUME PipelineInv, [Next]_vars, NEW t \in Task, attempt'[t] # attempt[t],
                      ~MayPrecedeDeps(t)
               PROVE  Deps[t] \subseteq succeeded
    OBVIOUS
  <2>1. pc[t] = "start"
    BY AttemptStarts DEF PipelineInv
  <2> QED
    BY <2>1, DepsAssumption DEF PipelineInv, TaskInv, DepsDone, Consistent
<1> QED
  BY PipelineInvariant, <1>1, PTL DEF Spec, DependenciesFirst

\* task_graph.py:19 - what has succeeded is never started again, also when a crash comes
\* between the tool and the record of its result.
THEOREM OnceCorrect == Spec => SucceededOnce
<1>1. PipelineInv /\ [Next]_vars =>
          [\A t \in Task : attempt'[t] # attempt[t] => t \notin succeeded]_vars
  <2> SUFFICES ASSUME PipelineInv, [Next]_vars, NEW t \in Task, attempt'[t] # attempt[t]
               PROVE  t \notin succeeded
    OBVIOUS
  <2>1. pc[t] = "start"
    BY AttemptStarts DEF PipelineInv
  <2> QED
    BY <2>1 DEF PipelineInv, TaskInv, Consistent
<1> QED
  BY PipelineInvariant, <1>1, PTL DEF Spec, SucceededOnce

----------------------------------------------------------------------------
(* The end of a pipeline.  What is left to do of a task is the attempts it may still make and, of *)
(* the one under way, the steps to its end; a task that is not executed again has nothing left.   *)

Tries == IF MaxAttempts = 0 THEN 1 ELSE MaxAttempts
StillOpen == RUNNABLE_STATUSES \cup {"waiting_approval", "absent"}

Place(st, at) ==
    CASE at = "idle"    -> IF st \in StillOpen THEN 10 ELSE 0
      [] at = "tool"    -> 9
      [] at = "record"  -> 8
      [] at = "judge"   -> 7
      [] at = "backoff" -> 6
      [] at = "enter"   -> 5
      [] at = "wait"    -> 4
      [] at = "start"   -> 3
      [] OTHER          -> 2

Left(t) == 12 * (Tries - attempt[t]) + Place(status[t], pc[t])

\* Whoever may start a tool has an attempt left, and who has ended is not open again.
Frugal(t) ==
    /\ attempt[t] <= Tries
    /\ (status[t] \in StillOpen \/ pc[t] \in {"enter", "wait", "start", "backoff"})
           => attempt[t] < Tries
    /\ pc[t] \in BranchOver => status[t] \notin StillOpen
    /\ Verdict[t] = "require_approval" =>
           /\ approval[t] # "approved" => attempt[t] = 0
           /\ pc[t] \notin {"idle", "enter", "wait", "raised"} => approval[t] = "approved"
    /\ Verdict[t] = "deny" => pc[t] \in {"idle", "enter", "raised"}
    /\ pc[t] = "wait" => approval[t] # "none"

DescentInv ==
    /\ \A t \in Task : Frugal(t)
    /\ \A t \in batch : pc[t] # "idle"
    /\ loop = "execute" => batch # {}

LEMMA TriesEnough == Tries \in Nat \ {0} /\ MaxAttempts <= Tries /\ MaxAttempts \in Nat
BY BoundsAssumption DEF Tries

LEMMA Places ==
    ASSUME NEW st, NEW at
    PROVE  /\ Place(st, at) \in 0 .. 10
           /\ at = "idle" => Place(st, at) = IF st \in StillOpen THEN 10 ELSE 0
           /\ at = "tool" => Place(st, at) = 9
           /\ at = "record" => Place(st, at) = 8
           /\ at = "judge" => Place(st, at) = 7
           /\ at = "backoff" => Place(st, at) = 6
           /\ at = "enter" => Place(st, at) = 5
           /\ at = "wait" => Place(st, at) = 4
           /\ at = "start" => Place(st, at) = 3
           /\ at \in BranchOver => Place(st, at) = 2
<1>1. CASE at = "idle"
  BY <1>1 DEF Place, BranchOver
<1>2. CASE at # "idle"
  BY <1>2 DEF Place, BranchOver
<1> QED
  BY <1>1, <1>2

LEMMA DescentInit == Init => DescentInv
<1> SUFFICES ASSUME Init PROVE DescentInv
  OBVIOUS
<1>1. \A t \in Task : attempt[t] = 0 /\ pc[t] = "idle" /\ approval[t] = "none"
  BY DEF Init
<1>2. batch = {} /\ loop = "schedule"
  BY DEF Init
<1> QED
  BY <1>1, <1>2, TriesEnough DEF DescentInv, Frugal, BranchOver

\* A step of one branch: only it comes nearer to its end; of the others at most the installer it
\* has asked for is opened, which was there to be opened before.
LEMMA OneGoesOn ==
    ASSUME PipelineInv, DescentInv, NEW t \in Task, PipelineInv',
           pc[t] # "idle", pc'[t] # "idle", Frugal(t)', Left(t)' < Left(t),
           \A u \in Task \ {t} : /\ pc'[u] = pc[u] /\ attempt'[u] = attempt[u]
                                 /\ approval'[u] = approval[u]
                                 /\ \/ status'[u] = status[u]
                                    \/ status[u] = "absent" /\ status'[u] = "pending",
           UNCHANGED <<batch, loop>>
    PROVE  DescentInv' /\ \A u \in Task \ {t} : Left(u)' = Left(u)
<1>1. ASSUME NEW u \in Task \ {t}
      PROVE  Frugal(u)' /\ Left(u)' = Left(u)
  <2>1. Frugal(u)
    BY DEF DescentInv
  <2>2. CASE status'[u] = status[u]
    BY <2>1, <2>2 DEF Frugal, Left
  <2>3. CASE status[u] = "absent" /\ status'[u] = "pending"
    <3>1. pc[u] = "idle"
      BY <2>3 DEF PipelineInv, TaskInv, Consistent
    <3>2. "absent" \in StillOpen /\ "pending" \in StillOpen
      BY Statuses DEF StillOpen
    <3>3. Place(status'[u], pc'[u]) = Place(status[u], pc[u])
      BY <2>3, <3>1, <3>2, Places
    <3> QED
      BY <2>1, <2>3, <3>1, <3>2, <3>3 DEF Frugal, Left, BranchOver
  <2> QED
    BY <2>2, <2>3
<1>2. batch \subseteq Task
  BY DEF PipelineInv, TypeOK
<1>3. \A u \in batch' : pc'[u] # "idle"
  BY <1>2 DEF DescentInv
<1> QED
  BY <1>1, <1>3 DEF DescentInv

LEMMA Goes ==
    ASSUME PipelineInv, NEW t \in Task, NEW from, NEW to, BranchGoes(t, from, to)
    PROVE  pc[t] = from /\ pc'[t] = to /\ \A u \in Task \ {t} : pc'[u] = pc[u]
BY DEF BranchGoes, PipelineInv, TypeOK

LEMMA Becomes ==
    ASSUME PipelineInv, NEW t \in Task, NEW value, SetStatus(t, value)
    PROVE  status'[t] = value /\ \A u \in Task \ {t} : status'[u] = status[u]
BY DEF SetStatus, PipelineInv, TypeOK

LEMMA OpenStatuses ==
    /\ {"pending", "approved", "retry_scheduled", "waiting_approval", "absent"} \subseteq StillOpen
    /\ {"running", "failed", "rejected", "completed", "partial", "needs_input", "blocked"}
           \cap StillOpen = {}
BY DEF StillOpen, RUNNABLE_STATUSES

\* The verdict, the question and its answer.
LEMMA EnterDescends ==
    ASSUME PipelineInv, DescentInv, PipelineInv', NEW t \in Task,
           PolicyAllows(t) \/ PolicyRefuses(t) \/ AsksApproval(t) \/ ApprovalWakes(t)
    PROVE  /\ DescentInv' /\ Left(t)' < Left(t)
           /\ \A u \in Task \ {t} : Left(u)' = Left(u)
<1>1. /\ UNCHANGED <<attempt, batch, loop>> /\ attempt[t] \in Nat
      /\ \A u \in Task \ {t} : approval'[u] = approval[u]
  BY DEF PolicyAllows, PolicyRefuses, AsksApproval, ApprovalWakes, PipelineInv, TypeOK
<1>2. Frugal(t) /\ Verdict[t] \in {"allow", "require_approval", "deny"}
  BY VerdictAssumption DEF DescentInv
<1>3. CASE PolicyAllows(t)
  <2>1. /\ pc[t] = "enter" /\ pc'[t] = "start" /\ (\A u \in Task \ {t} : pc'[u] = pc[u])
        /\ UNCHANGED <<status, approval>>
    BY <1>3, Goes DEF PolicyAllows
  <2>2. Verdict[t] = "allow" \/ (Verdict[t] = "require_approval" /\ approval[t] = "approved")
    BY <1>3 DEF PolicyAllows
  <2>3. Frugal(t)'
    BY <1>1, <1>2, <2>1, <2>2 DEF Frugal, BranchOver
  <2>4. Left(t)' < Left(t)
    BY <1>1, <2>1, Places, TriesEnough DEF Left
  <2> QED
    BY <1>1, <2>1, <2>3, <2>4, OneGoesOn
<1>4. ASSUME NEW from \in {"enter", "wait"}, NEW value \in {"failed", "rejected"},
             BranchGoes(t, from, "raised"), SetStatus(t, value), UNCHANGED approval
      PROVE  DescentInv' /\ Left(t)' < Left(t) /\ \A u \in Task \ {t} : Left(u)' = Left(u)
  <2>1. /\ pc[t] = from /\ pc'[t] = "raised" /\ \A u \in Task \ {t} : pc'[u] = pc[u]
        /\ status'[t] = value /\ \A u \in Task \ {t} : status'[u] = status[u]
    BY <1>4, Goes, Becomes
  <2>2. Frugal(t)'
    BY <1>1, <1>2, <1>4, <2>1, OpenStatuses DEF Frugal, BranchOver
  <2>3. Left(t)' < Left(t)
    BY <1>1, <2>1, Places, TriesEnough DEF Left, BranchOver
  <2> QED
    BY <1>1, <1>4, <2>1, <2>2, <2>3, OneGoesOn
<1>5. CASE PolicyRefuses(t)
  BY <1>4, <1>5 DEF PolicyRefuses, FailsRun
<1>6. CASE AsksApproval(t)
  <2>1. /\ pc[t] = "enter" /\ pc'[t] = "wait" /\ \A u \in Task \ {t} : pc'[u] = pc[u]
        /\ status'[t] = "waiting_approval" /\ \A u \in Task \ {t} : status'[u] = status[u]
    BY <1>6, Goes, Becomes DEF AsksApproval
  <2>2. Verdict[t] = "require_approval" /\ approval[t] \in {"none", "pending"} /\ approval'[t] = "pending"
    BY <1>6 DEF AsksApproval, PipelineInv, TypeOK
  <2>3. Frugal(t)'
    BY <1>1, <1>2, <2>1, <2>2 DEF Frugal, BranchOver
  <2>4. Left(t)' < Left(t)
    BY <1>1, <2>1, Places, TriesEnough DEF Left
  <2> QED
    BY <1>1, <2>1, <2>3, <2>4, OneGoesOn
<1>7. CASE ApprovalWakes(t)
  <2>1. CASE approval[t] = "approved" /\ BranchGoes(t, "wait", "start") /\ UNCHANGED <<status, run>>
    <3>1. /\ pc[t] = "wait" /\ pc'[t] = "start" /\ (\A u \in Task \ {t} : pc'[u] = pc[u])
          /\ UNCHANGED <<status, approval>>
      BY <1>7, <2>1, Goes DEF ApprovalWakes
    <3>2. Frugal(t)'
      BY <1>1, <1>2, <2>1, <3>1 DEF Frugal, BranchOver
    <3>3. Left(t)' < Left(t)
      BY <1>1, <3>1, Places, TriesEnough DEF Left
    <3> QED
      BY <1>1, <3>1, <3>2, <3>3, OneGoesOn
  <2> QED
    BY <1>4, <1>7, <2>1 DEF ApprovalWakes, FailsRun
<1> QED
  BY <1>3, <1>5, <1>6, <1>7

\* The tool, its result and the record of it.
LEMMA ToolDescends ==
    ASSUME PipelineInv, DescentInv, PipelineInv', NEW t \in Task,
           StartsTool(t) \/ ToolReturns(t) \/ RecordsResult(t) \/ RecordRaises(t)
    PROVE  /\ DescentInv' /\ Left(t)' < Left(t)
           /\ \A u \in Task \ {t} : Left(u)' = Left(u)
<1>1. UNCHANGED <<approval, batch, loop>> /\ attempt[t] \in Nat
  BY DEF StartsTool, ToolReturns, RecordsResult, RecordRaises, PipelineInv, TypeOK
<1>2. Frugal(t) /\ Verdict[t] \in {"allow", "require_approval", "deny"}
  BY VerdictAssumption DEF DescentInv
<1>3. CASE StartsTool(t)
  <2>1. /\ pc[t] = "start" /\ pc'[t] = "tool" /\ \A u \in Task \ {t} : pc'[u] = pc[u]
        /\ status'[t] = "running" /\ \A u \in Task \ {t} : status'[u] = status[u]
        /\ attempt'[t] = attempt[t] + 1 /\ \A u \in Task \ {t} : attempt'[u] = attempt[u]
    BY <1>3, Goes, Becomes DEF StartsTool, PipelineInv, TypeOK
  <2>2. attempt[t] < Tries
    BY <1>2, <2>1 DEF Frugal
  <2>3. Frugal(t)'
    BY <1>1, <1>2, <2>1, <2>2, OpenStatuses, TriesEnough DEF Frugal, BranchOver
  <2>4. Left(t)' < Left(t)
    BY <1>1, <2>1, Places, TriesEnough DEF Left
  <2> QED
    BY <1>1, <2>1, <2>3, <2>4, OneGoesOn
<1>4. CASE ToolReturns(t)
  <2>1. /\ pc[t] = "tool" /\ pc'[t] = "record" /\ (\A u \in Task \ {t} : pc'[u] = pc[u])
        /\ UNCHANGED <<status, attempt>>
    BY <1>4, Goes DEF ToolReturns
  <2>2. Frugal(t)'
    BY <1>1, <1>2, <2>1 DEF Frugal, BranchOver
  <2>3. Left(t)' < Left(t)
    BY <1>1, <2>1, Places, TriesEnough DEF Left
  <2> QED
    BY <1>1, <2>1, <2>2, <2>3, OneGoesOn
<1>5. ASSUME NEW to \in {"judge", "returned"},
             NEW value \in {"running", "failed", "rejected", "completed", "partial", "needs_input",
                            "blocked"},
             BranchGoes(t, "record", to), SetStatus(t, value), UNCHANGED attempt
      PROVE  DescentInv' /\ Left(t)' < Left(t) /\ \A u \in Task \ {t} : Left(u)' = Left(u)
  <2>1. /\ pc[t] = "record" /\ pc'[t] = to /\ \A u \in Task \ {t} : pc'[u] = pc[u]
        /\ status'[t] = value /\ \A u \in Task \ {t} : status'[u] = status[u]
    BY <1>5, Goes, Becomes
  <2>2. Frugal(t)'
    BY <1>1, <1>2, <1>5, <2>1, OpenStatuses DEF Frugal, BranchOver
  <2>3. Left(t)' < Left(t)
    BY <1>1, <1>5, <2>1, Places, TriesEnough DEF Left, BranchOver
  <2> QED
    BY <1>1, <1>5, <2>1, <2>2, <2>3, OneGoesOn
<1>6. CASE RecordsResult(t)
  <2>1. pc[t] = "record" /\ result[t] \in Outcome
    BY <1>6 DEF RecordsResult, BranchGoes, PipelineInv, TaskInv, Consistent
  <2>2. StatusFor(result[t]) \in {"completed", "partial", "needs_input", "blocked", "failed"}
    BY <2>1 DEF Outcome, StatusFor
  <2> QED
    BY <1>5, <1>6, <2>2 DEF RecordsResult
<1>7. CASE RecordRaises(t)
  BY <1>5, <1>7 DEF RecordRaises
<1> QED
  BY <1>3, <1>4, <1>6, <1>7

\* What the handler of a failed attempt decides, and the wait before the next one.
LEMMA JudgeDescends ==
    ASSUME PipelineInv, DescentInv, PipelineInv', NEW t \in Task,
           Pauses(t) \/ SchedulesRetry(t) \/ GivesUp(t) \/ LacksPackage(t) \/ BackoffEnds(t)
    PROVE  /\ DescentInv' /\ Left(t)' < Left(t)
           /\ \A u \in Task \ {t} : Left(u)' = Left(u)
<1>1. UNCHANGED <<attempt, approval, batch, loop>> /\ attempt[t] \in Nat
  BY DEF Pauses, SchedulesRetry, GivesUp, LacksPackage, BackoffEnds, PipelineInv, TypeOK
<1>2. Frugal(t) /\ Consistent(t)
  BY DEF DescentInv, PipelineInv, TaskInv
<1>3. CASE Pauses(t)
  <2>1. /\ pc[t] = "judge" /\ pc'[t] = "paused" /\ (\A u \in Task \ {t} : pc'[u] = pc[u])
        /\ UNCHANGED status
    BY <1>3, Goes DEF Pauses
  <2>2. Frugal(t)'
    BY <1>1, <1>2, <2>1, OpenStatuses DEF Frugal, BranchOver, Consistent
  <2>3. Left(t)' < Left(t)
    BY <1>1, <2>1, Places, TriesEnough DEF Left, BranchOver
  <2> QED
    BY <1>1, <2>1, <2>2, <2>3, OneGoesOn
<1>4. CASE SchedulesRetry(t)
  <2>1. /\ pc[t] = "judge" /\ pc'[t] = "backoff" /\ \A u \in Task \ {t} : pc'[u] = pc[u]
        /\ status'[t] = "retry_scheduled" /\ \A u \in Task \ {t} : status'[u] = status[u]
        /\ attempt[t] < MaxAttempts
    BY <1>4, Goes, Becomes DEF SchedulesRetry
  <2>2. Frugal(t)'
    BY <1>1, <1>2, <2>1, TriesEnough DEF Frugal, BranchOver
  <2>3. Left(t)' < Left(t)
    BY <1>1, <2>1, Places, TriesEnough DEF Left
  <2> QED
    BY <1>1, <2>1, <2>2, <2>3, OneGoesOn
<1>5. CASE GivesUp(t)
  <2>1. /\ pc[t] = "judge" /\ pc'[t] = "raised" /\ \A u \in Task \ {t} : pc'[u] = pc[u]
        /\ status'[t] = "failed" /\ \A u \in Task \ {t} : status'[u] = status[u]
    BY <1>5, Goes, Becomes DEF GivesUp, FailsRun
  <2>2. Frugal(t)'
    BY <1>1, <1>2, <2>1, OpenStatuses DEF Frugal, BranchOver
  <2>3. Left(t)' < Left(t)
    BY <1>1, <2>1, Places, TriesEnough DEF Left, BranchOver
  <2> QED
    BY <1>1, <2>1, <2>2, <2>3, OneGoesOn
<1>6. CASE LacksPackage(t)
  <2>1. /\ pc[t] = "judge" /\ pc'[t] = "raised" /\ (\A u \in Task \ {t} : pc'[u] = pc[u])
        /\ InstallFor[t] # NoTask /\ SetStatus(InstallFor[t], "pending")
    BY <1>6, Goes DEF LacksPackage
  <2>2. InstallFor[t] \in Task /\ status[InstallFor[t]] = "absent"
    BY <2>1, InstallForAssumption DEF PipelineInv, TaskInv, Asked
  <2>3. /\ status'[InstallFor[t]] = "pending" /\ InstallFor[t] # t
        /\ \A u \in Task \ {InstallFor[t]} : status'[u] = status[u]
    BY <1>2, <2>1, <2>2, Becomes DEF Consistent
  <2>4. Frugal(t)'
    BY <1>1, <1>2, <2>1, <2>3, OpenStatuses DEF Frugal, BranchOver, Consistent
  <2>5. Left(t)' < Left(t)
    BY <1>1, <2>1, Places, TriesEnough DEF Left, BranchOver
  <2> QED
    BY <1>1, <2>1, <2>2, <2>3, <2>4, <2>5, OneGoesOn
<1>7. CASE BackoffEnds(t)
  <2>1. /\ pc[t] = "backoff" /\ pc'[t] = "enter" /\ (\A u \in Task \ {t} : pc'[u] = pc[u])
        /\ UNCHANGED status
    BY <1>7, Goes DEF BackoffEnds
  <2>2. Frugal(t)'
    BY <1>1, <1>2, <2>1 DEF Frugal, BranchOver
  <2>3. Left(t)' < Left(t)
    BY <1>1, <2>1, Places, TriesEnough DEF Left
  <2> QED
    BY <1>1, <2>1, <2>2, <2>3, OneGoesOn
<1> QED
  BY <1>3, <1>4, <1>5, <1>6, <1>7

\* The loop itself: a batch begins with tasks that were open, and leaves none of its own open.
LEMMA ScheduleDescends ==
    ASSUME PipelineInv, DescentInv, PipelineInv', Schedule
    PROVE  /\ DescentInv'
           /\ \A u \in Task : Left(u)' <= Left(u)
           /\ loop' # "over" => \E t \in Task : Left(t)' < Left(t)
<1>1. /\ loop = "schedule" /\ status' = Settle(status) /\ batch' = NextBatch(status', Gated)
      /\ pc' = [t \in Task |-> IF t \in batch' THEN "enter" ELSE pc[t]]
      /\ (batch' = {} => loop' = "over")
      /\ UNCHANGED <<attempt, approval>>
  BY DEF Schedule
<1>2. \A t \in Task : pc[t] = "idle" /\ attempt[t] \in Nat
  BY <1>1 DEF PipelineInv, BatchInv, TypeOK
<1>3. \A t \in Task : /\ status'[t] \in {status[t], "skipped", "blocked"}
                      /\ status'[t] # status[t] => status[t] \in RUNNABLE_STATUSES
  BY <1>1, Settled
<1>4. \A t \in batch' : t \in Task /\ status'[t] \in RUNNABLE_STATUSES
  BY <1>1, BatchAlone DEF Ready
<1>5. \A t \in batch' : status'[t] = status[t] /\ status[t] \in StillOpen
  BY <1>3, <1>4, Statuses DEF StillOpen
<1>6. ASSUME NEW t \in Task
      PROVE  Frugal(t)' /\ Left(t)' <= Left(t) /\ (t \in batch' => Left(t)' < Left(t))
  <2>1. Frugal(t)
    BY DEF DescentInv
  <2>2. CASE t \in batch'
    <3>1. pc'[t] = "enter" /\ pc[t] = "idle" /\ status'[t] = status[t] /\ status[t] \in StillOpen
      BY <1>1, <1>2, <1>5, <2>2
    <3>2. Frugal(t)'
      BY <1>1, <2>1, <3>1 DEF Frugal, BranchOver
    <3>3. Left(t)' < Left(t)
      BY <1>1, <1>2, <3>1, Places, TriesEnough DEF Left
    <3> QED
      BY <1>2, <3>2, <3>3, <1>1, Places, TriesEnough DEF Left
  <2>3. CASE t \notin batch'
    <3>1. pc'[t] = "idle" /\ pc[t] = "idle"
      BY <1>1, <1>2, <2>3
    <3>2. status'[t] \in StillOpen => status[t] \in StillOpen
      BY <1>3 DEF StillOpen
    <3>3. Frugal(t)'
      BY <1>1, <2>1, <3>1, <3>2 DEF Frugal, BranchOver
    <3>4. Left(t)' <= Left(t)
      BY <1>1, <1>2, <3>1, <3>2, Places, TriesEnough DEF Left
    <3> QED
      BY <2>3, <3>3, <3>4
  <2> QED
    BY <2>2, <2>3
<1>7. \A t \in batch' : pc'[t] # "idle"
  BY <1>1, <1>4
<1>8. loop' = "execute" => batch' # {}
  BY <1>1
<1>9. DescentInv'
  BY <1>6, <1>7, <1>8 DEF DescentInv
<1>10. ASSUME loop' # "over"
       PROVE  \E t \in Task : Left(t)' < Left(t)
  <2>1. PICK t \in batch' : TRUE
    BY <1>1, <1>10
  <2> QED
    BY <1>4, <1>6, <2>1
<1> QED
  BY <1>6, <1>9, <1>10

LEMMA BatchDescends ==
    ASSUME PipelineInv, DescentInv, PipelineInv', BatchEnds
    PROVE  /\ DescentInv'
           /\ \A u \in Task : Left(u)' <= Left(u)
           /\ \E t \in Task : Left(t)' < Left(t)
<1>1. /\ loop = "execute" /\ (\A t \in batch : pc[t] \in BranchOver) /\ batch' = {}
      /\ pc' = [t \in Task |-> "idle"] /\ UNCHANGED <<status, attempt, approval>>
      /\ loop' # "execute"
  BY DEF BatchEnds
<1>2. batch \subseteq Task /\ batch # {} /\ \A t \in Task : pc[t] # "idle" => t \in batch
  BY <1>1 DEF PipelineInv, TypeOK, BatchInv, DescentInv
<1>3. ASSUME NEW t \in Task
      PROVE  Frugal(t)' /\ Left(t)' <= Left(t) /\ (t \in batch => Left(t)' < Left(t))
  <2>1. Frugal(t) /\ pc'[t] = "idle" /\ attempt[t] \in Nat
    BY <1>1 DEF DescentInv, PipelineInv, TypeOK
  <2>2. Frugal(t)'
    BY <1>1, <2>1 DEF Frugal, BranchOver
  <2>3. CASE t \in batch
    <3>1. pc[t] \in BranchOver /\ status[t] \notin StillOpen
      BY <1>1, <2>1, <2>3 DEF Frugal
    <3>2. Place(status'[t], pc'[t]) = 0 /\ Place(status[t], pc[t]) = 2
      BY <1>1, <2>1, <3>1, Places
    <3> QED
      BY <1>1, <2>1, <2>2, <3>2, TriesEnough DEF Left
  <2>4. CASE t \notin batch
    BY <1>1, <1>2, <2>1, <2>2, <2>4, Places, TriesEnough DEF Left
  <2> QED
    BY <2>3, <2>4
<1>4. DescentInv'
  BY <1>1, <1>3 DEF DescentInv
<1> QED
  BY <1>2, <1>3, <1>4

\* Answers and replies open nothing; a resume and a crash are no steps of a pipeline under way.
LEMMA ClientsDescend ==
    ASSUME PipelineInv, DescentInv, PipelineInv',
           (\E t \in Task : Answer(t)) \/ Reply \/ Resume \/ Crash \/ UNCHANGED vars
    PROVE  /\ DescentInv'
           /\ loop # "over" /\ loop' # "over" => \A u \in Task : Left(u)' = Left(u)
<1>1. CASE Reply \/ Resume \/ UNCHANGED vars
  <2>1. UNCHANGED <<status, attempt, approval, pc, batch>>
    BY <1>1 DEF Reply, Resume, vars
  <2>2. loop' = "execute" => loop = "execute"
    BY <1>1 DEF Reply, Resume, vars
  <2> QED
    BY <2>1, <2>2 DEF DescentInv, Frugal, Left
<1>2. CASE Crash
  <2>1. /\ UNCHANGED <<status, attempt, approval>> /\ pc' = [t \in Task |-> "idle"]
        /\ batch' = {} /\ loop' = "over"
    BY <1>2 DEF Crash
  <2>2. \A t \in Task : Frugal(t)'
    BY <2>1 DEF DescentInv, Frugal, BranchOver
  <2> QED
    BY <2>1, <2>2 DEF DescentInv
<1>3. ASSUME NEW t \in Task, Answer(t)
      PROVE  DescentInv' /\ \A u \in Task : Left(u)' = Left(u)
  <2>1. /\ approval[t] = "pending" /\ status[t] = "waiting_approval" /\ pc[t] \in {"idle", "wait"}
        /\ Verdict[t] = "require_approval" /\ UNCHANGED <<attempt, pc, batch, loop>>
    BY <1>3 DEF Answer, PipelineInv, TaskInv, Consistent
  <2>2. /\ approval'[t] \in {"approved", "rejected"}
        /\ status'[t] \in {"approved", "waiting_approval"}
        /\ \A u \in Task \ {t} : status'[u] = status[u] /\ approval'[u] = approval[u]
    BY <1>3, <2>1 DEF Answer, SetStatus, PipelineInv, TypeOK
  <2>3. status[t] \in StillOpen /\ status'[t] \in StillOpen
    BY <2>1, <2>2, OpenStatuses
  <2>4. Frugal(t)' /\ Left(t)' = Left(t)
    <3>1. Frugal(t)
      BY DEF DescentInv
    <3>2. Place(status'[t], pc'[t]) = Place(status[t], pc[t])
      BY <2>1, <2>3, Places
    <3> QED
      BY <2>1, <2>2, <2>3, <3>1, <3>2 DEF Frugal, Left, BranchOver
  <2>5. \A u \in Task \ {t} : Frugal(u)' /\ Left(u)' = Left(u)
    BY <2>1, <2>2 DEF DescentInv, Frugal, Left
  <2> QED
    BY <2>1, <2>4, <2>5 DEF DescentInv
<1> QED
  BY <1>1, <1>2, <1>3

LEMMA DescentStep ==
    ASSUME PipelineInv, DescentInv, [Next]_vars
    PROVE  /\ DescentInv'
           /\ loop # "over" /\ loop' # "over" =>
                 /\ \A u \in Task : Left(u)' <= Left(u)
                 /\ PipelineStep => \E t \in Task : Left(t)' < Left(t)
<1>1. PipelineInv'
  BY PipelineInvStep
<1>2. \A t \in Task : Left(t) \in Int
  BY Places, TriesEnough DEF Left, PipelineInv, TypeOK
<1>3. CASE Schedule
  BY <1>1, <1>3, ScheduleDescends
<1>4. CASE BatchEnds
  BY <1>1, <1>4, BatchDescends
<1>5. ASSUME NEW t \in Task, Branch(t)
      PROVE  /\ DescentInv' /\ \A u \in Task : Left(u)' <= Left(u)
             /\ Left(t)' < Left(t)
  <2>1. /\ DescentInv' /\ Left(t)' < Left(t) /\ \A u \in Task \ {t} : Left(u)' = Left(u)
    BY <1>1, <1>5, EnterDescends, ToolDescends, JudgeDescends DEF Branch
  <2>2. Left(t)' \in Int
    BY <1>1, Places, TriesEnough DEF Left, PipelineInv, TypeOK
  <2> QED
    BY <1>2, <2>1, <2>2
<1>6. CASE PipelineStep
  BY <1>3, <1>4, <1>5, <1>6 DEF PipelineStep
<1>7. CASE ~PipelineStep
  BY <1>1, <1>2, <1>7, ClientsDescend DEF Next
<1> QED
  BY <1>6, <1>7

\* All that is left, step by step: the n-th step of a task is there as long as more than n are left.
MostSteps == 12 * Tries + 10
Work == {w \in Task \X (0 .. MostSteps - 1) : w[2] < Left(w[1])}

LEMMA WorkFinite ==
    /\ IsFiniteSet(Work)
    /\ Cardinality(Work) \in Nat /\ Cardinality(Work) <= Cardinality(Task) * MostSteps
<1>1. MostSteps \in Nat /\ MostSteps - 1 \in Int /\ MostSteps # 0
  BY TriesEnough DEF MostSteps
<1>2. IsFiniteSet(0 .. MostSteps - 1) /\ Cardinality(0 .. MostSteps - 1) = MostSteps
  BY <1>1, FS_Interval
<1>3. /\ IsFiniteSet(Task \X (0 .. MostSteps - 1))
      /\ Cardinality(Task \X (0 .. MostSteps - 1)) = Cardinality(Task) * MostSteps
  BY <1>2, TaskAssumption, FS_Product
<1>4. Work \subseteq Task \X (0 .. MostSteps - 1)
  BY DEF Work
<1> QED
  BY <1>3, <1>4, FS_Subset, FS_CardinalityType

LEMMA WorkShrinks ==
    ASSUME PipelineInv, DescentInv, PipelineInv', DescentInv',
           \A u \in Task : Left(u)' <= Left(u)
    PROVE  /\ Work' \subseteq Work
           /\ \A t \in Task : Left(t)' < Left(t) => Cardinality(Work') < Cardinality(Work)
<1>1. \A t \in Task : Left(t) \in 0 .. MostSteps /\ Left(t)' \in 0 .. MostSteps
  <2> SUFFICES ASSUME NEW t \in Task
               PROVE  Left(t) \in 0 .. MostSteps /\ Left(t)' \in 0 .. MostSteps
    OBVIOUS
  <2>1. attempt[t] \in Nat /\ attempt'[t] \in Nat /\ attempt[t] <= Tries /\ attempt'[t] <= Tries
    BY DEF PipelineInv, TypeOK, DescentInv, Frugal
  <2> QED
    BY <2>1, Places, TriesEnough DEF Left, MostSteps
<1>2. MostSteps \in Nat
  BY TriesEnough DEF MostSteps
<1>3. ASSUME NEW w \in Work' PROVE w \in Work
  <2>1. w \in Task \X (0 .. MostSteps - 1) /\ w[2] < Left(w[1])'
    BY <1>3 DEF Work
  <2>2. w[1] \in Task /\ w[2] \in Int
    BY <1>2, <2>1
  <2>3. w[2] < Left(w[1])
    BY <1>1, <2>1, <2>2
  <2> QED
    BY <2>1, <2>3 DEF Work
<1>4. ASSUME NEW t \in Task, Left(t)' < Left(t)
      PROVE  Cardinality(Work') < Cardinality(Work)
  <2>0. PICK n \in Int : n = Left(t)'
    BY <1>1, <1>2
  <2> DEFINE step == <<t, n>>
  <2>1. step \in Task \X (0 .. MostSteps - 1) /\ step[1] = t /\ step[2] = n
    BY <1>1, <1>2, <1>4, <2>0
  <2>2. step \in Work
    BY <1>4, <2>0, <2>1 DEF Work
  <2>3. step \notin Work'
    <3> SUFFICES ASSUME step \in Work' PROVE FALSE
      OBVIOUS
    <3>1. \A w \in Work' : w[2] < Left(w[1])'
      BY DEF Work
    <3>2. n < Left(t)'
      BY <2>1, <3>1
    <3> QED
      BY <2>0, <3>2
  <2>4. Work' \subseteq Work /\ Work' # Work
    BY <1>3, <2>2, <2>3
  <2>5. IsFiniteSet(Work) /\ Cardinality(Work) \in Nat
    BY WorkFinite
  <2>6. /\ IsFiniteSet(Work') /\ Cardinality(Work') <= Cardinality(Work)
        /\ Cardinality(Work) # Cardinality(Work')
    BY <2>4, <2>5, FS_Subset
  <2>7. Cardinality(Work') \in Nat
    BY <2>6, FS_CardinalityType
  <2> QED
    BY <2>5, <2>6, <2>7
<1> QED
  BY <1>3, <1>4

\* While a pipeline is under way nothing adds to its work, and each step of its own takes from it.
WorkDone ==
    [][loop # "over" /\ loop' # "over" =>
           /\ Work' \subseteq Work
           /\ PipelineStep => Cardinality(Work') < Cardinality(Work)]_vars

\* runtime_manager.py:958 - a pipeline cannot go on for ever: from its start to its end it takes at
\* most Cardinality(Task) * MostSteps steps, whatever fails, is retried, answered or asked meanwhile.
THEOREM WorkCorrect == Spec => WorkDone
<1>1. PipelineInv /\ DescentInv /\ [Next]_vars =>
          [loop # "over" /\ loop' # "over" =>
              /\ Work' \subseteq Work
              /\ PipelineStep => Cardinality(Work') < Cardinality(Work)]_vars
  <2> SUFFICES ASSUME PipelineInv, DescentInv, [Next]_vars, loop # "over", loop' # "over"
               PROVE  /\ Work' \subseteq Work
                      /\ PipelineStep => Cardinality(Work') < Cardinality(Work)
    OBVIOUS
  <2>1. /\ PipelineInv' /\ DescentInv' /\ \A u \in Task : Left(u)' <= Left(u)
        /\ PipelineStep => \E t \in Task : Left(t)' < Left(t)
    BY PipelineInvStep, DescentStep
  <2> QED
    BY <2>1, WorkShrinks
<1>2. PipelineInv /\ DescentInv /\ [Next]_vars => DescentInv'
  BY DescentStep
<1> QED
  BY PipelineInvariant, DescentInit, <1>1, <1>2, PTL DEF Spec, WorkDone

\* The steps a branch may take, by the guards of the actions of Branch.
MayGo(t) ==
    \/ pc[t] = "enter" /\ \/ Verdict[t] \in {"allow", "deny"}
                          \/ /\ Verdict[t] = "require_approval"
                             /\ approval[t] \in {"none", "pending", "approved", "rejected"}
    \/ pc[t] = "wait" /\ approval[t] \in {"approved", "rejected"}
    \/ pc[t] = "start" \/ pc[t] = "tool" \/ pc[t] = "record" \/ pc[t] = "judge" \/ pc[t] = "backoff"

GoesOn ==
    \/ loop \in {"schedule", "over"}
    \/ \A t \in batch : pc[t] \in BranchOver
    \/ \E t \in batch : MayGo(t) \/ (pc[t] = "wait" /\ approval[t] = "pending")

\* action_executor.py:22 - a batch is never stuck: as long as not all of its branches have ended
\* one of them may go on, or waits for an approval that there is and that the user can give.
THEOREM GoesOnCorrect == Spec => []GoesOn
<1>1. PipelineInv /\ DescentInv => GoesOn
  <2> SUFFICES ASSUME PipelineInv, DescentInv, loop = "execute", NEW t \in batch,
                      pc[t] \notin BranchOver
               PROVE  MayGo(t) \/ (pc[t] = "wait" /\ approval[t] = "pending")
    BY DEF GoesOn, PipelineInv, TypeOK
  <2>1. t \in Task /\ pc[t] \in BranchPC /\ pc[t] # "idle" /\ Frugal(t)
    BY DEF PipelineInv, TypeOK, DescentInv
  <2>2. /\ approval[t] \in {"none", "pending", "approved", "rejected"}
        /\ Verdict[t] \in {"allow", "require_approval", "deny"}
    BY <2>1, VerdictAssumption DEF PipelineInv, TypeOK
  <2>3. pc[t] = "wait" => approval[t] # "none"
    BY <2>1 DEF Frugal
  <2> QED
    BY <2>1, <2>2, <2>3 DEF MayGo, BranchPC, BranchOver
<1>2. PipelineInv /\ DescentInv /\ [Next]_vars => DescentInv'
  BY DescentStep
<1> QED
  BY PipelineInvariant, DescentInit, <1>1, <1>2, PTL DEF Spec

----------------------------------------------------------------------------
(* What the scheduler chooses, and what it leaves. *)

LEMMA LeastMember ==
    ASSUME NEW T, T \subseteq Nat, T # {}
    PROVE  \E x \in T : \A y \in T : x <= y
<1>1. \E x \in T : \A y \in T : <<y, x>> \notin OpToRel(<, Nat)
  BY NatLessThanWellFounded, WFMin, Zenon
<1>2. PICK x \in T : \A y \in T : <<y, x>> \notin OpToRel(<, Nat)
  BY <1>1, Zenon
<1>3. \A y \in T : ~(y < x)
  BY <1>2 DEF OpToRel
<1> QED
  BY <1>3

\* Of tasks there is a first one in any order that counts.
LEMMA FirstTask ==
    ASSUME NEW S \in SUBSET Task, S # {}, NEW order \in [Task -> Nat]
    PROVE  \E t \in S : \A u \in S : order[t] <= order[u]
<1> DEFINE T == {order[t] : t \in S}
<1>1. T \subseteq Nat /\ T # {}
  OBVIOUS
<1>2. PICK x \in T : \A y \in T : x <= y
  BY <1>1, LeastMember
<1>3. PICK t \in S : order[t] = x
  OBVIOUS
<1> QED
  BY <1>2, <1>3

\* Fewer than n before each of them are at most n tasks.
LEMMA RankedFew ==
    ASSUME NEW S \in SUBSET Task, NEW n \in Nat, NEW B \in SUBSET S,
           \A t \in B : Cardinality({u \in S : SortPlace[u] < SortPlace[t]}) < n
    PROVE  IsFiniteSet(B) /\ Cardinality(B) <= n
<1> DEFINE before(t) == {u \in S : SortPlace[u] < SortPlace[t]}
           after == [t \in Task |-> IF t \in B THEN n - Cardinality(before(t)) ELSE 0]
<1>1. IsFiniteSet(S) /\ IsFiniteSet(B)
  BY TaskAssumption, FS_Subset
<1>2. \A t \in B : /\ IsFiniteSet(before(t)) /\ Cardinality(before(t)) \in Nat
                   /\ Cardinality(before(t)) < n
  <2> SUFFICES ASSUME NEW t \in B
               PROVE  IsFiniteSet(before(t)) /\ Cardinality(before(t)) \in Nat
    OBVIOUS
  <2>1. before(t) \in SUBSET S
    OBVIOUS
  <2>2. IsFiniteSet(before(t))
    BY <1>1, <2>1, FS_Subset
  <2> QED
    BY <2>2, FS_CardinalityType
<1>3. \A t \in B : SortPlace[t] \in Nat /\ t \in Task /\ t \in S
  BY SortPlaceAssumption
<1>4. CASE B = {}
  BY <1>1, <1>4, FS_EmptySet
<1>5. CASE B # {}
  <2>1. after \in [Task -> Nat]
    BY <1>2
  <2>2. PICK last \in B : \A u \in B : after[last] <= after[u]
    BY <1>5, <2>1, FirstTask
  <2>3. \A u \in B : Cardinality(before(u)) <= Cardinality(before(last))
    <3> SUFFICES ASSUME NEW u \in B PROVE Cardinality(before(u)) <= Cardinality(before(last))
      OBVIOUS
    <3>1. /\ after[last] = n - Cardinality(before(last)) /\ after[u] = n - Cardinality(before(u))
          /\ after[last] <= after[u]
      BY <1>3, <2>2
    <3>2. Cardinality(before(u)) \in Nat /\ Cardinality(before(last)) \in Nat
      BY <1>2
    <3> HIDE DEF before, after
    <3> QED
      BY <3>1, <3>2
  <2>4. B \subseteq before(last) \cup {last}
    <3> SUFFICES ASSUME NEW u \in B, u # last, u \notin before(last) PROVE FALSE
      OBVIOUS
    <3>1. SortPlace[last] < SortPlace[u]
      BY <1>3, SortPlaceAssumption
    <3>2. before(last) \cup {last} \subseteq before(u) /\ last \notin before(last)
      BY <1>3, <3>1, SortPlaceAssumption
    <3>3. /\ IsFiniteSet(before(last) \cup {last})
          /\ Cardinality(before(last) \cup {last}) = Cardinality(before(last)) + 1
      BY <1>2, <3>2, FS_AddElement
    <3>4. Cardinality(before(last)) + 1 <= Cardinality(before(u))
      BY <1>2, <3>2, <3>3, FS_Subset
    <3>5. /\ Cardinality(before(u)) <= Cardinality(before(last))
          /\ Cardinality(before(u)) \in Nat /\ Cardinality(before(last)) \in Nat
      BY <1>2, <2>3
    <3> HIDE DEF before
    <3> QED
      BY <3>4, <3>5
  <2>5. /\ IsFiniteSet(before(last) \cup {last})
        /\ Cardinality(before(last) \cup {last}) <= Cardinality(before(last)) + 1
    BY <1>2, FS_AddElement
  <2>6. Cardinality(B) <= Cardinality(before(last) \cup {last})
    BY <2>4, <2>5, FS_Subset
  <2>7. Cardinality(B) \in Nat /\ Cardinality(before(last) \cup {last}) \in Nat
    BY <1>1, <2>5, FS_CardinalityType
  <2> QED
    BY <1>1, <1>2, <2>5, <2>6, <2>7
<1> QED
  BY <1>4, <1>5

\* task_graph.py:96, next_batch - whatever the statuses, the batch is made of ready tasks, at most
\* MaxParallel of them, is shared by no task that mutates state, and is empty only if none is ready.
THEOREM BatchCorrect ==
    ASSUME NEW st, NEW gated
    PROVE  /\ NextBatch(st, gated) \subseteq Ready(st)
           /\ IsFiniteSet(NextBatch(st, gated)) /\ Cardinality(NextBatch(st, gated)) <= MaxParallel
           /\ \A t \in NextBatch(st, gated) \cap Mutating : NextBatch(st, gated) = {t}
           /\ NextBatch(st, gated) = {} => Ready(st) = {}
<1> DEFINE alone == Mutating \cup gated
           first == {t \in Ready(st) : \A u \in Ready(st) : SortPlace[t] <= SortPlace[u]}
           shared == Ready(st) \ alone
           before(t) == {u \in shared : SortPlace[u] < SortPlace[t]}
<1>1. Ready(st) \subseteq Task /\ MaxParallel \in Nat \ {0} /\ SortPlace \in [Task -> Nat]
  BY GraphAssumption, SortPlaceAssumption DEF Ready
<1>2. Ready(st) # {} => first # {}
  <2> SUFFICES ASSUME Ready(st) # {} PROVE first # {}
    OBVIOUS
  <2>1. \E t \in Ready(st) : \A u \in Ready(st) : SortPlace[t] <= SortPlace[u]
    BY <1>1, FirstTask
  <2> QED
    BY <2>1
<1>3. CASE first \subseteq alone
  <2>1. NextBatch(st, gated) = first
    BY <1>3 DEF NextBatch
  <2>2. \A t, u \in first : t = u
    <3> SUFFICES ASSUME NEW t \in first, NEW u \in first PROVE t = u
      OBVIOUS
    <3>1. t \in Task /\ u \in Task /\ SortPlace[t] <= SortPlace[u] /\ SortPlace[u] <= SortPlace[t]
      BY <1>1
    <3>2. SortPlace[t] = SortPlace[u]
      BY <1>1, <3>1
    <3> QED
      BY <3>1, <3>2, SortPlaceAssumption
  <2>3. IsFiniteSet(first) /\ Cardinality(first) <= MaxParallel
    <3>1. CASE first = {}
      BY <1>1, <3>1, FS_EmptySet
    <3>2. CASE first # {}
      <4>1. PICK t \in first : first = {t}
        BY <2>2, <3>2
      <4>2. IsFiniteSet({t}) /\ Cardinality({t}) = 1
        BY FS_Singleton
      <4> QED
        BY <1>1, <4>1, <4>2
    <3> QED
      BY <3>1, <3>2
  <2> QED
    BY <1>2, <2>1, <2>3, BatchAlone
<1>4. CASE ~(first \subseteq alone)
  <2>1. NextBatch(st, gated) = {t \in shared : Cardinality(before(t)) < MaxParallel}
    BY <1>4 DEF NextBatch
  <2>2. \A t \in NextBatch(st, gated) : Cardinality(before(t)) < MaxParallel
    BY <2>1
  <2>3. NextBatch(st, gated) \in SUBSET shared /\ shared \in SUBSET Task
    BY <1>1, <2>1
  <2>4. IsFiniteSet(NextBatch(st, gated)) /\ Cardinality(NextBatch(st, gated)) <= MaxParallel
    BY <1>1, <2>2, <2>3, RankedFew
  <2>5. PICK t \in first : t \notin alone
    BY <1>4
  <2>6. before(t) = {}
    <3> SUFFICES ASSUME NEW u \in shared, SortPlace[u] < SortPlace[t] PROVE FALSE
      OBVIOUS
    <3>1. SortPlace[t] <= SortPlace[u] /\ SortPlace[t] \in Nat /\ SortPlace[u] \in Nat
      BY <1>1
    <3> QED
      BY <3>1
  <2>7. Cardinality(before(t)) = 0
    BY <2>6, FS_EmptySet
  <2>8. t \in NextBatch(st, gated)
    BY <1>1, <2>1, <2>5, <2>7
  <2> QED
    BY <2>4, <2>8, BatchAlone
<1> QED
  BY <1>3, <1>4

\* The converse of BlockedHasReason: what is open and has a reason to be blocked is blocked.
LEMMA BlockedSpreads ==
    ASSUME NEW st, NEW skipped, NEW t \in Task, st[t] \in RUNNABLE_STATUSES,
           t \notin skipped \cup Speculative, HasFailedDep(st, Blocked(st, skipped), t)
    PROVE  t \in Blocked(st, skipped)
<1> DEFINE open == {u \in Task : st[u] \in RUNNABLE_STATUSES /\ u \notin skipped \cup Speculative}
           closed == {b \in SUBSET open : \A u \in open : HasFailedDep(st, b, u) => u \in b}
           least == Blocked(st, skipped)
<1>1. least = {u \in open : \A b \in closed : u \in b}
  BY DEF Blocked
<1> HIDE DEF least
<1>2. \A b \in closed : HasFailedDep(st, b, t)
  BY <1>1 DEF HasFailedDep, least
<1>3. t \in open
  OBVIOUS
<1> QED
  BY <1>1, <1>2, <1>3 DEF least

\* What a settled task that is not over still waits for.
Held == {"running", "waiting_approval", "needs_input", "absent", "skipped"}

LEMMA HeldUp ==
    ASSUME NEW st \in [Task -> TaskStatus \cup {"absent"}], Ready(Settle(st)) = {},
           NEW t \in Task, Settle(st)[t] \in RUNNABLE_STATUSES
    PROVE  \E d \in Deps[t] : /\ d \in Task
                              /\ \/ Settle(st)[d] \in Held \cup RUNNABLE_STATUSES
                                 \/ t \in Speculative /\ Settle(st)[d] \in FAILING_STATUSES
<1> DEFINE skipped == Skipped(st)
           blocked == Blocked(st, skipped)
           now == Settle(st)
<1>1. \A u \in Task : now[u] = CASE u \in skipped -> "skipped"
                                 [] u \in blocked -> "blocked"
                                 [] OTHER -> st[u]
  BY DEF Settle
<1>2. PICK d \in Deps[t] : now[d] \notin SUCCESS_STATUSES
  BY DEF Ready
<1>3. d \in Task
  BY DepsAssumption
<1>4. now[d] \in TaskStatus \cup {"absent"}
  BY <1>1, <1>3, Statuses
<1>5. CASE now[d] \in FAILING_STATUSES /\ t \notin Speculative
  <2>1. st[t] \in RUNNABLE_STATUSES /\ t \notin skipped /\ t \notin blocked
    BY <1>1, Statuses
  <2>2. d \in blocked \/ st[d] \in FAILING_STATUSES
    BY <1>1, <1>3, <1>5, Statuses
  <2>3. HasFailedDep(st, blocked, t)
    BY <2>2 DEF HasFailedDep
  <2> QED
    BY <1>5, <2>1, <2>3, BlockedSpreads
<1>6. CASE ~(now[d] \in FAILING_STATUSES /\ t \notin Speculative)
  <2>1. now[d] \in Held \cup RUNNABLE_STATUSES \cup FAILING_STATUSES
    BY <1>2, <1>4 DEF TaskStatus, TERMINAL_STATUSES, Held, FAILING_STATUSES
  <2> QED
    BY <1>3, <1>6, <2>1
<1> QED
  BY <1>5, <1>6

\* runtime_manager.py:958 - the loop ends when no task is ready.  A task it leaves runnable is then
\* held up: by following unfinished dependencies from it (within any set closed under them) one
\* comes to a task with a dependency that was skipped, was cut off while it ran, or waits for an
\* answer, or to a speculative one, which is not blocked, with a dependency that failed.
THEOREM LeftBehind ==
    ASSUME NEW st \in [Task -> TaskStatus \cup {"absent"}], Ready(Settle(st)) = {},
           NEW t \in Task, Settle(st)[t] \in RUNNABLE_STATUSES,
           NEW X \in SUBSET Task, t \in X,
           \A u \in X : \A d \in Deps[u] : Settle(st)[d] \in RUNNABLE_STATUSES => d \in X
    PROVE  \E u \in X : /\ Settle(st)[u] \in RUNNABLE_STATUSES
                        /\ \E d \in Deps[u] : \/ Settle(st)[d] \in Held
                                              \/ u \in Speculative /\ Settle(st)[d] \in FAILING_STATUSES
<1>1. PICK depth \in [Task -> 0 .. Cardinality(Task)] :
          \A u \in Task : \A d \in Deps[u] : depth[d] < depth[u]
  BY AcyclicAssumption
<1> DEFINE S == {u \in X : Settle(st)[u] \in RUNNABLE_STATUSES}
<1>2. depth \in [Task -> Nat] /\ S \in SUBSET Task /\ S # {}
  OBVIOUS
<1>3. PICK u \in S : \A v \in S : depth[u] <= depth[v]
  BY <1>2, FirstTask
<1>4. PICK d \in Deps[u] : /\ d \in Task
                           /\ \/ Settle(st)[d] \in Held \cup RUNNABLE_STATUSES
                              \/ u \in Speculative /\ Settle(st)[d] \in FAILING_STATUSES
  BY <1>3, HeldUp
<1>5. Settle(st)[d] \notin RUNNABLE_STATUSES
  <2> SUFFICES ASSUME Settle(st)[d] \in RUNNABLE_STATUSES PROVE FALSE
    OBVIOUS
  <2>1. d \in S
    BY <1>3, <1>4
  <2>2. depth[u] <= depth[d] /\ depth[d] < depth[u] /\ depth[u] \in Nat /\ depth[d] \in Nat
    BY <1>1, <1>2, <1>3, <1>4, <2>1
  <2> QED
    BY <2>2
<1> QED
  BY <1>3, <1>4, <1>5
=============================================================================
