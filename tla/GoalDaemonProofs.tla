-------------------------- MODULE GoalDaemonProofs --------------------------
(***************************************************************************)
(* What GoalDaemon promises for every set of goals, runs and cancellers,   *)
(* every retry budget and any number of restarts.                          *)
(***************************************************************************)
EXTENDS GoalDaemon, FiniteSetTheorems, TLAPS

----------------------------------------------------------------------------
(* Types *)

\* The goal that the daemon and each run work on is a goal.
DaemonKnowsGoal ==
    daemon.pc \in {"claim", "submit", "mark", "fail", "judge"} => daemon.goal \in Goal
RunsKnowGoal == \A r \in Run : run[r].phase # "unused" => run[r].goal \in Goal

TypeInv == TypeOK /\ DaemonKnowsGoal /\ RunsKnowGoal

\* Part of a finite set has a size.
LEMMA CardinalityNat ==
    ASSUME NEW S, NEW T, IsFiniteSet(T), S \subseteq T
    PROVE  Cardinality(S) \in Nat
  BY FS_Subset, FS_CardinalityType

\* A verdict on a row leaves a row.
LEMMA JudgedType ==
    ASSUME row \in [Goal -> Row], NEW g \in Goal, NEW attemptRead
    PROVE  Judged(g, attemptRead) \in Row
  BY DEF Judged, Row, GOAL_STATUSES

\* The table keeps its type when a row is written under its key; under another nothing is written.
LEMMA WriteType ==
    ASSUME row \in [Goal -> Row], NEW g, NEW written, g \in Goal => written \in Row,
           row' = [row EXCEPT ![g] = written]
    PROVE  row' \in [Goal -> Row]
  OBVIOUS

\* The clock turns a row into a row.
LEMMA FallDueType ==
    ASSUME row \in [Goal -> Row], NEW g \in Goal, FallDue(g)
    PROVE  row' \in [Goal -> Row]
  BY DEF FallDue, Row, GOAL_STATUSES

LEMMA GrowOldType ==
    ASSUME row \in [Goal -> Row], NEW g \in Goal, GrowOld(g)
    PROVE  row' \in [Goal -> Row]
<1>1. [row[g] EXCEPT !.old = TRUE] \in Row
  BY DEF Row
<1>2. row' = [row EXCEPT ![g] = [row[g] EXCEPT !.old = TRUE]]
  BY DEF GrowOld
<1> QED
  BY <1>1, <1>2, WriteType

\* So does every write of a status, with or without a request id.
LEMMA ClaimType ==
    ASSUME row \in [Goal -> Row], NEW g \in Goal, Claim(g)
    PROVE  row' \in [Goal -> Row]
  BY DEF Claim, Row, GOAL_STATUSES

LEMMA MarkRunningType ==
    ASSUME row \in [Goal -> Row], NEW g \in Goal, NEW r \in Run \cup {NoRun},
           MarkRunning(g, r)
    PROVE  row' \in [Goal -> Row]
<1>1. [row[g] EXCEPT !.status = "running", !.request = r] \in Row
  BY DEF Row, GOAL_STATUSES
<1>2. row' = [row EXCEPT ![g] = [row[g] EXCEPT !.status = "running", !.request = r]]
  BY DEF MarkRunning
<1> QED
  BY <1>1, <1>2, WriteType

LEMMA MarkCompletedType ==
    ASSUME row \in [Goal -> Row], NEW g \in Goal, MarkCompleted(g)
    PROVE  row' \in [Goal -> Row]
  BY DEF MarkCompleted, Row, GOAL_STATUSES

\* An update of a key that is not in the table changes nothing, so g is any value here.
LEMMA MarkCancelledType ==
    ASSUME row \in [Goal -> Row], NEW g, MarkCancelled(g)
    PROVE  row' \in [Goal -> Row]
<1>1. g \in Goal => [row[g] EXCEPT !.status = "cancelled"] \in Row
  BY DEF Row, GOAL_STATUSES
<1>2. row' = [row EXCEPT ![g] = [row[g] EXCEPT !.status = "cancelled"]]
  BY DEF MarkCancelled
<1> QED
  BY <1>1, <1>2, WriteType

\* The state before any goal is enqueued is well typed.
LEMMA TypeInit == Init => TypeInv
<1> SUFFICES ASSUME Init PROVE TypeInv
  OBVIOUS
<1>1. row \in [Goal -> Row]
  BY DEF Init, QueueInit, Row, NoRow, GOAL_STATUSES
<1>2. run \in [Run -> RunRecord] /\ RunsKnowGoal
  BY DEF Init, RunRecord, RunPhase, RunsKnowGoal
<1>3. daemon \in DaemonRecord /\ DaemonKnowsGoal
  BY DEF Init, AsleepDaemon, DaemonRecord, DaemonPC, DaemonKnowsGoal
<1>4. cancel \in [Canceller -> CancelRecord]
  BY DEF Init, IdleCancel, CancelRecord, CancelPC
<1> QED
  BY <1>1, <1>2, <1>3, <1>4 DEF Init, TypeInv, TypeOK

\* What the daemon's record may become.
LEMMA AsleepType == AsleepDaemon \in DaemonRecord /\ AsleepDaemon.pc = "promote"
  BY DEF AsleepDaemon, DaemonRecord, DaemonPC

LEMMA IdleType == IdleCancel \in CancelRecord
  BY DEF IdleCancel, CancelRecord, CancelPC

\* A run that changes its phase, and nothing else, keeps its type and its goal.
LEMMA PhaseType ==
    ASSUME run \in [Run -> RunRecord], RunsKnowGoal,
           NEW r \in Run, NEW phase \in RunPhase, run[r].phase # "unused",
           run' = [run EXCEPT ![r].phase = phase]
    PROVE  run' \in [Run -> RunRecord] /\ RunsKnowGoal'
<1>1. run[r] \in RunRecord /\ run[r].goal \in Goal
  BY DEF RunsKnowGoal
<1>2. [run[r] EXCEPT !.phase = phase] \in RunRecord
  BY <1>1 DEF RunRecord
<1>3. run' = [run EXCEPT ![r] = [run[r] EXCEPT !.phase = phase]]
  OBVIOUS
<1>4. run' \in [Run -> RunRecord]
  BY <1>2, <1>3
<1>5. ASSUME NEW q \in Run, run'[q].phase # "unused" PROVE run'[q].goal \in Goal
  <2>1. CASE q = r
    BY <1>1, <1>3, <2>1 DEF RunRecord
  <2>2. CASE q # r
    BY <1>3, <1>5, <2>2 DEF RunsKnowGoal
  <2> QED
    BY <2>1, <2>2
<1> QED
  BY <1>4, <1>5 DEF RunsKnowGoal

\* What a cancel makes of a run that has not ended.
LEMMA CancellingPhase ==
    ASSUME NEW phase
    PROVE  Cancelling(phase) \in RunPhase
  BY DEF Cancelling, RunPhase

\* A step of a client keeps the types.
LEMMA ClientType ==
    ASSUME TypeInv,
           \/ \E g \in Goal : EnqueueGoal(g) \/ Clock(g)
           \/ \E c \in Canceller :
                \/ \E g \in Goal : CancelGoalRead(c, g)
                \/ \E r \in Run : CancelRunCall(c, r)
                \/ CancelRunRequest(c) \/ CancelDeliver(c) \/ CancelGoalWrite(c)
    PROVE  TypeInv'
<1> USE DEF TypeInv, TypeOK, DaemonKnowsGoal
<1>1. ASSUME NEW g \in Goal, EnqueueGoal(g) PROVE TypeInv'
  <2>1. Cardinality(Stored) \in Nat
    BY CardinalityNat, FiniteAssumption DEF Stored
  <2>2. PICK scheduled \in BOOLEAN : Enqueue(g, scheduled)
    BY <1>1 DEF EnqueueGoal
  <2> DEFINE added == [NoRow EXCEPT !.status  = IF scheduled THEN "deferred" ELSE "queued",
                                    !.sched   = IF scheduled THEN "later" ELSE "null",
                                    !.created = Cardinality(Stored)]
  <2>3. added \in Row
    BY <2>1 DEF NoRow, Row, GOAL_STATUSES
  <2>4. row' = [row EXCEPT ![g] = added]
    BY <2>2 DEF Enqueue
  <2> HIDE DEF added
  <2>5. row' \in [Goal -> Row]
    BY <2>3, <2>4
  <2> QED
    BY <1>1, <2>5 DEF EnqueueGoal, RunsKnowGoal
<1>2. ASSUME NEW g \in Goal, Clock(g) PROVE TypeInv'
  <2>1. row' \in [Goal -> Row]
    BY <1>2, FallDueType, GrowOldType DEF Clock
  <2> QED
    BY <1>2, <2>1 DEF Clock, RunsKnowGoal
<1>3. ASSUME NEW c \in Canceller, NEW g \in Goal, CancelGoalRead(c, g) PROVE TypeInv'
  <2>1. row[g].request \in Run \cup {NoRun}
    BY DEF Row
  <2>2. cancel' \in [Canceller -> CancelRecord]
    BY <1>3, <2>1 DEF CancelGoalRead, CancelRecord, CancelPC
  <2> QED
    BY <1>3, <2>2 DEF CancelGoalRead, RunsKnowGoal
<1>4. ASSUME NEW c \in Canceller, NEW r \in Run, CancelRunCall(c, r) PROVE TypeInv'
  <2>1. cancel' \in [Canceller -> CancelRecord]
    BY <1>4 DEF CancelRunCall, CancelRecord, CancelPC
  <2>2. run' \in [Run -> RunRecord] /\ RunsKnowGoal'
    <3>1. run[r].phase # "unused"
      BY <1>4 DEF CancelRunCall, WithPipeline, WithoutPipeline
    <3>2. run' = [run EXCEPT ![r].phase = Cancelling(run[r].phase)]
      BY <1>4 DEF CancelRunCall
    <3> QED
      BY <3>1, <3>2, CancellingPhase, PhaseType
  <2> QED
    BY <1>4, <2>1, <2>2 DEF CancelRunCall
<1>5. ASSUME NEW c \in Canceller, CancelRunRequest(c) PROVE TypeInv'
  <2> DEFINE r    == cancel[c].run
             open == run[r].phase \in WithPipeline \cup WithoutPipeline
             next == IF open THEN "deliver" ELSE "write"
  <2>1. cancel' \in [Canceller -> CancelRecord]
    <3>1. cancel' = [cancel EXCEPT ![c] = [cancel[c] EXCEPT !.pc = next]]
      BY <1>5 DEF CancelRunRequest
    <3>2. next \in CancelPC
      BY DEF CancelPC
    <3> HIDE DEF next
    <3>3. [cancel[c] EXCEPT !.pc = next] \in CancelRecord
      BY <3>2 DEF CancelRecord
    <3> QED
      BY <3>1, <3>3
  <2>2. run' \in [Run -> RunRecord] /\ RunsKnowGoal'
    <3>1. r \in Run \cup {NoRun}
      BY DEF CancelRecord
    <3>2. run' = IF open THEN [run EXCEPT ![r].phase = Cancelling(run[r].phase)] ELSE run
      BY <1>5 DEF CancelRunRequest
    <3>3. open => run[r].phase # "unused"
      BY DEF WithPipeline, WithoutPipeline
    <3> HIDE DEF r, open
    <3>4. CASE open /\ r \in Run
      BY <3>2, <3>3, <3>4, CancellingPhase, PhaseType
    <3>5. CASE ~open
      BY <3>2, <3>5 DEF RunsKnowGoal
    <3>6. CASE r = NoRun
      <4>1. run' = run
        BY <3>2, <3>6, NoRunAssumption
      <4> QED
        BY <4>1 DEF RunsKnowGoal
    <3> QED
      BY <3>1, <3>4, <3>5, <3>6
  <2> QED
    BY <1>5, <2>1, <2>2 DEF CancelRunRequest
<1>6. ASSUME NEW c \in Canceller, CancelDeliver(c) PROVE TypeInv'
  <2>1. cancel' \in [Canceller -> CancelRecord]
    BY <1>6, IdleType DEF CancelDeliver, CancelRecord, CancelPC
  <2>2. run' \in [Run -> RunRecord] /\ RunsKnowGoal'
    <3> DEFINE r       == cancel[c].run
               struck == run[r].phase \in WithPipeline \cup {"completing", "failing", "judging"}
    <3>1. r \in Run \cup {NoRun}
      BY DEF CancelRecord
    <3>2. run' = IF struck THEN [run EXCEPT ![r].phase = "cancelled"] ELSE run
      BY <1>6 DEF CancelDeliver
    <3>3. struck => run[r].phase # "unused"
      BY DEF WithPipeline
    <3>4. "cancelled" \in RunPhase
      BY DEF RunPhase
    <3> HIDE DEF r, struck
    <3>5. CASE struck /\ r \in Run
      BY <3>2, <3>3, <3>4, <3>5, PhaseType
    <3>6. CASE ~struck
      BY <3>2, <3>6 DEF RunsKnowGoal
    <3>7. CASE r = NoRun
      <4>1. run' = run
        BY <3>2, <3>7, NoRunAssumption
      <4> QED
        BY <4>1 DEF RunsKnowGoal
    <3> QED
      BY <3>1, <3>5, <3>6, <3>7
  <2> QED
    BY <1>6, <2>1, <2>2 DEF CancelDeliver
<1>7. ASSUME NEW c \in Canceller, CancelGoalWrite(c) PROVE TypeInv'
  <2>1. cancel' \in [Canceller -> CancelRecord]
    BY <1>7, IdleType DEF CancelGoalWrite
  <2>2. row' \in [Goal -> Row]
    BY <1>7, MarkCancelledType DEF CancelGoalWrite
  <2> QED
    BY <1>7, <2>1, <2>2 DEF CancelGoalWrite, RunsKnowGoal
<1> QED
  BY <1>1, <1>2, <1>3, <1>4, <1>5, <1>6, <1>7

\* A step of the daemon tick keeps the types.
LEMMA DaemonType == ASSUME TypeInv, DaemonStep PROVE TypeInv'
<1> USE DEF TypeInv, TypeOK
<1>1. CASE DaemonPromote
  <2>1. row' \in [Goal -> Row]
    BY <1>1 DEF DaemonPromote, PromoteDeferred, Promotable, Row, GOAL_STATUSES
  <2>2. daemon' \in DaemonRecord /\ DaemonKnowsGoal'
    BY <1>1 DEF DaemonPromote, DaemonGoes, DaemonRecord, DaemonPC, DaemonKnowsGoal
  <2> QED
    BY <1>1, <2>1, <2>2 DEF DaemonPromote, RunsKnowGoal
<1>2. CASE DaemonSelectStale
  <2> DEFINE read == [g \in Goal |-> IF g \in StaleRunning THEN row[g].attempt ELSE 0]
             next == IF StaleRunning = {} THEN "resume" ELSE "recover"
  <2>1. StaleRunning \in SUBSET Goal
    BY DEF StaleRunning
  <2>2. read \in [Goal -> Nat]
    BY DEF Row
  <2>3. daemon' = [daemon EXCEPT !.pc = next, !.stale = StaleRunning, !.attemptRead = read]
    BY <1>2 DEF DaemonSelectStale
  <2> HIDE DEF read
  <2>4. daemon' \in DaemonRecord /\ DaemonKnowsGoal'
    BY <2>1, <2>2, <2>3 DEF DaemonRecord, DaemonPC, DaemonKnowsGoal
  <2> QED
    BY <1>2, <2>4 DEF DaemonSelectStale, RunsKnowGoal
<1>3. CASE DaemonRecoverStale
  <2>1. row' \in [Goal -> Row]
    BY <1>3, JudgedType DEF DaemonRecoverStale, RecoverStaleRunning
  <2>2. daemon' \in DaemonRecord /\ DaemonKnowsGoal'
    BY <1>3, AsleepType DEF DaemonRecoverStale, DaemonRecord, DaemonPC, DaemonKnowsGoal
  <2> QED
    BY <1>3, <2>1, <2>2 DEF DaemonRecoverStale, RunsKnowGoal
<1>4. CASE DaemonResume
  <2>1. daemon' \in DaemonRecord /\ DaemonKnowsGoal'
    BY <1>4 DEF DaemonResume, DaemonGoes, DaemonRecord, DaemonPC, DaemonKnowsGoal
  <2>2. run' \in [Run -> RunRecord] /\ RunsKnowGoal'
    <3>1. PICK resumed \in SUBSET {r \in Run : run[r].phase \in WithoutPipeline} :
            run' = [r \in Run |-> IF r \in resumed
                                  THEN [run[r] EXCEPT !.phase = Resumed(run[r].phase)]
                                  ELSE run[r]]
      BY <1>4 DEF DaemonResume
    <3>2. ASSUME NEW r \in Run
          PROVE  /\ run'[r] \in RunRecord
                 /\ run'[r].phase # "unused" => run'[r].goal \in Goal
      <4>1. run[r] \in RunRecord /\ (run[r].phase # "unused" => run[r].goal \in Goal)
        BY DEF RunsKnowGoal
      <4>2. CASE r \in resumed
        <5>1. run[r].phase # "unused" /\ Resumed(run[r].phase) \in RunPhase
          BY <4>2 DEF WithoutPipeline, Resumed, RunPhase
        <5>2. run'[r] = [run[r] EXCEPT !.phase = Resumed(run[r].phase)]
          BY <3>1, <4>2
        <5> QED
          BY <4>1, <5>1, <5>2 DEF RunRecord
      <4>3. CASE r \notin resumed
        <5>1. run'[r] = run[r]
          BY <3>1, <4>3
        <5> QED
          BY <4>1, <5>1
      <4> QED
        BY <4>2, <4>3
    <3>3. run' = [r \in Run |-> run'[r]]
      BY <3>1
    <3> QED
      BY <3>2, <3>3 DEF RunsKnowGoal
  <2> QED
    BY <1>4, <2>1, <2>2 DEF DaemonResume
<1>5. CASE DaemonCount
  <2>1. Cardinality(Counted) \in Nat
    BY CardinalityNat, FiniteAssumption DEF Counted
  <2>2. daemon' \in DaemonRecord /\ DaemonKnowsGoal'
    BY <1>5, <2>1 DEF DaemonCount, DaemonRecord, DaemonPC, DaemonKnowsGoal
  <2> QED
    BY <1>5, <2>2 DEF DaemonCount, RunsKnowGoal
<1>6. CASE DaemonDequeue
  <2>1. \/ daemon' = AsleepDaemon
        \/ \E g \in Goal : daemon' = [daemon EXCEPT !.pc = "claim", !.goal = g]
    BY <1>6 DEF DaemonDequeue
  <2>2. daemon' \in DaemonRecord /\ DaemonKnowsGoal'
    BY <2>1, AsleepType DEF DaemonRecord, DaemonPC, DaemonKnowsGoal
  <2> QED
    BY <1>6, <2>2 DEF DaemonDequeue, RunsKnowGoal
<1>7. CASE DaemonClaim
  <2>1. row' \in [Goal -> Row]
    BY <1>7, ClaimType DEF DaemonClaim, DaemonGoes, DaemonKnowsGoal
  <2>2. daemon' \in DaemonRecord /\ DaemonKnowsGoal'
    BY <1>7 DEF DaemonClaim, DaemonGoes, DaemonRecord, DaemonPC, DaemonKnowsGoal
  <2> QED
    BY <1>7, <2>1, <2>2 DEF DaemonClaim, RunsKnowGoal
<1>8. ASSUME NEW r \in Run, DaemonSubmit(r) PROVE TypeInv'
  <2>1. daemon' \in DaemonRecord /\ DaemonKnowsGoal'
    BY <1>8 DEF DaemonSubmit, DaemonRecord, DaemonPC, DaemonKnowsGoal
  <2>2. daemon.goal \in Goal
    BY <1>8 DEF DaemonSubmit, DaemonKnowsGoal
  <2>3. run' \in [Run -> RunRecord] /\ RunsKnowGoal'
    <3> DEFINE started == [run[r] EXCEPT !.phase = "live", !.goal = daemon.goal]
    <3>1. run' = [run EXCEPT ![r] = started]
      BY <1>8 DEF DaemonSubmit
    <3>2. started \in RunRecord /\ started.goal \in Goal
      BY <2>2 DEF RunRecord, RunPhase
    <3> HIDE DEF started
    <3> QED
      BY <3>1, <3>2 DEF RunsKnowGoal
  <2> QED
    BY <1>8, <2>1, <2>3 DEF DaemonSubmit
<1>9. CASE DaemonMark
  <2>1. daemon.goal \in Goal /\ daemon.run \in Run \cup {NoRun}
    BY <1>9 DEF DaemonMark, DaemonRecord, DaemonKnowsGoal
  <2>2. row' \in [Goal -> Row]
    BY <1>9, <2>1, MarkRunningType DEF DaemonMark
  <2>3. daemon' = [daemon EXCEPT !.pc = "dequeue", !.slots = @ + 1,
                                 !.goal = NoGoal, !.run = NoRun]
    BY <1>9 DEF DaemonMark
  <2> DEFINE slots == daemon.slots + 1
  <2>4. slots \in Nat /\ daemon' = [daemon EXCEPT !.pc = "dequeue", !.slots = slots,
                                                 !.goal = NoGoal, !.run = NoRun]
    BY <2>3 DEF DaemonRecord
  <2> HIDE DEF slots
  <2>5. daemon' \in DaemonRecord /\ DaemonKnowsGoal'
    BY <2>4 DEF DaemonRecord, DaemonPC, DaemonKnowsGoal
  <2> QED
    BY <1>9, <2>2, <2>5 DEF DaemonMark, RunsKnowGoal
<1>10. CASE DaemonStartRaises
  <2>1. daemon' \in DaemonRecord /\ DaemonKnowsGoal'
    BY <1>10 DEF DaemonStartRaises, DaemonRecord, DaemonPC, DaemonKnowsGoal
  <2> QED
    BY <1>10, <2>1 DEF DaemonStartRaises, RunsKnowGoal
<1>11. CASE DaemonFailRead
  <2>1. daemon.goal \in Goal
    BY <1>11 DEF DaemonFailRead, DaemonKnowsGoal
  <2>2. row[daemon.goal].attempt \in Nat
    BY <2>1 DEF Row
  <2>3. daemon' \in DaemonRecord /\ DaemonKnowsGoal'
    BY <1>11, <2>1, <2>2 DEF DaemonFailRead, DaemonRecord, DaemonPC, DaemonKnowsGoal
  <2> QED
    BY <1>11, <2>3 DEF DaemonFailRead, RunsKnowGoal
<1>12. CASE DaemonFailWrite
  <2>1. daemon.goal \in Goal
    BY <1>12 DEF DaemonFailWrite, DaemonKnowsGoal
  <2>2. row' \in [Goal -> Row]
    BY <1>12, <2>1, JudgedType DEF DaemonFailWrite, MarkFailed
  <2>3. daemon' \in DaemonRecord /\ DaemonKnowsGoal'
    BY <1>12 DEF DaemonFailWrite, DaemonRecord, DaemonPC, DaemonKnowsGoal
  <2>4. torn' \in SUBSET Goal
    BY <1>12, <2>1 DEF DaemonFailWrite, Torn
  <2> QED
    BY <1>12, <2>2, <2>3, <2>4 DEF DaemonFailWrite, RunsKnowGoal
<1> QED
  BY <1>1, <1>2, <1>3, <1>4, <1>5, <1>6, <1>7, <1>8, <1>9, <1>10, <1>11, <1>12 DEF DaemonStep

\* A step of a run keeps the types.
LEMMA RunType ==
    ASSUME TypeInv, NEW r \in Run, RunProceeds(r) \/ RunContinues(r)
    PROVE  TypeInv'
<1> USE DEF TypeInv, TypeOK, DaemonKnowsGoal
<1>0. CASE RunParks(r)
  <2>1. PICK rest \in {"parked", "paused", "stranded"} :
          /\ run[r].phase = IF rest = "stranded" THEN "cancelling" ELSE "live"
          /\ run' = [run EXCEPT ![r] = [run[r] EXCEPT !.phase = rest,
                                                     !.parks = run[r].parks + 1]]
    BY <1>0 DEF RunParks
  <2>2. run[r] \in RunRecord /\ run[r].goal \in Goal
    BY <2>1 DEF RunsKnowGoal
  <2>3. rest \in RunPhase
    BY DEF RunPhase
  <2> DEFINE parks  == run[r].parks + 1
             parked == [run[r] EXCEPT !.phase = rest, !.parks = parks]
  <2>4. run' = [run EXCEPT ![r] = parked] /\ parks \in Nat
    BY <2>1, <2>2 DEF RunRecord
  <2> HIDE DEF parks
  <2>5. parked \in RunRecord
    BY <2>2, <2>3, <2>4 DEF RunRecord
  <2>6. parked.goal \in Goal
    BY <2>2 DEF RunRecord
  <2> HIDE DEF parked
  <2>7. run' \in [Run -> RunRecord] /\ RunsKnowGoal'
    BY <2>4, <2>5, <2>6 DEF RunsKnowGoal
  <2> QED
    BY <1>0, <2>7 DEF RunParks
<1>1. CASE RunCompletes(r) \/ RunFails(r) \/ RunStops(r) \/ RunContinues(r)
  <2>1. PICK phase \in RunPhase :
          run[r].phase # "unused" /\ run' = [run EXCEPT ![r].phase = phase]
    <3>1. CASE RunCompletes(r) \/ RunFails(r)
      BY <3>1 DEF RunCompletes, RunFails, RunGoes, RunPhase
    <3>2. CASE RunStops(r)
      BY <3>2 DEF RunStops, RunGoes, RunPhase
    <3>3. CASE RunContinues(r)
      BY <3>3 DEF RunContinues, RunGoes, RunPhase, Resumed, WithoutPipeline
    <3> QED
      BY <1>1, <3>1, <3>2, <3>3
  <2>2. run' \in [Run -> RunRecord] /\ RunsKnowGoal'
    BY <2>1, PhaseType
  <2> QED
    BY <1>1, <2>2 DEF RunCompletes, RunFails, RunStops, RunContinues
<1>2. CASE RunMarksCompleted(r)
  <2>1. run' \in [Run -> RunRecord] /\ RunsKnowGoal'
    BY <1>2 DEF RunMarksCompleted, RunGoes, RunRecord, RunPhase, RunsKnowGoal
  <2>2. row' \in [Goal -> Row]
    BY <1>2, MarkCompletedType DEF RunMarksCompleted, RunGoes, RunsKnowGoal
  <2> QED
    BY <1>2, <2>1, <2>2 DEF RunMarksCompleted
<1>3. CASE RunReadsGoal(r)
  <2>1. run[r].goal \in Goal
    BY <1>3 DEF RunReadsGoal, RunsKnowGoal
  <2>2. row[run[r].goal].attempt \in Nat
    BY <2>1 DEF Row
  <2>3. run' \in [Run -> RunRecord] /\ RunsKnowGoal'
    <3> DEFINE read == [run[r] EXCEPT !.phase = "judging", !.attemptRead = row[run[r].goal].attempt]
    <3>1. run' = [run EXCEPT ![r] = read]
      BY <1>3 DEF RunReadsGoal
    <3>2. read \in RunRecord /\ read.goal \in Goal
      BY <2>1, <2>2 DEF RunRecord, RunPhase
    <3> HIDE DEF read
    <3> QED
      BY <3>1, <3>2 DEF RunsKnowGoal
  <2> QED
    BY <1>3, <2>3 DEF RunReadsGoal
<1>4. CASE RunMarksFailed(r)
  <2>1. run[r].goal \in Goal
    BY <1>4 DEF RunMarksFailed, RunsKnowGoal
  <2>2. run' \in [Run -> RunRecord] /\ RunsKnowGoal'
    <3> DEFINE done == [run[r] EXCEPT !.phase = "failed", !.attemptRead = 0]
    <3>1. run' = [run EXCEPT ![r] = done]
      BY <1>4 DEF RunMarksFailed
    <3>2. done \in RunRecord /\ done.goal \in Goal
      BY <2>1 DEF RunRecord, RunPhase
    <3> HIDE DEF done
    <3> QED
      BY <3>1, <3>2 DEF RunsKnowGoal
  <2>3. row' \in [Goal -> Row]
    BY <1>4, <2>1, JudgedType DEF RunMarksFailed, MarkFailed
  <2>4. torn' \in SUBSET Goal
    BY <1>4, <2>1 DEF RunMarksFailed, Torn
  <2> QED
    BY <1>4, <2>2, <2>3, <2>4 DEF RunMarksFailed
<1> QED
  BY <1>0, <1>1, <1>2, <1>3, <1>4 DEF RunProceeds

\* So does a crash.
LEMMA CrashType == ASSUME TypeInv, Crash PROVE TypeInv'
<1>1. PICK saved \in SUBSET Run :
        run' = [r \in Run |-> [run[r] EXCEPT !.phase = AfterCrash(@, r \in saved),
                                             !.attemptRead = 0]]
  BY DEF Crash
<1>2. ASSUME NEW r \in Run
      PROVE  /\ AfterCrash(run[r].phase, r \in saved) \in RunPhase
             /\ run[r].phase = "unused" => AfterCrash(run[r].phase, r \in saved) = "unused"
  BY DEF AfterCrash, TypeInv, TypeOK, RunRecord, RunPhase, WithPipeline, WithoutPipeline
<1>3. ASSUME NEW r \in Run
      PROVE  /\ run'[r] \in RunRecord
             /\ run'[r].phase # "unused" => run'[r].goal \in Goal
  <2>1. run[r] \in RunRecord /\ (run[r].phase # "unused" => run[r].goal \in Goal)
    BY DEF TypeInv, TypeOK, RunsKnowGoal
  <2>2. PICK after \in RunPhase :
          /\ run[r].phase = "unused" => after = "unused"
          /\ run'[r] = [run[r] EXCEPT !.phase = after, !.attemptRead = 0]
    BY <1>1, <1>2, Zenon
  <2>3. [run[r] EXCEPT !.phase = after, !.attemptRead = 0] \in RunRecord
    BY <2>1 DEF RunRecord
  <2>4. run'[r].phase = after /\ run'[r].goal = run[r].goal
    BY <2>1, <2>2 DEF RunRecord
  <2> QED
    BY <2>1, <2>2, <2>3, <2>4
<1>4. run' \in [Run -> RunRecord] /\ RunsKnowGoal'
  <2>1. run' = [r \in Run |-> run'[r]]
    BY <1>1, Zenon
  <2> QED
    BY <2>1, <1>3, Zenon DEF RunsKnowGoal
<1>5. daemon' \in DaemonRecord /\ DaemonKnowsGoal'
  BY AsleepType DEF Crash, DaemonKnowsGoal
<1>6. cancel' \in [Canceller -> CancelRecord]
  BY IdleType DEF Crash
<1>7. row' = row /\ torn' = torn /\ crashes' = crashes + 1
  BY Zenon DEF Crash
<1>8. crashes' \in Nat
  BY <1>7 DEF TypeInv, TypeOK
<1> QED
  BY <1>4, <1>5, <1>6, <1>7, <1>8 DEF TypeInv, TypeOK

\* Every step keeps the types.
LEMMA TypeStep == TypeInv /\ [Next]_vars => TypeInv'
<1> SUFFICES ASSUME TypeInv, [Next]_vars PROVE TypeInv'
  OBVIOUS
<1>1. CASE UNCHANGED vars
  BY <1>1 DEF vars, TypeInv, TypeOK, DaemonKnowsGoal, RunsKnowGoal
<1> QED
  BY <1>1, ClientType, DaemonType, RunType, CrashType DEF Next

\* Rows, runs and calls in flight always have the shape the code gives them, and nobody works on
\* a goal that does not exist.
THEOREM TypeCorrect == Spec => []TypeOK
<1>1. TypeInv => TypeOK
  BY DEF TypeInv
<1> QED
  BY TypeInit, TypeStep, <1>1, PTL DEF Spec

----------------------------------------------------------------------------
(* The safety properties, from three lemmas that say what any step of the  *)
(* system may do to the table: attempts change by a claim alone, a status  *)
(* comes from one of five places, and a verdict is about an attempt that   *)
(* somebody read.                                                          *)

(* The inductive invariant *)

\* A goal that was never enqueued was never tried.
AbsentUntried == \A g \in Goal : row[g].status = "absent" => row[g].attempt = 0

\* What mark_failed and recover_stale_running have read may be out of date, in one direction:
\* the attempt they are about to judge is not later than the row's.
RunReadsPast ==
    \A r \in Run : run[r].phase = "judging" => run[r].attemptRead <= row[run[r].goal].attempt
DaemonReadsPast ==
    daemon.pc = "judge" => daemon.attemptRead[daemon.goal] <= row[daemon.goal].attempt

\* Recovery judges the attempt that the row still has: only the daemon claims, and it is busy.
RecoveryReadsNow ==
    daemon.pc = "recover" =>
        \A g \in daemon.stale : daemon.attemptRead[g] = row[g].attempt

ReadInv == TypeInv /\ AbsentUntried /\ RunReadsPast /\ DaemonReadsPast /\ RecoveryReadsNow

\* A goal that waits for a run may still be tried, and so may the one about to be claimed.
Waiting == {"absent", "queued", "deferred", "retrying"}
WaitersWithinBudget ==
    \A g \in Goal \ torn : row[g].status \in Waiting => row[g].attempt < Budget(g)
ClaimWithinBudget ==
    daemon.pc = "claim" /\ daemon.goal \notin torn => row[daemon.goal].attempt < Budget(daemon.goal)

BudgetInv == ReadInv /\ AttemptBudget /\ WaitersWithinBudget /\ ClaimWithinBudget

\* Between the claim and the run's start one attempt has no run yet.
SubmitHasAttempt ==
    \A g \in Goal : daemon.pc = "submit" /\ daemon.goal = g =>
        Cardinality(RunsOf(g)) < row[g].attempt

ExecutionInv == ReadInv /\ ExecutionsWithinAttempts /\ SubmitHasAttempt

----------------------------------------------------------------------------
(* What a step does to the attempts *)

AttemptsKept == \A g \in Goal : row'[g].attempt = row[g].attempt

\* A verdict, whatever it is, leaves the attempt alone.
LEMMA JudgedAttempt ==
    ASSUME row \in [Goal -> Row], NEW g \in Goal, NEW n
    PROVE  Judged(g, n).attempt = row[g].attempt
  BY DEF Judged, Row

\* Enqueueing starts at attempt 0, where a goal that was never tried already is.
LEMMA EnqueueAttempt ==
    ASSUME row \in [Goal -> Row], AbsentUntried, NEW h \in Goal, EnqueueGoal(h)
    PROVE  AttemptsKept
<1>1. PICK scheduled \in BOOLEAN : Enqueue(h, scheduled)
  BY DEF EnqueueGoal
<1> DEFINE added == [NoRow EXCEPT !.status  = IF scheduled THEN "deferred" ELSE "queued",
                                  !.sched   = IF scheduled THEN "later" ELSE "null",
                                  !.created = Cardinality(Stored)]
<1>2. added.attempt = 0
  BY DEF NoRow
<1>3. row' = [row EXCEPT ![h] = added] /\ row[h].attempt = 0
  BY <1>1 DEF Enqueue, Stored, AbsentUntried
<1> HIDE DEF added
<1> QED
  BY <1>2, <1>3 DEF AttemptsKept

\* Only a claim changes an attempt.
LEMMA AttemptStep ==
    ASSUME TypeInv, AbsentUntried, [Next]_vars, ~DaemonClaim
    PROVE  AttemptsKept
<1> USE DEF AttemptsKept
<1>0. row \in [Goal -> Row]
  BY DEF TypeInv, TypeOK
<1>1. ASSUME row' = row PROVE AttemptsKept
  BY <1>1
<1>2. ASSUME NEW g \in Goal, EnqueueGoal(g) \/ Clock(g) PROVE AttemptsKept
  BY <1>0, <1>2, EnqueueAttempt DEF Clock, FallDue, GrowOld, Row
<1>3. ASSUME NEW c \in Canceller, CancelGoalWrite(c) PROVE AttemptsKept
  BY <1>0, <1>3 DEF CancelGoalWrite, MarkCancelled, Row
<1>4. ASSUME DaemonStep PROVE AttemptsKept
  <2>1. CASE DaemonPromote
    BY <1>0, <2>1 DEF DaemonPromote, PromoteDeferred, Row
  <2>2. CASE DaemonRecoverStale
    BY <1>0, <2>2, JudgedAttempt DEF DaemonRecoverStale, RecoverStaleRunning
  <2>3. CASE DaemonMark
    BY <1>0, <2>3 DEF DaemonMark, MarkRunning, Row
  <2>4. CASE DaemonFailWrite
    BY <1>0, <2>4, JudgedAttempt DEF DaemonFailWrite, MarkFailed
  <2> QED
    BY <1>1, <1>4, <2>1, <2>2, <2>3, <2>4
       DEF DaemonStep, DaemonSelectStale, DaemonResume, DaemonCount, DaemonDequeue,
           DaemonSubmit, DaemonStartRaises, DaemonFailRead
<1>5. ASSUME NEW r \in Run, RunProceeds(r) \/ RunContinues(r) PROVE AttemptsKept
  <2>1. CASE RunMarksCompleted(r)
    BY <1>0, <2>1 DEF RunMarksCompleted, MarkCompleted, Row
  <2>2. CASE RunMarksFailed(r)
    BY <1>0, <2>2, JudgedAttempt DEF RunMarksFailed, MarkFailed
  <2> QED
    BY <1>1, <1>5, <2>1, <2>2 DEF RunProceeds, RunContinues, RunParks, RunCompletes, RunFails,
                                  RunStops, RunReadsGoal
<1> QED
  BY <1>1, <1>2, <1>3, <1>4, <1>5
     DEF Next, vars, CancelGoalRead, CancelRunCall, CancelRunRequest, CancelDeliver, Crash

\* A claim counts one attempt of the claimed goal.
LEMMA ClaimStep ==
    ASSUME TypeInv, DaemonClaim
    PROVE  /\ daemon.pc = "claim" /\ daemon.goal \in Goal
           /\ row'[daemon.goal].attempt = row[daemon.goal].attempt + 1
           /\ row'[daemon.goal].status = "running"
           /\ \A g \in Goal \ {daemon.goal} : row'[g] = row[g]
  BY DEF DaemonClaim, DaemonGoes, Claim, TypeInv, TypeOK, DaemonKnowsGoal, Row

\* So attempts never decrease.
LEMMA AttemptsGrow ==
    ASSUME TypeInv, AbsentUntried, [Next]_vars
    PROVE  \A g \in Goal : row[g].attempt <= row'[g].attempt
<1>1. \A g \in Goal : row[g].attempt \in Nat
  BY DEF TypeInv, TypeOK, Row
<1> QED
  BY <1>1, AttemptStep, ClaimStep DEF AttemptsKept

----------------------------------------------------------------------------
(* Where a status comes from *)

\* A verdict on g about attempt n, in a step of whoever read n: the run, the daemon whose start
\* raised, or the recovery of stale goals, whose verdict is always about the row's attempt.
RunJudges(g, n) ==
    \E r \in Run : /\ run[r].phase = "judging" /\ run[r].goal = g /\ run[r].attemptRead = n
                  /\ torn' = torn \cup Torn(g, n)
DaemonJudges(g, n) ==
    /\ daemon.pc = "judge" /\ daemon.goal = g /\ daemon.attemptRead[g] = n
    /\ torn' = torn \cup Torn(g, n)
RecoveryJudges(g, n) ==
    daemon.pc = "recover" /\ g \in daemon.stale /\ daemon.attemptRead[g] = n

Verdict(g, n) ==
    /\ RunJudges(g, n) \/ DaemonJudges(g, n) \/ RecoveryJudges(g, n)
    /\ row'[g].status = IF n < MaxRetries[g] THEN "retrying" ELSE "failed"

\* The goal of a run that completes in this step.
Witnessed(g) == \E r \in Run : run'[r].goal = g /\ run'[r].phase = "completed"

StatusFrom(g) ==
    \/ row'[g].status = row[g].status
    \/ row'[g].status \in {"running", "cancelled"}
    \/ row'[g].status = "completed" /\ Witnessed(g)
    \/ row'[g].status \in {"queued", "deferred"} /\ row[g].status \in Waiting
    \/ \E n : Verdict(g, n)

LEMMA JudgedStatus ==
    ASSUME row \in [Goal -> Row], NEW g \in Goal, NEW n
    PROVE  Judged(g, n).status = IF n < MaxRetries[g] THEN "retrying" ELSE "failed"
  BY DEF Judged, Row

LEMMA EnqueueStatus ==
    ASSUME row \in [Goal -> Row], NEW h \in Goal, EnqueueGoal(h), NEW g \in Goal
    PROVE  StatusFrom(g)
<1>1. PICK scheduled \in BOOLEAN : Enqueue(h, scheduled)
  BY DEF EnqueueGoal
<1> DEFINE added == [NoRow EXCEPT !.status  = IF scheduled THEN "deferred" ELSE "queued",
                                  !.sched   = IF scheduled THEN "later" ELSE "null",
                                  !.created = Cardinality(Stored)]
<1>2. added.status \in {"queued", "deferred"}
  BY DEF NoRow
<1>3. row' = [row EXCEPT ![h] = added] /\ row[h].status = "absent"
  BY <1>1 DEF Enqueue, Stored
<1> HIDE DEF added
<1> QED
  BY <1>2, <1>3 DEF StatusFrom, Waiting

\* Every status of every step has one of these sources.
LEMMA StatusStep ==
    ASSUME TypeInv, [Next]_vars
    PROVE  \A g \in Goal : StatusFrom(g)
<1> SUFFICES ASSUME NEW g \in Goal PROVE StatusFrom(g)
  OBVIOUS
<1>0. row \in [Goal -> Row]
  BY DEF TypeInv, TypeOK
<1>1. ASSUME row' = row PROVE StatusFrom(g)
  BY <1>1 DEF StatusFrom
<1>2. ASSUME NEW h \in Goal, EnqueueGoal(h) \/ Clock(h) PROVE StatusFrom(g)
  BY <1>0, <1>2, EnqueueStatus DEF Clock, FallDue, GrowOld, Row, StatusFrom
<1>3. ASSUME NEW c \in Canceller, CancelGoalWrite(c) PROVE StatusFrom(g)
  BY <1>0, <1>3 DEF CancelGoalWrite, MarkCancelled, Row, StatusFrom
<1>4. ASSUME DaemonStep PROVE StatusFrom(g)
  <2>1. CASE DaemonPromote
    BY <1>0, <2>1 DEF DaemonPromote, PromoteDeferred, Promotable, Row, StatusFrom, Waiting
  <2>2. CASE DaemonRecoverStale
    <3>1. CASE g \in daemon.stale
      <4>1. row'[g] = Judged(g, daemon.attemptRead[g]) /\ daemon.pc = "recover"
        BY <2>2, <3>1 DEF DaemonRecoverStale, RecoverStaleRunning
      <4>2. Verdict(g, daemon.attemptRead[g])
        BY <1>0, <3>1, <4>1, JudgedStatus DEF Verdict, RecoveryJudges
      <4> QED
        BY <4>2 DEF StatusFrom
    <3>2. CASE g \notin daemon.stale
      BY <2>2, <3>2 DEF DaemonRecoverStale, RecoverStaleRunning, StatusFrom
    <3> QED
      BY <3>1, <3>2
  <2>3. CASE DaemonClaim \/ DaemonMark
    BY <1>0, <2>3 DEF DaemonClaim, Claim, DaemonMark, MarkRunning, Row, StatusFrom
  <2>4. CASE DaemonFailWrite
    <3>1. CASE g = daemon.goal
      <4>1. row'[g] = Judged(g, daemon.attemptRead[g]) /\ DaemonJudges(g, daemon.attemptRead[g])
        BY <1>0, <2>4, <3>1 DEF DaemonFailWrite, MarkFailed, DaemonJudges
      <4>2. Verdict(g, daemon.attemptRead[g])
        BY <1>0, <4>1, JudgedStatus DEF Verdict
      <4> QED
        BY <4>2 DEF StatusFrom
    <3>2. CASE g # daemon.goal
      BY <1>0, <2>4, <3>2 DEF DaemonFailWrite, MarkFailed, StatusFrom
    <3> QED
      BY <3>1, <3>2
  <2> QED
    BY <1>1, <1>4, <2>1, <2>2, <2>3, <2>4
       DEF DaemonStep, DaemonSelectStale, DaemonResume, DaemonCount, DaemonDequeue,
           DaemonSubmit, DaemonStartRaises, DaemonFailRead
<1>5. ASSUME NEW r \in Run, RunProceeds(r) \/ RunContinues(r) PROVE StatusFrom(g)
  <2>0. run \in [Run -> RunRecord]
    BY DEF TypeInv, TypeOK
  <2>1. CASE RunMarksCompleted(r)
    <3>1. CASE g = run[r].goal
      <4>1. run'[r].phase = "completed" /\ run'[r].goal = g
        BY <2>0, <2>1, <3>1 DEF RunMarksCompleted, RunGoes, RunRecord
      <4> QED
        BY <1>0, <2>1, <3>1, <4>1 DEF RunMarksCompleted, MarkCompleted, Row, StatusFrom, Witnessed
    <3>2. CASE g # run[r].goal
      BY <1>0, <2>1, <3>2 DEF RunMarksCompleted, MarkCompleted, StatusFrom
    <3> QED
      BY <3>1, <3>2
  <2>2. CASE RunMarksFailed(r)
    <3>1. CASE g = run[r].goal
      <4>1. row'[g] = Judged(g, run[r].attemptRead) /\ RunJudges(g, run[r].attemptRead)
        BY <1>0, <2>2, <3>1 DEF RunMarksFailed, MarkFailed, RunJudges
      <4>2. Verdict(g, run[r].attemptRead)
        BY <1>0, <4>1, JudgedStatus DEF Verdict
      <4> QED
        BY <4>2 DEF StatusFrom
    <3>2. CASE g # run[r].goal
      BY <1>0, <2>2, <3>2 DEF RunMarksFailed, MarkFailed, StatusFrom
    <3> QED
      BY <3>1, <3>2
  <2> QED
    BY <1>1, <1>5, <2>1, <2>2 DEF RunProceeds, RunContinues, RunParks, RunCompletes, RunFails,
                                  RunStops, RunReadsGoal
<1> QED
  BY <1>1, <1>2, <1>3, <1>4, <1>5
     DEF Next, vars, CancelGoalRead, CancelRunCall, CancelRunRequest, CancelDeliver, Crash

----------------------------------------------------------------------------
(* What is read stays in the past *)

\* A run that judges has read its goal's attempt in this step, or judged already.
LEMMA RunReadStep ==
    ASSUME TypeInv, [Next]_vars, NEW r \in Run, run'[r].phase = "judging"
    PROVE  \/ run'[r] = run[r]
           \/ /\ run'[r].goal \in Goal /\ row' = row
              /\ run'[r].attemptRead = row[run'[r].goal].attempt
<1>0. run \in [Run -> RunRecord]
  BY DEF TypeInv, TypeOK
<1> DEFINE Good == \/ run'[r] = run[r]
                   \/ /\ run'[r].goal \in Goal /\ row' = row
                      /\ run'[r].attemptRead = row[run'[r].goal].attempt
<1>1. ASSUME run' = run PROVE Good
  BY <1>1
<1>2. ASSUME NEW c \in Canceller, NEW s \in Run, CancelRunCall(c, s) PROVE Good
  BY <1>0, <1>2 DEF CancelRunCall, RunRecord,
                    Cancelling, WithPipeline, WithoutPipeline
<1>3. ASSUME NEW c \in Canceller, CancelRunRequest(c) \/ CancelDeliver(c) PROVE Good
  BY <1>0, <1>3 DEF CancelRunRequest, CancelDeliver, RunRecord,
                    Cancelling, WithPipeline, WithoutPipeline
<1>4. ASSUME DaemonStep PROVE Good
  <2>1. CASE DaemonResume
    BY <1>0, <2>1 DEF DaemonResume, RunRecord,
                      Resumed, WithPipeline, WithoutPipeline
  <2>2. ASSUME NEW s \in Run, DaemonSubmit(s) PROVE Good
    BY <1>0, <2>2 DEF DaemonSubmit, RunRecord
  <2> QED
    BY <1>1, <1>4, <2>1, <2>2
       DEF DaemonStep, DaemonPromote, DaemonSelectStale, DaemonRecoverStale, DaemonCount,
           DaemonDequeue, DaemonClaim, DaemonMark, DaemonStartRaises, DaemonFailRead,
           DaemonFailWrite
<1>5. ASSUME NEW s \in Run, RunProceeds(s) \/ RunContinues(s) PROVE Good
  <2>1. CASE RunReadsGoal(s)
    <3>1. CASE s = r
      BY <1>0, <2>1, <3>1 DEF RunReadsGoal, RunRecord, TypeInv, RunsKnowGoal
    <3>2. CASE s # r
      BY <1>0, <2>1, <3>2 DEF RunReadsGoal
    <3> QED
      BY <3>1, <3>2
  <2>2. CASE RunMarksFailed(s)
    BY <1>0, <2>2 DEF RunMarksFailed, RunRecord
  <2>3. CASE RunMarksCompleted(s) \/ RunParks(s) \/ RunCompletes(s) \/ RunFails(s)
             \/ RunStops(s) \/ RunContinues(s)
    BY <1>0, <2>3 DEF RunMarksCompleted, RunParks, RunCompletes, RunFails, RunStops,
                      RunContinues, RunGoes, RunRecord,
                      Resumed, WithoutPipeline
  <2> QED
    BY <1>5, <2>1, <2>2, <2>3 DEF RunProceeds
<1>6. CASE Crash
  <2>1. PICK saved \in SUBSET Run :
          run' = [s \in Run |-> [run[s] EXCEPT !.phase = AfterCrash(@, s \in saved),
                                               !.attemptRead = 0]]
    BY <1>6 DEF Crash
  <2>2. run[r].phase \in RunPhase
    BY <1>0 DEF RunRecord
  <2>3. AfterCrash(run[r].phase, r \in saved) # "judging"
    BY <2>2 DEF AfterCrash, RunPhase, WithPipeline, WithoutPipeline
  <2>4. PICK after : /\ after # "judging"
                     /\ run'[r] = [run[r] EXCEPT !.phase = after, !.attemptRead = 0]
    BY <2>1, <2>3, Zenon
  <2>5. run'[r].phase = after
    BY <1>0, <2>4 DEF RunRecord
  <2> QED
    BY <2>4, <2>5
<1> QED
  BY <1>1, <1>2, <1>3, <1>4, <1>5, <1>6
     DEF Next, vars, EnqueueGoal, Clock, CancelGoalRead, CancelGoalWrite

\* The same for the daemon: it judges a goal whose attempt it has read in this step or judged
\* already, and it recovers goals that it selected in this step or was recovering already.
LEMMA DaemonReadStep ==
    ASSUME TypeInv, [Next]_vars
    PROVE  /\ daemon'.pc = "judge" =>
                \/ daemon' = daemon
                \/ /\ daemon'.goal \in Goal /\ row' = row
                   /\ daemon'.attemptRead[daemon'.goal] = row[daemon'.goal].attempt
           /\ daemon'.pc = "recover" =>
                \/ daemon' = daemon
                \/ /\ daemon'.stale \in SUBSET Goal /\ row' = row
                   /\ \A g \in daemon'.stale : daemon'.attemptRead[g] = row[g].attempt
<1>0. daemon \in DaemonRecord
  BY DEF TypeInv, TypeOK
<1>1. CASE DaemonSelectStale
  <2> DEFINE read == [g \in Goal |-> IF g \in StaleRunning THEN row[g].attempt ELSE 0]
             next == IF StaleRunning = {} THEN "resume" ELSE "recover"
  <2>1. \A g \in StaleRunning : read[g] = row[g].attempt
    BY DEF StaleRunning
  <2>2. /\ daemon' = [daemon EXCEPT !.pc = next, !.stale = StaleRunning, !.attemptRead = read]
        /\ next \in {"resume", "recover"} /\ row' = row /\ StaleRunning \in SUBSET Goal
    BY <1>1 DEF DaemonSelectStale, StaleRunning
  <2> HIDE DEF read, next
  <2>3. daemon'.pc = next /\ daemon'.stale = StaleRunning /\ daemon'.attemptRead = read
    BY <1>0, <2>2 DEF DaemonRecord
  <2> QED
    BY <2>1, <2>2, <2>3
<1>2. CASE DaemonFailRead
  <2>1. daemon.goal \in Goal
    BY <1>2 DEF DaemonFailRead, TypeInv, DaemonKnowsGoal
  <2>2. /\ daemon'.pc = "judge" /\ daemon'.goal = daemon.goal
        /\ daemon'.attemptRead = [daemon.attemptRead EXCEPT ![daemon.goal] = row[daemon.goal].attempt]
        /\ daemon.attemptRead \in [Goal -> Nat] /\ row' = row
    BY <1>0, <1>2 DEF DaemonFailRead, DaemonRecord
  <2> QED
    BY <2>1, <2>2
<1>3. ASSUME DaemonStep, ~DaemonSelectStale, ~DaemonFailRead
      PROVE  daemon'.pc \notin {"judge", "recover"}
  <2>1. CASE DaemonPromote \/ DaemonResume \/ DaemonClaim
    BY <1>0, <2>1 DEF DaemonPromote, DaemonResume, DaemonClaim, DaemonGoes, DaemonRecord
  <2>2. CASE DaemonRecoverStale
    BY <2>2 DEF DaemonRecoverStale, AsleepDaemon
  <2>3. CASE DaemonCount
    BY <1>0, <2>3 DEF DaemonCount, DaemonRecord
  <2>4. CASE DaemonDequeue
    <3>1. \/ daemon' = AsleepDaemon
          \/ \E g \in Goal : daemon' = [daemon EXCEPT !.pc = "claim", !.goal = g]
      BY <2>4 DEF DaemonDequeue
    <3> QED
      BY <1>0, <3>1, AsleepType DEF DaemonRecord
  <2>5. CASE DaemonMark \/ DaemonStartRaises
    BY <1>0, <2>5 DEF DaemonMark, DaemonStartRaises, DaemonRecord
  <2>6. CASE DaemonFailWrite
    BY <1>0, <2>6 DEF DaemonFailWrite, DaemonRecord
  <2>7. ASSUME NEW r \in Run, DaemonSubmit(r) PROVE daemon'.pc \notin {"judge", "recover"}
    BY <1>0, <2>7 DEF DaemonSubmit, DaemonRecord
  <2> QED
    BY <1>3, <2>1, <2>2, <2>3, <2>4, <2>5, <2>6, <2>7 DEF DaemonStep
<1>4. CASE Crash
  BY <1>4, AsleepType DEF Crash
<1>5. ASSUME NEW r \in Run, RunProceeds(r) \/ RunContinues(r) PROVE daemon' = daemon
  BY <1>5 DEF RunProceeds, RunContinues, RunParks, RunCompletes, RunFails, RunStops,
              RunMarksCompleted, RunReadsGoal, RunMarksFailed
<1> QED
  BY <1>1, <1>2, <1>3, <1>4, <1>5
     DEF Next, vars, EnqueueGoal, Clock, CancelGoalRead, CancelRunCall, CancelRunRequest,
         CancelDeliver, CancelGoalWrite

LEMMA ReadInit == Init => ReadInv
  BY TypeInit DEF Init, QueueInit, NoRow, AsleepDaemon, ReadInv, AbsentUntried, RunReadsPast,
                  DaemonReadsPast, RecoveryReadsNow

\* The reads stay in the past because attempts grow, and recovery's stay exact because the
\* daemon does not claim while it recovers.
LEMMA ReadStep == ReadInv /\ [Next]_vars => ReadInv'
<1> SUFFICES ASSUME ReadInv, [Next]_vars PROVE ReadInv'
  OBVIOUS
<1>1. TypeInv /\ AbsentUntried
  BY DEF ReadInv
<1>2. TypeInv'
  BY <1>1, TypeStep
<1>3. \A g \in Goal : row[g].attempt \in Nat /\ row'[g].attempt \in Nat
  BY <1>1, <1>2 DEF TypeInv, TypeOK, Row
<1>4. \A g \in Goal : row[g].attempt <= row'[g].attempt
  BY <1>1, AttemptsGrow
<1>5. AbsentUntried'
  <2> SUFFICES ASSUME NEW g \in Goal, row'[g].status = "absent" PROVE row'[g].attempt = 0
    BY DEF AbsentUntried
  <2>1. row[g].status = "absent"
    BY <1>1, StatusStep DEF StatusFrom, Verdict
  <2>2. CASE ~DaemonClaim
    BY <1>1, <2>1, <2>2, AttemptStep DEF AttemptsKept, AbsentUntried
  <2>3. CASE DaemonClaim
    BY <1>1, <2>1, <2>3, ClaimStep DEF AbsentUntried
  <2> QED
    BY <2>2, <2>3
<1>6. RunReadsPast'
  <2> SUFFICES ASSUME NEW r \in Run, run'[r].phase = "judging"
               PROVE  run'[r].attemptRead <= row'[run'[r].goal].attempt
    BY DEF RunReadsPast
  <2>1. CASE run'[r] = run[r]
    <3>1. run[r].goal \in Goal /\ run[r].attemptRead <= row[run[r].goal].attempt
      BY <1>1, <2>1 DEF ReadInv, RunReadsPast, TypeInv, RunsKnowGoal
    <3>2. run[r].attemptRead \in Nat
      BY <1>1 DEF TypeInv, TypeOK, RunRecord
    <3> QED
      BY <1>3, <1>4, <2>1, <3>1, <3>2
  <2>2. CASE run'[r] # run[r]
    BY <1>1, <1>3, <2>2, RunReadStep
  <2> QED
    BY <2>1, <2>2
<1>7. DaemonReadsPast'
  <2> SUFFICES ASSUME daemon'.pc = "judge"
               PROVE  daemon'.attemptRead[daemon'.goal] <= row'[daemon'.goal].attempt
    BY DEF DaemonReadsPast
  <2>1. CASE daemon' = daemon
    <3>1. /\ daemon.goal \in Goal
          /\ daemon.attemptRead[daemon.goal] <= row[daemon.goal].attempt
      BY <1>1, <2>1 DEF ReadInv, DaemonReadsPast, TypeInv, DaemonKnowsGoal
    <3>2. daemon.attemptRead[daemon.goal] \in Nat
      BY <1>1, <3>1 DEF TypeInv, TypeOK, DaemonRecord
    <3> QED
      BY <1>3, <1>4, <2>1, <3>1, <3>2
  <2>2. CASE daemon' # daemon
    BY <1>1, <1>3, <2>2, DaemonReadStep
  <2> QED
    BY <2>1, <2>2
<1>8. RecoveryReadsNow'
  <2> SUFFICES ASSUME daemon'.pc = "recover", NEW g \in daemon'.stale
               PROVE  daemon'.attemptRead[g] = row'[g].attempt
    BY DEF RecoveryReadsNow
  <2>1. CASE daemon' = daemon
    <3>1. g \in Goal /\ daemon.attemptRead[g] = row[g].attempt
      BY <1>1, <2>1 DEF ReadInv, RecoveryReadsNow, TypeInv, TypeOK, DaemonRecord
    <3>2. ~DaemonClaim
      BY <2>1 DEF DaemonClaim, DaemonGoes
    <3> QED
      BY <1>1, <2>1, <3>1, <3>2, AttemptStep DEF AttemptsKept
  <2>2. CASE daemon' # daemon
    BY <1>1, <2>2, DaemonReadStep
  <2> QED
    BY <2>1, <2>2
<1> QED
  BY <1>2, <1>5, <1>6, <1>7, <1>8 DEF ReadInv

\* A verdict is about a past attempt, and about the present one unless the goal is torn by it.
LEMMA VerdictPast ==
    ASSUME ReadInv, NEW g \in Goal, NEW n, Verdict(g, n)
    PROVE  n \in Nat /\ n <= row[g].attempt /\ (g \notin torn' => n = row[g].attempt)
<1>0. /\ row[g].attempt \in Nat
      /\ run \in [Run -> RunRecord] /\ daemon \in DaemonRecord
  BY DEF ReadInv, TypeInv, TypeOK, Row
<1>1. CASE RunJudges(g, n)
  BY <1>0, <1>1 DEF RunJudges, ReadInv, RunReadsPast, Torn, RunRecord
<1>2. CASE DaemonJudges(g, n)
  BY <1>0, <1>2 DEF DaemonJudges, ReadInv, DaemonReadsPast, Torn, DaemonRecord
<1>3. CASE RecoveryJudges(g, n)
  BY <1>0, <1>3 DEF RecoveryJudges, ReadInv, RecoveryReadsNow
<1> QED
  BY <1>1, <1>2, <1>3 DEF Verdict

----------------------------------------------------------------------------
(* A failed goal has used up its budget *)

LEMMA FailedStep ==
    ASSUME ReadInv, FailedIsExhausted, [Next]_vars
    PROVE  FailedIsExhausted'
<1> SUFFICES ASSUME NEW g \in Goal, row'[g].status = "failed"
             PROVE  row'[g].attempt >= MaxRetries[g]
  BY DEF FailedIsExhausted
<1>1. TypeInv /\ AbsentUntried /\ TypeInv'
  BY TypeStep DEF ReadInv
<1>2. /\ row[g].attempt \in Nat /\ row'[g].attempt \in Nat /\ MaxRetries[g] \in Nat
      /\ row[g].attempt <= row'[g].attempt
  BY <1>1, AttemptsGrow, MaxRetriesAssumption DEF TypeInv, TypeOK, Row
<1>3. CASE row[g].status = "failed"
  BY <1>2, <1>3 DEF FailedIsExhausted
<1>4. CASE \E n : Verdict(g, n)
  <2>1. PICK n : Verdict(g, n)
    BY <1>4
  <2>2. ~(n < MaxRetries[g])
    BY <2>1 DEF Verdict
  <2>3. n \in Nat /\ n <= row[g].attempt
    BY <2>1, VerdictPast
  <2> QED
    BY <1>2, <2>2, <2>3
<1> QED
  BY <1>1, <1>3, <1>4, StatusStep DEF StatusFrom

\* No goal is given up before max_retries attempts, however its runs, the recovery of stale
\* goals, cancels and restarts interleave: mark_failed and recover_stale_running judge on what
\* they have read, and what they have read is never ahead of the row.
THEOREM FailedCorrect == Spec => []FailedIsExhausted
<1>1. Init => FailedIsExhausted
  BY DEF Init, QueueInit, NoRow, FailedIsExhausted
<1>2. ReadInv /\ FailedIsExhausted /\ [Next]_vars => FailedIsExhausted'
  BY FailedStep
<1> QED
  BY ReadInit, ReadStep, <1>1, <1>2, PTL DEF Spec

----------------------------------------------------------------------------
(* The retry budget *)

LEMMA TornGrows == ASSUME [Next]_vars PROVE torn \subseteq torn'
<1>1. ASSUME DaemonStep PROVE torn \subseteq torn'
  BY <1>1 DEF DaemonStep, DaemonPromote, DaemonSelectStale, DaemonRecoverStale, DaemonResume,
              DaemonCount, DaemonDequeue, DaemonClaim, DaemonSubmit, DaemonMark,
              DaemonStartRaises, DaemonFailRead, DaemonFailWrite
<1>2. ASSUME NEW r \in Run, RunProceeds(r) \/ RunContinues(r) PROVE torn \subseteq torn'
  BY <1>2 DEF RunProceeds, RunContinues, RunParks, RunCompletes, RunFails, RunStops,
              RunMarksCompleted, RunReadsGoal, RunMarksFailed
<1> QED
  BY <1>1, <1>2
     DEF Next, vars, EnqueueGoal, Clock, CancelGoalRead, CancelRunCall, CancelRunRequest,
         CancelDeliver, CancelGoalWrite, Crash

\* The goal about to be claimed was waiting when the daemon selected it.
LEMMA SelectStep ==
    ASSUME TypeInv, [Next]_vars, daemon'.pc = "claim"
    PROVE  \/ daemon' = daemon
           \/ /\ daemon'.goal \in Goal /\ row[daemon'.goal].status \in {"queued", "retrying"}
              /\ row' = row /\ torn' = torn
<1> DEFINE Good == \/ daemon' = daemon
                   \/ /\ daemon'.goal \in Goal
                      /\ row[daemon'.goal].status \in {"queued", "retrying"}
                      /\ row' = row /\ torn' = torn
<1>0. daemon \in DaemonRecord
  BY DEF TypeInv, TypeOK
<1>1. CASE DaemonDequeue
  <2>1. PICK g \in Goal : Selected(g) /\ daemon' = [daemon EXCEPT !.pc = "claim", !.goal = g]
    BY <1>1, AsleepType DEF DaemonDequeue
  <2>2. daemon'.goal = g /\ row[g].status \in {"queued", "retrying"}
    BY <1>0, <2>1 DEF DaemonRecord, Selected, Dequeueable
  <2> QED
    BY <1>1, <2>2 DEF DaemonDequeue
<1>2. ASSUME DaemonStep, ~DaemonDequeue PROVE daemon'.pc # "claim"
  <2>1. CASE DaemonPromote \/ DaemonResume \/ DaemonClaim
    BY <1>0, <2>1 DEF DaemonPromote, DaemonResume, DaemonClaim, DaemonGoes, DaemonRecord
  <2>2. CASE DaemonRecoverStale
    BY <2>2 DEF DaemonRecoverStale, AsleepDaemon
  <2>3. CASE DaemonCount \/ DaemonSelectStale
    BY <1>0, <2>3 DEF DaemonCount, DaemonSelectStale, DaemonRecord
  <2>4. CASE DaemonMark \/ DaemonStartRaises
    BY <1>0, <2>4 DEF DaemonMark, DaemonStartRaises, DaemonRecord
  <2>5. CASE DaemonFailRead \/ DaemonFailWrite
    BY <1>0, <2>5 DEF DaemonFailRead, DaemonFailWrite, DaemonRecord
  <2>6. ASSUME NEW r \in Run, DaemonSubmit(r) PROVE daemon'.pc # "claim"
    BY <1>0, <2>6 DEF DaemonSubmit, DaemonRecord
  <2> QED
    BY <1>2, <2>1, <2>2, <2>3, <2>4, <2>5, <2>6 DEF DaemonStep
<1>3. CASE Crash
  BY <1>3, AsleepType DEF Crash
<1>4. ASSUME NEW r \in Run, RunProceeds(r) \/ RunContinues(r) PROVE daemon' = daemon
  BY <1>4 DEF RunProceeds, RunContinues, RunParks, RunCompletes, RunFails, RunStops,
              RunMarksCompleted, RunReadsGoal, RunMarksFailed
<1> QED
  BY <1>1, <1>2, <1>3, <1>4
     DEF Next, vars, EnqueueGoal, Clock, CancelGoalRead, CancelRunCall, CancelRunRequest,
         CancelDeliver, CancelGoalWrite

\* A retry is granted, and a goal claimed, only below the budget.
LEMMA BudgetStep == BudgetInv /\ [Next]_vars => BudgetInv'
<1> SUFFICES ASSUME BudgetInv, [Next]_vars PROVE BudgetInv'
  OBVIOUS
<1>1. ReadInv /\ TypeInv /\ AbsentUntried /\ ReadInv' /\ TypeInv'
  BY ReadStep DEF BudgetInv, ReadInv
<1>2. \A g \in Goal : /\ row[g].attempt \in Nat /\ row'[g].attempt \in Nat
                      /\ MaxRetries[g] \in Nat /\ Budget(g) \in Nat
                      /\ MaxRetries[g] <= Budget(g)
  BY <1>1, MaxRetriesAssumption DEF TypeInv, TypeOK, Row, Budget
<1>3. torn \subseteq torn'
  BY TornGrows
<1>4. AttemptBudget'
  <2> SUFFICES ASSUME NEW g \in Goal, g \notin torn' PROVE row'[g].attempt <= Budget(g)
    BY DEF AttemptBudget, Budget
  <2>1. row[g].attempt <= Budget(g)
    BY <1>3 DEF BudgetInv, AttemptBudget
  <2>2. CASE ~DaemonClaim
    BY <1>1, <2>1, <2>2, AttemptStep DEF AttemptsKept
  <2>3. CASE DaemonClaim
    BY <1>1, <1>2, <1>3, <2>1, <2>3, ClaimStep DEF BudgetInv, ClaimWithinBudget
  <2> QED
    BY <2>2, <2>3
<1>5. WaitersWithinBudget'
  <2> SUFFICES ASSUME NEW g \in Goal, g \notin torn', row'[g].status \in Waiting
               PROVE  row'[g].attempt < Budget(g)
    BY DEF WaitersWithinBudget, Budget
  <2>1. row'[g].attempt = row[g].attempt
    <3>1. CASE DaemonClaim
      BY <1>1, <3>1, ClaimStep DEF Waiting
    <3>2. CASE ~DaemonClaim
      BY <1>1, <3>2, AttemptStep DEF AttemptsKept
    <3> QED
      BY <3>1, <3>2
  <2>2. CASE row[g].status \in Waiting
    BY <1>3, <2>1, <2>2 DEF BudgetInv, WaitersWithinBudget
  <2>3. CASE \E n : Verdict(g, n)
    <3>1. PICK n : Verdict(g, n)
      BY <2>3
    <3>2. n < MaxRetries[g]
      BY <3>1 DEF Verdict, Waiting
    <3>3. n = row[g].attempt
      BY <1>1, <3>1, VerdictPast
    <3> QED
      BY <1>2, <2>1, <3>2, <3>3
  <2> QED
    BY <1>1, <2>2, <2>3, StatusStep DEF StatusFrom, Waiting
<1>6. ClaimWithinBudget'
  <2> SUFFICES ASSUME daemon'.pc = "claim", daemon'.goal \notin torn'
               PROVE  row'[daemon'.goal].attempt < Budget(daemon'.goal)
    BY DEF ClaimWithinBudget, Budget
  <2>1. CASE daemon' = daemon
    <3>1. daemon.goal \in Goal /\ row[daemon.goal].attempt < Budget(daemon.goal)
      BY <1>1, <1>3, <2>1 DEF BudgetInv, ClaimWithinBudget, TypeInv, DaemonKnowsGoal
    <3>2. ~DaemonClaim
      BY <1>1, <2>1 DEF DaemonClaim, DaemonGoes, TypeInv, TypeOK, DaemonRecord
    <3> QED
      BY <1>1, <2>1, <3>1, <3>2, AttemptStep DEF AttemptsKept
  <2>2. CASE daemon' # daemon
    BY <1>1, <2>2, SelectStep DEF BudgetInv, WaitersWithinBudget, Waiting
  <2> QED
    BY <2>1, <2>2
<1> QED
  BY <1>1, <1>4, <1>5, <1>6 DEF BudgetInv

\* No goal is tried more often than max_retries allows, for every budget, any number of clients,
\* runs and restarts, unless mark_failed judged an attempt that was already superseded: that gap
\* between its SELECT and its UPDATE is the only way past the budget.
THEOREM BudgetCorrect == Spec => []AttemptBudget
<1>1. Init => BudgetInv
  <2> SUFFICES ASSUME Init PROVE BudgetInv
    OBVIOUS
  <2>1. \A g \in Goal : row[g].attempt = 0 /\ Budget(g) \in Nat /\ Budget(g) > 0
    BY MaxRetriesAssumption DEF Init, QueueInit, NoRow, Budget
  <2>2. daemon.pc = "promote"
    BY AsleepType DEF Init
  <2> QED
    BY <2>1, <2>2, ReadInit DEF BudgetInv, AttemptBudget, WaitersWithinBudget, ClaimWithinBudget
<1>2. BudgetInv => AttemptBudget
  BY DEF BudgetInv
<1> QED
  BY <1>1, <1>2, BudgetStep, PTL DEF Spec

----------------------------------------------------------------------------
(* What a step does to a run's goal and to a completed run *)

\* Only the start of a run gives it a goal, and a completed run stays completed.
LEMMA RunStep ==
    ASSUME TypeInv, [Next]_vars, NEW r \in Run
    PROVE  \/ /\ run'[r].goal = run[r].goal
              /\ run[r].phase = "completed" => run'[r].phase = "completed"
           \/ DaemonSubmit(r)
<1> DEFINE Kept == /\ run'[r].goal = run[r].goal
                   /\ run[r].phase = "completed" => run'[r].phase = "completed"
<1>0. run \in [Run -> RunRecord]
  BY DEF TypeInv, TypeOK
<1>1. ASSUME run' = run PROVE Kept
  BY <1>1
<1>2. ASSUME NEW c \in Canceller, NEW s \in Run, CancelRunCall(c, s) PROVE Kept
  BY <1>0, <1>2 DEF CancelRunCall, RunRecord,
                    Cancelling, WithPipeline, WithoutPipeline
<1>3. ASSUME NEW c \in Canceller, CancelRunRequest(c) \/ CancelDeliver(c) PROVE Kept
  BY <1>0, <1>3 DEF CancelRunRequest, CancelDeliver, RunRecord,
                    Cancelling, WithPipeline, WithoutPipeline
<1>4. ASSUME DaemonStep, ~DaemonSubmit(r) PROVE Kept
  <2>1. CASE DaemonResume
    BY <1>0, <2>1 DEF DaemonResume, RunRecord,
                      Resumed, WithPipeline, WithoutPipeline
  <2>2. ASSUME NEW s \in Run, DaemonSubmit(s) PROVE Kept
    BY <1>0, <1>4, <2>2 DEF DaemonSubmit, RunRecord
  <2> QED
    BY <1>1, <1>4, <2>1, <2>2
       DEF DaemonStep, DaemonPromote, DaemonSelectStale, DaemonRecoverStale, DaemonCount,
           DaemonDequeue, DaemonClaim, DaemonMark, DaemonStartRaises, DaemonFailRead,
           DaemonFailWrite
<1>5. ASSUME NEW s \in Run, RunProceeds(s) \/ RunContinues(s) PROVE Kept
  <2>1. CASE RunReadsGoal(s) \/ RunMarksFailed(s)
    BY <1>0, <2>1 DEF RunReadsGoal, RunMarksFailed, RunRecord
  <2>2. CASE RunMarksCompleted(s) \/ RunParks(s) \/ RunCompletes(s) \/ RunFails(s)
             \/ RunStops(s) \/ RunContinues(s)
    BY <1>0, <2>2 DEF RunMarksCompleted, RunParks, RunCompletes, RunFails, RunStops,
                      RunContinues, RunGoes, RunRecord,
                      Resumed, WithoutPipeline
  <2> QED
    BY <1>5, <2>1, <2>2 DEF RunProceeds
<1>6. CASE Crash
  <2>1. PICK saved \in SUBSET Run :
          run' = [s \in Run |-> [run[s] EXCEPT !.phase = AfterCrash(@, s \in saved),
                                               !.attemptRead = 0]]
    BY <1>6 DEF Crash
  <2>2. run[r].phase = "completed" => AfterCrash(run[r].phase, r \in saved) = "completed"
    BY DEF AfterCrash, WithPipeline, WithoutPipeline
  <2>3. PICK after : /\ run[r].phase = "completed" => after = "completed"
                     /\ run'[r] = [run[r] EXCEPT !.phase = after, !.attemptRead = 0]
    BY <2>1, <2>2, Zenon
  <2>4. run'[r].phase = after /\ run'[r].goal = run[r].goal
    BY <1>0, <2>3 DEF RunRecord
  <2> QED
    BY <2>3, <2>4
<1> QED
  BY <1>1, <1>2, <1>3, <1>4, <1>5, <1>6
     DEF Next, vars, EnqueueGoal, Clock, CancelGoalRead, CancelGoalWrite

----------------------------------------------------------------------------
(* A completed goal has a completed run *)

LEMMA WitnessStep ==
    ASSUME TypeInv, CompletedHasWitness, [Next]_vars
    PROVE  CompletedHasWitness'
<1> SUFFICES ASSUME NEW g \in Goal, row'[g].status = "completed"
             PROVE  \E r \in Run : run'[r].goal = g /\ run'[r].phase = "completed"
  BY DEF CompletedHasWitness, RunsOf
<1>1. CASE row[g].status = "completed"
  <2>1. PICK r \in Run : run[r].goal = g /\ run[r].phase = "completed"
    BY <1>1 DEF CompletedHasWitness, RunsOf
  <2>2. ~DaemonSubmit(r)
    BY <2>1 DEF DaemonSubmit
  <2> QED
    BY <2>1, <2>2, RunStep
<1> QED
  BY <1>1, StatusStep DEF StatusFrom, Waiting, Verdict, Witnessed

\* A goal is reported completed only if a run of that goal has completed, whatever cancels,
\* recoveries and restarts came between.
THEOREM WitnessCorrect == Spec => []CompletedHasWitness
<1>1. Init => CompletedHasWitness
  BY DEF Init, QueueInit, NoRow, CompletedHasWitness
<1>2. TypeInv /\ CompletedHasWitness /\ [Next]_vars => CompletedHasWitness'
  BY WitnessStep
<1> QED
  BY TypeInit, TypeStep, <1>1, <1>2, PTL DEF Spec

----------------------------------------------------------------------------
(* Every execution is an attempt *)

\* Where the daemon stands when it is about to start a run.
LEMMA SubmitStep ==
    ASSUME TypeInv, [Next]_vars, daemon'.pc = "submit"
    PROVE  daemon' = daemon \/ (DaemonClaim /\ daemon'.goal = daemon.goal)
<1>0. daemon \in DaemonRecord
  BY DEF TypeInv, TypeOK
<1>1. ASSUME DaemonStep, ~DaemonClaim PROVE daemon'.pc # "submit"
  <2>1. CASE DaemonPromote \/ DaemonResume
    BY <1>0, <2>1 DEF DaemonPromote, DaemonResume, DaemonGoes, DaemonRecord
  <2>2. CASE DaemonRecoverStale
    BY <2>2 DEF DaemonRecoverStale, AsleepDaemon
  <2>3. CASE DaemonCount \/ DaemonSelectStale
    BY <1>0, <2>3 DEF DaemonCount, DaemonSelectStale, DaemonRecord
  <2>4. CASE DaemonDequeue
    <3>1. \/ daemon' = AsleepDaemon
          \/ \E g \in Goal : daemon' = [daemon EXCEPT !.pc = "claim", !.goal = g]
      BY <2>4 DEF DaemonDequeue
    <3> QED
      BY <1>0, <3>1, AsleepType DEF DaemonRecord
  <2>5. CASE DaemonMark \/ DaemonStartRaises
    BY <1>0, <2>5 DEF DaemonMark, DaemonStartRaises, DaemonRecord
  <2>6. CASE DaemonFailRead \/ DaemonFailWrite
    BY <1>0, <2>6 DEF DaemonFailRead, DaemonFailWrite, DaemonRecord
  <2>7. ASSUME NEW r \in Run, DaemonSubmit(r) PROVE daemon'.pc # "submit"
    BY <1>0, <2>7 DEF DaemonSubmit, DaemonRecord
  <2> QED
    BY <1>1, <2>1, <2>2, <2>3, <2>4, <2>5, <2>6, <2>7 DEF DaemonStep
<1>2. CASE DaemonClaim
  BY <1>0, <1>2 DEF DaemonClaim, DaemonGoes, DaemonRecord
<1>3. CASE Crash
  BY <1>3, AsleepType DEF Crash
<1>4. ASSUME NEW r \in Run, RunProceeds(r) \/ RunContinues(r) PROVE daemon' = daemon
  BY <1>4 DEF RunProceeds, RunContinues, RunParks, RunCompletes, RunFails, RunStops,
              RunMarksCompleted, RunReadsGoal, RunMarksFailed
<1> QED
  BY <1>1, <1>2, <1>3, <1>4
     DEF Next, vars, EnqueueGoal, Clock, CancelGoalRead, CancelRunCall, CancelRunRequest,
         CancelDeliver, CancelGoalWrite

\* A step that starts no run leaves every goal its runs.
LEMMA RunsKept ==
    ASSUME TypeInv, [Next]_vars, \A r \in Run : ~DaemonSubmit(r), NEW g
    PROVE  RunsOf(g)' = RunsOf(g)
  BY RunStep DEF RunsOf

LEMMA ExecutionStep == ExecutionInv /\ [Next]_vars => ExecutionInv'
<1> SUFFICES ASSUME ExecutionInv, [Next]_vars PROVE ExecutionInv'
  OBVIOUS
<1>1. ReadInv /\ TypeInv /\ AbsentUntried /\ ReadInv' /\ TypeInv'
  BY ReadStep DEF ExecutionInv, ReadInv
<1>2. ASSUME NEW g \in Goal
      PROVE  /\ row[g].attempt \in Nat /\ row'[g].attempt \in Nat
             /\ row[g].attempt <= row'[g].attempt
             /\ IsFiniteSet(RunsOf(g)) /\ Cardinality(RunsOf(g)) \in Nat
             /\ Cardinality(RunsOf(g)) <= row[g].attempt
  <2>1. row[g].attempt \in Nat /\ row'[g].attempt \in Nat
    BY <1>1 DEF TypeInv, TypeOK, Row
  <2>2. IsFiniteSet(RunsOf(g)) /\ Cardinality(RunsOf(g)) \in Nat
    BY FiniteAssumption, FS_Subset, FS_CardinalityType DEF RunsOf
  <2> QED
    BY <1>1, <2>1, <2>2, AttemptsGrow DEF ExecutionInv, ExecutionsWithinAttempts
<1>3. CASE \E r \in Run : DaemonSubmit(r)
  <2>1. PICK r \in Run : DaemonSubmit(r)
    BY <1>3
  <2>2. /\ daemon.pc = "submit" /\ daemon.goal \in Goal /\ row' = row /\ daemon'.pc = "mark"
        /\ run' = [run EXCEPT ![r].phase = "live", ![r].goal = daemon.goal]
    BY <1>1, <2>1 DEF DaemonSubmit, TypeInv, TypeOK, DaemonKnowsGoal, DaemonRecord
  <2>3. ASSUME NEW g \in Goal PROVE Cardinality(RunsOf(g)') <= row'[g].attempt
    <3>0. run \in [Run -> RunRecord]
      BY <1>1 DEF TypeInv, TypeOK
    <3>1. CASE g = daemon.goal
      <4>1. RunsOf(g)' = RunsOf(g) \cup {r}
        BY <2>2, <3>0, <3>1 DEF RunsOf, RunRecord
      <4>2. /\ IsFiniteSet(RunsOf(g) \cup {r})
            /\ Cardinality(RunsOf(g) \cup {r}) =
                 IF r \in RunsOf(g) THEN Cardinality(RunsOf(g)) ELSE Cardinality(RunsOf(g)) + 1
        BY <1>2, FS_AddElement, Zenon
      <4>3. Cardinality(RunsOf(g)') \in {Cardinality(RunsOf(g)), Cardinality(RunsOf(g)) + 1}
        BY <4>1, <4>2
      <4>4. Cardinality(RunsOf(g)) < row[g].attempt
        BY <2>2, <3>1 DEF ExecutionInv, SubmitHasAttempt
      <4> QED
        BY <1>2, <2>2, <4>3, <4>4
    <3>2. CASE g # daemon.goal
      <4>1. RunsOf(g)' \subseteq RunsOf(g)
        BY <2>2, <3>0, <3>2 DEF RunsOf, RunRecord
      <4>2. Cardinality(RunsOf(g)') <= Cardinality(RunsOf(g)) /\ Cardinality(RunsOf(g)') \in Nat
        BY <1>2, <4>1, FS_Subset, FS_CardinalityType
      <4> QED
        BY <1>2, <2>2, <4>2
    <3> QED
      BY <3>1, <3>2
  <2> QED
    BY <1>1, <2>2, <2>3 DEF ExecutionInv, ExecutionsWithinAttempts, SubmitHasAttempt
<1>4. CASE \A r \in Run : ~DaemonSubmit(r)
  <2>1. \A g \in Goal : RunsOf(g)' = RunsOf(g)
    BY <1>1, <1>4, RunsKept
  <2>2. \A g \in Goal : Cardinality(RunsOf(g)') <= row'[g].attempt
    BY <1>2, <2>1
  <2>3. SubmitHasAttempt'
    <3> SUFFICES ASSUME NEW g \in Goal, daemon'.pc = "submit", daemon'.goal = g
                 PROVE  Cardinality(RunsOf(g)') < row'[g].attempt
      BY DEF SubmitHasAttempt
    <3>1. CASE daemon' = daemon
      <4>1. Cardinality(RunsOf(g)) < row[g].attempt
        BY <3>1 DEF ExecutionInv, SubmitHasAttempt
      <4> QED
        BY <1>2, <2>1, <4>1
    <3>2. CASE DaemonClaim /\ daemon'.goal = daemon.goal
      <4>1. row'[g].attempt = row[g].attempt + 1
        BY <1>1, <3>2, ClaimStep
      <4> QED
        BY <1>2, <2>1, <4>1
    <3> QED
      BY <1>1, <3>1, <3>2, SubmitStep
  <2> QED
    BY <1>1, <2>2, <2>3 DEF ExecutionInv, ExecutionsWithinAttempts
<1> QED
  BY <1>3, <1>4

\* The attempt column counts every run that was ever started for the goal, so the budget above
\* bounds executions and not only claims.
THEOREM ExecutionsCorrect == Spec => []ExecutionsWithinAttempts
<1>1. Init => ExecutionInv
  <2> SUFFICES ASSUME Init PROVE ExecutionInv
    OBVIOUS
  <2>1. \A g \in Goal : RunsOf(g) = {} /\ row[g].attempt = 0
    BY NoGoalAssumption DEF Init, QueueInit, NoRow, RunsOf
  <2>2. \A g \in Goal : Cardinality(RunsOf(g)) <= row[g].attempt
    BY <2>1, FS_EmptySet
  <2>3. daemon.pc = "promote"
    BY AsleepType DEF Init
  <2> QED
    BY <2>2, <2>3, ReadInit DEF ExecutionInv, ExecutionsWithinAttempts, SubmitHasAttempt
<1>2. ExecutionInv => ExecutionsWithinAttempts
  BY DEF ExecutionInv
<1> QED
  BY <1>1, <1>2, ExecutionStep, PTL DEF Spec

----------------------------------------------------------------------------
(***************************************************************************)
(* The daemon implements GoalContract.  Beyond the invariants above the    *)
(* refinement needs two more facts: whoever holds a goal in its hand holds *)
(* one that was enqueued (else a verdict would appear on a goal nobody     *)
(* accepted), and a run that is handed out belongs to no goal yet (else    *)
(* starting it for one goal would take it away from another).              *)
(***************************************************************************)

DaemonHoldsStored ==
    /\ daemon.pc \in {"claim", "submit", "mark", "fail", "judge"} => daemon.goal \in Stored
    /\ daemon.stale \subseteq Stored
CancelHoldsStored == \A c \in Canceller : cancel[c].goal \in Stored \cup {NoGoal}
RunHoldsStored == \A r \in Run : run[r].goal \in Stored \cup {NoGoal}
UnusedIsFree == \A r \in Run : run[r].phase = "unused" => run[r].goal = NoGoal

\* A write of cancel_goal follows its read: the canceller has a goal.
WriterHasGoal ==
    \A c \in Canceller : cancel[c].pc \in {"request", "write"} => cancel[c].goal # NoGoal

HoldInv ==
    /\ DaemonHoldsStored /\ CancelHoldsStored /\ RunHoldsStored /\ UnusedIsFree /\ WriterHasGoal

RefineInv == ExecutionInv /\ CompletedHasWitness /\ FailedIsExhausted /\ HoldInv

----------------------------------------------------------------------------
(* No goal leaves the table *)

LEMMA StoredGrows ==
    ASSUME TypeInv, [Next]_vars
    PROVE  Stored \subseteq Stored'
  BY StatusStep DEF StatusFrom, Verdict, Stored, Waiting

----------------------------------------------------------------------------
(* Whoever holds a goal holds one that was enqueued *)

LEMMA HoldInit == Init => HoldInv
<1> SUFFICES ASSUME Init PROVE HoldInv
  OBVIOUS
<1>1. daemon.pc = "promote" /\ daemon.stale = {}
  BY AsleepType DEF Init, AsleepDaemon
<1>2. \A c \in Canceller : cancel[c].goal = NoGoal /\ cancel[c].pc = "idle"
  BY DEF Init, IdleCancel
<1>3. \A r \in Run : run[r].goal = NoGoal
  BY DEF Init
<1> QED
  BY <1>1, <1>2, <1>3 DEF HoldInv, DaemonHoldsStored, CancelHoldsStored, RunHoldsStored,
                          UnusedIsFree, WriterHasGoal

\* A step of the daemon takes up goals that are in the table.
LEMMA DaemonHoldStep ==
    ASSUME TypeInv, DaemonHoldsStored, [Next]_vars
    PROVE  DaemonHoldsStored'
<1>0. daemon \in DaemonRecord /\ row \in [Goal -> Row]
  BY DEF TypeInv, TypeOK
<1>1. Stored \subseteq Stored'
  BY StoredGrows
<1>2. ASSUME daemon' = daemon PROVE DaemonHoldsStored'
  BY <1>1, <1>2 DEF DaemonHoldsStored
<1>3. ASSUME daemon'.pc = "promote", daemon'.stale = {} PROVE DaemonHoldsStored'
  BY <1>3 DEF DaemonHoldsStored
<1>4. AsleepDaemon.pc = "promote" /\ AsleepDaemon.stale = {}
  BY DEF AsleepDaemon
<1>5. ASSUME DaemonStep PROVE DaemonHoldsStored'
  <2>1. CASE DaemonPromote \/ DaemonResume \/ DaemonClaim
    BY <1>0, <1>1, <2>1 DEF DaemonPromote, DaemonResume, DaemonClaim, DaemonGoes,
                            DaemonRecord, DaemonHoldsStored
  <2>2. CASE DaemonSelectStale
    <3>1. /\ daemon'.pc \in {"resume", "recover"} /\ daemon'.stale = StaleRunning
          /\ StaleRunning \subseteq Stored
      BY <1>0, <2>2 DEF DaemonSelectStale, DaemonRecord, StaleRunning, Stored
    <3> QED
      BY <1>1, <3>1 DEF DaemonHoldsStored
  <2>3. CASE DaemonRecoverStale
    <3>1. daemon'.pc = "resume" /\ daemon'.stale = {}
      BY <2>3 DEF DaemonRecoverStale, AsleepDaemon
    <3> QED
      BY <3>1 DEF DaemonHoldsStored
  <2>4. CASE DaemonDequeue
    <3>1. CASE daemon' = AsleepDaemon
      BY <1>3, <1>4, <3>1
    <3>2. CASE daemon' # AsleepDaemon
      <4>1. PICK g \in Goal : Selected(g) /\ daemon' = [daemon EXCEPT !.pc = "claim", !.goal = g]
        BY <2>4, <3>2 DEF DaemonDequeue
      <4>2. g \in Stored
        BY <4>1 DEF Selected, Dequeueable, Stored
      <4> QED
        BY <1>0, <1>1, <4>1, <4>2 DEF DaemonRecord, DaemonHoldsStored
    <3> QED
      BY <3>1, <3>2
  <2>5. CASE DaemonCount \/ DaemonMark \/ DaemonStartRaises \/ DaemonFailRead \/ DaemonFailWrite
    BY <1>0, <1>1, <2>5 DEF DaemonCount, DaemonMark, DaemonStartRaises, DaemonFailRead,
                            DaemonFailWrite, DaemonRecord, DaemonHoldsStored
  <2>6. ASSUME NEW r \in Run, DaemonSubmit(r) PROVE DaemonHoldsStored'
    BY <1>0, <1>1, <2>6 DEF DaemonSubmit, DaemonRecord, DaemonHoldsStored
  <2> QED
    BY <1>5, <2>1, <2>2, <2>3, <2>4, <2>5, <2>6 DEF DaemonStep
<1>6. CASE Crash
  BY <1>3, <1>4, <1>6 DEF Crash
<1>7. ASSUME NEW r \in Run, RunProceeds(r) \/ RunContinues(r) PROVE daemon' = daemon
  BY <1>7 DEF RunProceeds, RunContinues, RunParks, RunCompletes, RunFails, RunStops,
              RunMarksCompleted, RunReadsGoal, RunMarksFailed
<1> QED
  BY <1>2, <1>5, <1>6, <1>7
     DEF Next, vars, EnqueueGoal, Clock, CancelGoalRead, CancelRunCall, CancelRunRequest,
         CancelDeliver, CancelGoalWrite

\* A canceller works on a goal it has found in the table.
LEMMA CancelHoldStep ==
    ASSUME TypeInv, CancelHoldsStored, WriterHasGoal, [Next]_vars
    PROVE  CancelHoldsStored' /\ WriterHasGoal'
<1> DEFINE Fine(c) == /\ cancel'[c].goal \in Stored \cup {NoGoal}
                      /\ cancel'[c].pc \in {"request", "write"} => cancel'[c].goal # NoGoal
<1>0. cancel \in [Canceller -> CancelRecord] /\ NoGoal \notin Stored
  BY NoGoalAssumption DEF TypeInv, TypeOK, Stored
<1>1. Stored \subseteq Stored'
  BY StoredGrows
<1>2. \A c \in Canceller : cancel'[c] = cancel[c] => Fine(c)
  BY DEF CancelHoldsStored, WriterHasGoal
<1>3. \A c \in Canceller : cancel'[c] = IdleCancel => Fine(c)
  BY DEF IdleCancel
<1>4. ASSUME NEW c \in Canceller, NEW g \in Goal, CancelGoalRead(c, g), NEW d \in Canceller
      PROVE  Fine(d)
  BY <1>0, <1>2, <1>4 DEF CancelGoalRead, CancelRecord
<1>5. ASSUME NEW c \in Canceller, NEW r \in Run, CancelRunCall(c, r), NEW d \in Canceller
      PROVE  Fine(d)
  BY <1>0, <1>2, <1>5 DEF CancelRunCall, CancelRecord
<1>6. ASSUME NEW c \in Canceller, CancelRunRequest(c), NEW d \in Canceller PROVE Fine(d)
  <2>1. CASE d # c
    BY <1>0, <1>2, <1>6, <2>1 DEF CancelRunRequest
  <2>2. CASE d = c
    <3>1. /\ cancel[c].pc = "request" /\ cancel'[c].goal = cancel[c].goal
      BY <1>0, <1>6 DEF CancelRunRequest, CancelRecord
    <3> QED
      BY <2>2, <3>1 DEF CancelHoldsStored, WriterHasGoal
  <2> QED
    BY <2>1, <2>2
<1>7. ASSUME NEW c \in Canceller, CancelDeliver(c), NEW d \in Canceller PROVE Fine(d)
  <2>1. CASE d # c
    BY <1>0, <1>2, <1>7, <2>1 DEF CancelDeliver
  <2>2. CASE d = c /\ cancel[c].goal = NoGoal
    <3>1. cancel'[c] = IdleCancel
      BY <1>0, <1>7, <2>2 DEF CancelDeliver
    <3> QED
      BY <1>3, <2>2, <3>1
  <2>3. CASE d = c /\ cancel[c].goal # NoGoal
    <3>1. cancel'[c].goal = cancel[c].goal
      BY <1>0, <1>7, <2>3 DEF CancelDeliver, CancelRecord
    <3> QED
      BY <2>3, <3>1 DEF CancelHoldsStored
  <2> QED
    BY <2>1, <2>2, <2>3
<1>8. ASSUME NEW c \in Canceller, CancelGoalWrite(c), NEW d \in Canceller PROVE Fine(d)
  BY <1>0, <1>2, <1>3, <1>8 DEF CancelGoalWrite
<1>9. ASSUME Crash, NEW d \in Canceller PROVE Fine(d)
  BY <1>3, <1>9 DEF Crash
<1>10. ASSUME DaemonStep PROVE cancel' = cancel
  BY <1>10 DEF DaemonStep, DaemonPromote, DaemonSelectStale, DaemonRecoverStale, DaemonResume,
               DaemonCount, DaemonDequeue, DaemonClaim, DaemonSubmit, DaemonMark,
               DaemonStartRaises, DaemonFailRead, DaemonFailWrite
<1>11. ASSUME NEW r \in Run, RunProceeds(r) \/ RunContinues(r) PROVE cancel' = cancel
  BY <1>11 DEF RunProceeds, RunContinues, RunParks, RunCompletes, RunFails, RunStops,
               RunMarksCompleted, RunReadsGoal, RunMarksFailed
<1>12. \A d \in Canceller : Fine(d)
  <2> HIDE DEF Fine
  <2> QED
    BY <1>2, <1>4, <1>5, <1>6, <1>7, <1>8, <1>9, <1>10, <1>11 DEF Next, vars, EnqueueGoal, Clock
<1> QED
  BY <1>1, <1>12 DEF CancelHoldsStored, WriterHasGoal

\* A run that has been used never becomes unused again.
LEMMA UsedStep ==
    ASSUME TypeInv, [Next]_vars, NEW r \in Run, run'[r].phase = "unused"
    PROVE  run[r].phase = "unused" /\ ~DaemonSubmit(r)
<1> DEFINE WasUnused == run[r].phase = "unused"
<1>0. run \in [Run -> RunRecord]
  BY DEF TypeInv, TypeOK
<1>1. ASSUME NEW s \in Run, DaemonSubmit(s) PROVE WasUnused /\ s # r
  BY <1>0, <1>1 DEF DaemonSubmit, RunRecord
<1>2. ASSUME run' = run PROVE WasUnused
  BY <1>2
<1>3. ASSUME NEW c \in Canceller, NEW s \in Run, CancelRunCall(c, s) PROVE WasUnused
  BY <1>0, <1>3 DEF CancelRunCall, RunRecord, Cancelling
<1>4. ASSUME NEW c \in Canceller, CancelRunRequest(c) \/ CancelDeliver(c) PROVE WasUnused
  BY <1>0, <1>4 DEF CancelRunRequest, CancelDeliver, RunRecord, Cancelling
<1>5. ASSUME DaemonResume PROVE WasUnused
  BY <1>0, <1>5 DEF DaemonResume, RunRecord, Resumed
<1>6. ASSUME NEW s \in Run, RunProceeds(s) \/ RunContinues(s) PROVE WasUnused
  <2>1. CASE RunReadsGoal(s) \/ RunMarksFailed(s)
    BY <1>0, <2>1 DEF RunReadsGoal, RunMarksFailed, RunRecord
  <2>2. CASE RunMarksCompleted(s) \/ RunParks(s) \/ RunCompletes(s) \/ RunFails(s)
             \/ RunStops(s) \/ RunContinues(s)
    BY <1>0, <2>2 DEF RunMarksCompleted, RunParks, RunCompletes, RunFails, RunStops,
                      RunContinues, RunGoes, RunRecord, Resumed
  <2> QED
    BY <1>6, <2>1, <2>2 DEF RunProceeds
<1>7. ASSUME Crash PROVE WasUnused
  <2>1. PICK saved \in SUBSET Run :
          run' = [s \in Run |-> [run[s] EXCEPT !.phase = AfterCrash(@, s \in saved),
                                               !.attemptRead = 0]]
    BY <1>7 DEF Crash
  <2>2. AfterCrash(run[r].phase, r \in saved) = "unused" => WasUnused
    BY DEF AfterCrash
  <2>3. PICK after : /\ after = "unused" => WasUnused
                     /\ run'[r] = [run[r] EXCEPT !.phase = after, !.attemptRead = 0]
    BY <2>1, <2>2, Zenon
  <2> QED
    BY <1>0, <2>3 DEF RunRecord
<1>8. ASSUME DaemonStep, ~DaemonResume, \A s \in Run : ~DaemonSubmit(s) PROVE run' = run
  BY <1>8 DEF DaemonStep, DaemonPromote, DaemonSelectStale, DaemonRecoverStale, DaemonCount,
              DaemonDequeue, DaemonClaim, DaemonMark, DaemonStartRaises, DaemonFailRead,
              DaemonFailWrite
<1> QED
  BY <1>1, <1>2, <1>3, <1>4, <1>5, <1>6, <1>7, <1>8
     DEF Next, vars, EnqueueGoal, Clock, CancelGoalRead, CancelGoalWrite

\* A run is started for the goal the daemon has claimed.
LEMMA RunHoldStep ==
    ASSUME TypeInv, DaemonHoldsStored, RunHoldsStored, UnusedIsFree, [Next]_vars
    PROVE  RunHoldsStored' /\ UnusedIsFree'
<1>0. run \in [Run -> RunRecord]
  BY DEF TypeInv, TypeOK
<1>1. Stored \subseteq Stored'
  BY StoredGrows
<1>2. \A r \in Run : DaemonSubmit(r) => run'[r].goal \in Stored
  BY <1>0 DEF DaemonSubmit, RunRecord, DaemonHoldsStored
<1>3. \A r \in Run : run'[r].goal = run[r].goal \/ run'[r].goal \in Stored
  BY <1>2, RunStep
<1>4. RunHoldsStored'
  BY <1>1, <1>3 DEF RunHoldsStored
<1>5. UnusedIsFree'
  BY UsedStep, RunStep DEF UnusedIsFree
<1> QED
  BY <1>4, <1>5

LEMMA HoldStep == TypeInv /\ HoldInv /\ [Next]_vars => HoldInv'
  BY DaemonHoldStep, CancelHoldStep, RunHoldStep DEF HoldInv

----------------------------------------------------------------------------
(* Only goals that were enqueued are written to *)

LEMMA AbsentKept ==
    ASSUME TypeInv, HoldInv, [Next]_vars, \A h \in Goal : ~EnqueueGoal(h),
           NEW g \in Goal \ Stored
    PROVE  row'[g].status = row[g].status
<1>0. row \in [Goal -> Row] /\ NoGoal \notin Goal /\ row[g].status = "absent"
  BY NoGoalAssumption DEF TypeInv, TypeOK, Stored
<1>1. ASSUME row' = row PROVE row'[g].status = row[g].status
  BY <1>1
<1>2. ASSUME NEW h \in Goal, Clock(h) PROVE row'[g].status = row[g].status
  BY <1>0, <1>2 DEF Clock, GrowOld, FallDue, Row
<1>3. ASSUME NEW c \in Canceller, CancelGoalWrite(c) PROVE row'[g].status = row[g].status
  <2>1. cancel[c].goal # g
    BY <1>3 DEF CancelGoalWrite, HoldInv, CancelHoldsStored, WriterHasGoal
  <2> QED
    BY <1>0, <1>3, <2>1 DEF CancelGoalWrite, MarkCancelled
<1>4. ASSUME DaemonStep PROVE row'[g].status = row[g].status
  <2>0. /\ daemon.pc \in {"claim", "mark", "judge"} => daemon.goal # g
        /\ g \notin daemon.stale
    BY DEF HoldInv, DaemonHoldsStored
  <2>1. CASE DaemonPromote
    BY <1>0, <2>1 DEF DaemonPromote, PromoteDeferred, Promotable
  <2>2. CASE DaemonRecoverStale
    BY <2>0, <2>2 DEF DaemonRecoverStale, RecoverStaleRunning
  <2>3. CASE DaemonClaim \/ DaemonMark
    BY <1>0, <2>0, <2>3 DEF DaemonClaim, DaemonGoes, Claim, DaemonMark, MarkRunning
  <2>4. CASE DaemonFailWrite
    BY <1>0, <2>0, <2>4 DEF DaemonFailWrite, MarkFailed
  <2> QED
    BY <1>1, <1>4, <2>1, <2>2, <2>3, <2>4
       DEF DaemonStep, DaemonSelectStale, DaemonResume, DaemonCount, DaemonDequeue,
           DaemonSubmit, DaemonStartRaises, DaemonFailRead
<1>5. ASSUME NEW r \in Run, RunProceeds(r) \/ RunContinues(r) PROVE row'[g].status = row[g].status
  <2>0. run[r].goal # g
    BY <1>0 DEF HoldInv, RunHoldsStored
  <2>1. CASE RunMarksCompleted(r)
    BY <1>0, <2>0, <2>1 DEF RunMarksCompleted, MarkCompleted
  <2>2. CASE RunMarksFailed(r)
    BY <1>0, <2>0, <2>2 DEF RunMarksFailed, MarkFailed
  <2> QED
    BY <1>1, <1>5, <2>1, <2>2 DEF RunProceeds, RunContinues, RunParks, RunCompletes, RunFails,
                                  RunStops, RunReadsGoal
<1> QED
  BY <1>1, <1>2, <1>3, <1>4, <1>5
     DEF Next, vars, CancelGoalRead, CancelRunCall, CancelRunRequest, CancelDeliver, Crash

----------------------------------------------------------------------------
(* The refinement *)

verdictOf == [g \in Goal |-> VerdictOf(row[g].status)]
attemptsOf == [g \in Goal |-> row[g].attempt]
runsOf == [g \in Goal |-> Cardinality(RunsOf(g))]

LEMMA VerdictType ==
    ASSUME NEW s \in GOAL_STATUSES \cup {"absent"}
    PROVE  VerdictOf(s) \in Contract!Verdict /\ (VerdictOf(s) = "none" <=> s = "absent")
  BY DEF VerdictOf, Contract!Verdict, GOAL_STATUSES, Settled

LEMMA ContractInit == Init => Contract!Init
<1> SUFFICES ASSUME Init PROVE Contract!Init
  OBVIOUS
<1>1. \A g \in Goal : row[g].status = "absent" /\ row[g].attempt = 0
  BY DEF Init, QueueInit, NoRow
<1>2. \A g \in Goal : RunsOf(g) = {}
  BY NoGoalAssumption DEF Init, RunsOf
<1>3. \A g \in Goal : Cardinality(RunsOf(g)) = 0
  BY <1>2, FS_EmptySet
<1>4. VerdictOf("absent") = "none"
  BY DEF VerdictOf, Settled
<1> QED
  BY <1>1, <1>3, <1>4 DEF Contract!Init

\* What counts the executions of a goal counts one more when a run is started for it.
LEMMA SubmitContract ==
    ASSUME RefineInv, NEW r \in Run, DaemonSubmit(r)
    PROVE  \E h \in Goal : Contract!Start(h)
<1>1. PICK h \in Goal : h = daemon.goal
  BY DEF DaemonSubmit, RefineInv, ExecutionInv, ReadInv, TypeInv, DaemonKnowsGoal
<1>2. /\ daemon.pc = "submit" /\ row' = row
      /\ run' = [run EXCEPT ![r].phase = "live", ![r].goal = h]
      /\ run[r].phase = "unused" /\ run \in [Run -> RunRecord]
  BY <1>1 DEF DaemonSubmit, RefineInv, ExecutionInv, ReadInv, TypeInv, TypeOK
<1>3. run[r].goal = NoGoal /\ NoGoal \notin Goal
  BY <1>2, NoGoalAssumption DEF RefineInv, HoldInv, UnusedIsFree
<1>4. /\ RunsOf(h)' = RunsOf(h) \cup {r} /\ r \notin RunsOf(h)
      /\ \A g \in Goal \ {h} : RunsOf(g)' = RunsOf(g)
  BY <1>2, <1>3 DEF RunsOf, RunRecord
<1>5. IsFiniteSet(RunsOf(h))
  BY FiniteAssumption, FS_Subset DEF RunsOf
<1>6. Cardinality(RunsOf(h)') = Cardinality(RunsOf(h)) + 1
  BY <1>4, <1>5, FS_AddElement
<1>7. Cardinality(RunsOf(h)) < row[h].attempt
  BY <1>1, <1>2 DEF RefineInv, ExecutionInv, SubmitHasAttempt
<1>8. runsOf[h] < attemptsOf[h]
  BY <1>7 DEF runsOf, attemptsOf
<1>9. runsOf' = [runsOf EXCEPT ![h] = @ + 1]
  <2>1. \A g \in Goal \ {h} : Cardinality(RunsOf(g)') = Cardinality(RunsOf(g))
    BY <1>4
  <2> QED
    BY <1>6, <2>1 DEF runsOf
<1>10. verdictOf' = verdictOf /\ attemptsOf' = attemptsOf
  BY <1>2 DEF verdictOf, attemptsOf
<1>11. Contract!Start(h)
  BY <1>8, <1>9, <1>10 DEF Contract!Start, runsOf, attemptsOf, verdictOf
<1> QED
  BY <1>11

LEMMA ClaimContract ==
    ASSUME RefineInv, DaemonClaim
    PROVE  \E h \in Goal : Contract!Attempt(h)
<1>1. TypeInv /\ row \in [Goal -> Row] /\ run' = run
  BY DEF DaemonClaim, RefineInv, ExecutionInv, ReadInv, TypeInv, TypeOK
<1>2. PICK h \in Goal : h = daemon.goal
  BY <1>1, ClaimStep
<1>3. /\ h \in Stored
      /\ row'[h].attempt = row[h].attempt + 1 /\ row'[h].status = "running"
      /\ \A g \in Goal \ {h} : row'[g] = row[g]
  BY <1>1, <1>2, ClaimStep DEF RefineInv, HoldInv, DaemonHoldsStored
<1>4. VerdictOf("running") = "open"
  BY DEF VerdictOf, Settled
<1>5. verdictOf[h] # "none"
  BY <1>1, <1>3, VerdictType DEF verdictOf, Stored, Row
<1>6. verdictOf' = [verdictOf EXCEPT ![h] = "open"]
  BY <1>3, <1>4 DEF verdictOf
<1>7. attemptsOf' = [attemptsOf EXCEPT ![h] = @ + 1]
  BY <1>3 DEF attemptsOf
<1>8. runsOf' = runsOf
  BY <1>1 DEF runsOf, RunsOf
<1>9. Contract!Attempt(h)
  BY <1>5, <1>6, <1>7, <1>8 DEF Contract!Attempt, runsOf, attemptsOf, verdictOf
<1> QED
  BY <1>9

LEMMA EnqueueContract ==
    ASSUME RefineInv, NEW h \in Goal, EnqueueGoal(h)
    PROVE  Contract!Accept(h)
<1>1. row \in [Goal -> Row] /\ run' = run /\ AbsentUntried
  BY DEF EnqueueGoal, RefineInv, ExecutionInv, ReadInv, TypeInv, TypeOK
<1>2. PICK scheduled \in BOOLEAN : Enqueue(h, scheduled)
  BY DEF EnqueueGoal
<1> DEFINE added == [NoRow EXCEPT !.status  = IF scheduled THEN "deferred" ELSE "queued",
                                  !.sched   = IF scheduled THEN "later" ELSE "null",
                                  !.created = Cardinality(Stored)]
<1>3. added.status \in {"queued", "deferred"} /\ added.attempt = 0
  BY DEF NoRow
<1>4. row' = [row EXCEPT ![h] = added] /\ row[h].status = "absent" /\ row[h].attempt = 0
  BY <1>1, <1>2 DEF Enqueue, Stored, AbsentUntried
<1> HIDE DEF added
<1>5. VerdictOf(added.status) = "open" /\ VerdictOf("absent") = "none"
  BY <1>3 DEF VerdictOf, Settled
<1>6. verdictOf' = [verdictOf EXCEPT ![h] = "open"] /\ verdictOf[h] = "none"
  BY <1>1, <1>4, <1>5 DEF verdictOf
<1>7. attemptsOf' = attemptsOf
  BY <1>1, <1>3, <1>4 DEF attemptsOf
<1>8. runsOf' = runsOf
  BY <1>1 DEF runsOf, RunsOf
<1> QED
  BY <1>6, <1>7, <1>8 DEF Contract!Accept, runsOf, attemptsOf, verdictOf

\* Every other step changes no count, and gives only verdicts that have their reason.
LEMMA JudgeContract ==
    ASSUME RefineInv, RefineInv', [Next]_vars, ~DaemonClaim,
           \A h \in Goal : ~EnqueueGoal(h), \A r \in Run : ~DaemonSubmit(r)
    PROVE  Contract!Judge
<1>1. TypeInv /\ TypeInv' /\ AbsentUntried /\ HoldInv
  BY DEF RefineInv, ExecutionInv, ReadInv
<1>2. row \in [Goal -> Row] /\ row' \in [Goal -> Row]
  BY <1>1 DEF TypeInv, TypeOK
<1>3. attemptsOf' = attemptsOf
  BY <1>1, AttemptStep DEF attemptsOf, AttemptsKept
<1>4. \A g \in Goal : RunsOf(g)' = RunsOf(g)
  BY <1>1, RunsKept
<1>5. runsOf' = runsOf
  <2>1. \A g \in Goal : Cardinality(RunsOf(g)') = Cardinality(RunsOf(g))
    BY <1>4
  <2> QED
    BY <2>1 DEF runsOf
<1>6. verdictOf' \in [Goal -> Contract!Verdict]
  BY <1>2, VerdictType DEF verdictOf, Row
<1>7. ASSUME NEW g \in Goal
      PROVE  verdictOf'[g] = verdictOf[g]
             \/ (verdictOf[g] # "none" /\ Contract!Justified(g, verdictOf'[g]))
  <2>1. CASE g \notin Stored
    <3>1. row'[g].status = row[g].status
      BY <1>1, <2>1, AbsentKept
    <3> QED
      BY <3>1 DEF verdictOf
  <2>2. CASE g \in Stored
    <3>1. g \in Stored' /\ verdictOf[g] # "none" /\ verdictOf'[g] # "none"
      BY <1>1, <1>2, <2>2, StoredGrows, VerdictType DEF Stored, verdictOf, Row
    <3>2. ASSUME verdictOf'[g] = "completed" PROVE Cardinality(RunsOf(g)) > 0
      <4>1. row'[g].status = "completed"
        BY <3>2 DEF verdictOf, VerdictOf
      <4>2. RunsOf(g) # {}
        BY <1>4, <4>1 DEF RefineInv, CompletedHasWitness
      <4>3. IsFiniteSet(RunsOf(g))
        BY FiniteAssumption, FS_Subset DEF RunsOf
      <4> QED
        BY <4>2, <4>3, FS_EmptySet, FS_CardinalityType
    <3>3. ASSUME verdictOf'[g] = "failed" PROVE row[g].attempt >= MaxRetries[g]
      <4>1. row'[g].status = "failed"
        BY <3>3 DEF verdictOf, VerdictOf
      <4>2. row'[g].attempt >= MaxRetries[g]
        BY <4>1 DEF RefineInv, FailedIsExhausted
      <4> QED
        BY <1>1, <4>2, AttemptStep DEF AttemptsKept
    <3> QED
      BY <3>1, <3>2, <3>3 DEF Contract!Justified
  <2> QED
    BY <2>1, <2>2
<1> QED
  BY <1>3, <1>5, <1>6, <1>7 DEF Contract!Judge, runsOf, attemptsOf, verdictOf

LEMMA RefineStep == RefineInv /\ [Next]_vars => RefineInv'
<1>1. RefineInv => TypeInv /\ ReadInv
  BY DEF RefineInv, ExecutionInv, ReadInv
<1> QED
  BY <1>1, ExecutionStep, WitnessStep, FailedStep, HoldStep DEF RefineInv

LEMMA RefineInit == Init => RefineInv
<1> SUFFICES ASSUME Init PROVE RefineInv
  OBVIOUS
<1>1. \A g \in Goal : row[g].status = "absent" /\ row[g].attempt = 0
  BY DEF Init, QueueInit, NoRow
<1>2. \A g \in Goal : RunsOf(g) = {}
  BY NoGoalAssumption DEF Init, RunsOf
<1>3. \A g \in Goal : Cardinality(RunsOf(g)) <= row[g].attempt
  BY <1>1, <1>2, FS_EmptySet
<1>4. daemon.pc = "promote"
  BY AsleepType DEF Init
<1>5. ExecutionInv
  BY <1>3, <1>4, ReadInit DEF ExecutionInv, ExecutionsWithinAttempts, SubmitHasAttempt
<1> QED
  BY <1>1, <1>5, HoldInit DEF RefineInv, CompletedHasWitness, FailedIsExhausted

\* The daemon, its runs, its clients and its restarts implement the contract a client of the
\* queue relies on: goals appear by being accepted, every run is preceded by an attempt that was
\* counted, completed means that a run of the goal exists, and failed that the retries are used up.
THEOREM ContractKept == Spec => KeepsContract
<1>1. ASSUME RefineInv, RefineInv', [Next]_vars PROVE [Contract!Next]_(Contract!contract)
  <2>1. CASE \E r \in Run : DaemonSubmit(r)
    BY <1>1, <2>1, SubmitContract DEF Contract!Next
  <2>2. CASE DaemonClaim
    <3>1. \E h \in Goal : Contract!Attempt(h)
      BY <1>1, <2>2, ClaimContract
    <3> QED
      BY <3>1 DEF Contract!Next
  <2>3. CASE \E h \in Goal : EnqueueGoal(h)
    BY <1>1, <2>3, EnqueueContract DEF Contract!Next
  <2> QED
    BY <1>1, <2>1, <2>2, <2>3, JudgeContract DEF Contract!Next
<1>2. RefineInv /\ RefineInv' /\ [Next]_vars => [Contract!Next]_(Contract!contract)
  BY <1>1
<1> QED
  BY RefineInit, RefineStep, ContractInit, <1>2, PTL DEF Spec, KeepsContract, Contract!Spec
=============================================================================
