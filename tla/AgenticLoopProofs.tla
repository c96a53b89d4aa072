------------------------- MODULE AgenticLoopProofs -------------------------
(***************************************************************************)
(* Theorems about AgenticLoop and ModelTurn, for any provider, any turns   *)
(* the model may answer with, any number of branches and any bounds.       *)
(***************************************************************************)
EXTENDS AgenticLoop, FiniteSetTheorems, WellFoundedInduction, TLAPS

InTurn == {"subs", "branches", "plan", "gather", "serial", "answer"}

\* Where the steps are: of the session, and of the invocation that works on it.
StepInv ==
    /\ inv.pc = "none" => session.step <= MaxSteps * (1 + resumes)
    /\ inv.pc = "start" => session.step <= MaxSteps * resumes
    /\ inv.pc = "ask" => inv.step >= 1
    /\ inv.pc \notin {"none", "start"} =>
          /\ session.step = inv.step /\ inv.start <= inv.step /\ inv.step <= inv.start + MaxSteps
          /\ inv.start <= MaxSteps * resumes

\* A turn that is being worked on has calls the model made, and no question.
TurnInv ==
    inv.pc \in InTurn => /\ inv.turn \in Turns /\ inv.step \in 1 .. MaxTurns
                         /\ \A i \in DOMAIN inv.turn : inv.turn[i] # "ask"

LEMMA Bounds ==
    MaxSteps \in Nat /\ MaxSteps >= 1 /\ MaxTurns \in Nat /\ MaxReplies \in Nat /\ MaxResumes \in Nat
  BY LoopAssumption

LEMMA Room ==
    ASSUME NEW r \in 0 .. MaxResumes
    PROVE  /\ MaxSteps * r \in Nat /\ MaxSteps * (1 + r) \in Nat
           /\ MaxSteps * (1 + r) = MaxSteps * r + MaxSteps
           /\ MaxSteps * (1 + r) <= LastStep /\ LastStep \in Nat /\ LastStep >= 1
<1>1. MaxSteps * r \in Nat /\ MaxSteps * (1 + r) \in Nat /\ LastStep \in Nat
  BY Bounds DEF LastStep
<1>2. MaxSteps * (1 + r) = MaxSteps * r + MaxSteps
  BY Bounds
<1>3. PICK d \in Nat : MaxResumes = r + d
  <2>1. MaxResumes - r \in Nat /\ MaxResumes = r + (MaxResumes - r)
    BY Bounds
  <2> QED
    BY <2>1
<1>4. LastStep = MaxSteps * (1 + r) + MaxSteps * d /\ MaxSteps * d \in Nat
  BY Bounds, <1>3 DEF LastStep
<1> QED
  BY <1>1, <1>2, <1>4, Bounds

LEMMA LeastNumber ==
    ASSUME NEW T, T \subseteq Nat, T # {}
    PROVE  \E x \in T : \A y \in T : x <= y
<1>1. \E x \in T : \A y \in T : <<y, x>> \notin OpToRel(<, Nat)
  BY NatLessThanWellFounded, WFMin, Zenon
<1>2. PICK x \in T : \A y \in T : <<y, x>> \notin OpToRel(<, Nat)
  BY <1>1, Zenon
<1>3. \A y \in T : ~(y < x)
  BY <1>2 DEF OpToRel
<1> QED
  BY <1>3

LEMMA EarliestOf ==
    ASSUME NEW S, S # {}, \A c \in S : c[2] \in Nat
    PROVE  Earliest(S) \in S
<1> DEFINE T == {c[2] : c \in S}
<1>1. PICK x \in T : \A y \in T : x <= y
  BY LeastNumber
<1>2. PICK c \in S : c[2] = x
  BY <1>1
<1>3. \A d \in S : c[2] <= d[2]
  BY <1>1, <1>2
<1> QED
  BY <1>3 DEF Earliest

\* The kinds of a turn, and the calls at its places.
LEMMA TurnTypes ==
    ASSUME NEW t \in Turns
    PROVE  /\ t \in Seq(Kind) /\ t # <<>>
           /\ DOMAIN t \subseteq Place /\ DOMAIN t \subseteq Nat /\ \A i \in DOMAIN t : t[i] \in Kind
<1>1. t \in Seq(Kind) /\ t # <<>>
  BY LoopAssumption
<1>2. DOMAIN t \subseteq Place
  BY DEF Place
<1> QED
  BY <1>1, <1>2

LEMMA CallTypes ==
    /\ LocalTask \in Call /\ FastTasks \subseteq Call
    /\ \A c \in Call : c = <<c[1], c[2]>> /\ c[1] \in Nat /\ c[2] \in Nat
    /\ \A s \in 1 .. MaxTurns, i \in Place : <<s, i>> \in Call
<1>1. Place \subseteq Nat
  BY TurnTypes DEF Place
<1>2. LocalTask \in Call /\ FastTasks \subseteq Call
  BY DEF Call
<1>3. ASSUME NEW c \in Call PROVE c = <<c[1], c[2]>> /\ c[1] \in Nat /\ c[2] \in Nat
  <2>1. CASE c \in (1 .. MaxTurns) \X Place
    <3>1. PICK s \in 1 .. MaxTurns, i \in Place : c = <<s, i>>
      BY <2>1
    <3> QED
      BY <1>1, <3>1, Bounds
  <2>2. CASE c \in FastTasks
    BY <2>2, Bounds DEF FastTasks
  <2>3. CASE c = LocalTask
    BY <2>3, Bounds DEF LocalTask
  <2> QED
    BY <2>1, <2>2, <2>3 DEF Call
<1>4. \A s \in 1 .. MaxTurns, i \in Place : <<s, i>> \in Call
  BY DEF Call
<1> QED
  BY <1>2, <1>3, <1>4

LEMMA CallsTypes ==
    ASSUME TurnInv, inv.pc \in InTurn, NEW kinds
    PROVE  /\ Calls(kinds) \subseteq Call
           /\ \A c \in Calls(kinds) : /\ c[1] = inv.step /\ c[2] \in DOMAIN inv.turn /\ c[2] \in Nat
                                      /\ inv.turn[c[2]] \in kinds \cap (Kind \ {"ask"}) /\ c = <<c[1], c[2]>>
           /\ \A i \in DOMAIN inv.turn : inv.turn[i] \in kinds => AtCall(i) \in Calls(kinds)
  BY TurnTypes, CallTypes DEF TurnInv, Calls, AtCall

----------------------------------------------------------------------------
(* Types *)

QuestionType == inv.question \in Question

\* A record of the shape of a question, or of an invocation, is one if its fields are.
QuestionShape(q) == q = [f \in {"attempt", "compact", "focused", "escalated", "posts"} |-> q[f]]
QuestionFields(q) ==
    /\ q.attempt \in 1 .. MaxRetries /\ q.compact \in BOOLEAN /\ q.focused \in BOOLEAN
    /\ q.escalated \in BOOLEAN /\ q.posts \in Nat

PCs == {"none", "start", "fast", "summarize", "head", "ask", "subs", "branches", "plan",
        "gather", "serial", "answer", "fallback", "local"}
Shape(i) == i = [f \in {"pc", "start", "step", "turn", "open", "thrown", "group", "stop", "branch",
                        "question", "spent"} |-> i[f]]
Fields(i) ==
    /\ i.pc \in PCs /\ i.start \in 0 .. LastStep /\ i.step \in 0 .. LastStep
    /\ i.turn \in Turns \cup {<<>>} /\ i.open \subseteq Call /\ i.thrown \subseteq Exceptions
    /\ i.group \in Call \cup {NoCall} /\ i.stop \in BOOLEAN /\ i.branch \in [Branch -> BranchStatus]
    /\ i.question \in Question /\ i.spent \in BOOLEAN

LEMMA QuestionRecord ==
    ASSUME NEW q PROVE q \in Question <=> QuestionShape(q) /\ QuestionFields(q)
  BY DEF Question, QuestionShape, QuestionFields

LEMMA InvocationRecord ==
    ASSUME NEW i PROVE i \in Invocation <=> Shape(i) /\ Fields(i)
  BY DEF Invocation, Shape, Fields, PCs

\* Questions made of questions are questions.
LEMMA FreshType == FreshConfig \in Question
  BY DEF FreshConfig, Question, MaxRetries

LEMMA AskedType ==
    ASSUME NEW q \in Question
    PROVE  /\ Asked(q) \in Question /\ Asked(q).attempt = 1 /\ Asked(q).compact = FALSE /\ Asked(q).focused = FALSE
           /\ Asked(q).escalated = q.escalated /\ Asked(q).posts = 1
<1>1. QuestionShape(Asked(q))
  BY DEF Asked, FreshConfig, QuestionShape
<1>2. /\ Asked(q).attempt = 1 /\ Asked(q).compact = FALSE /\ Asked(q).focused = FALSE
      /\ Asked(q).escalated = q.escalated /\ Asked(q).posts = 1
  BY DEF Asked, FreshConfig
<1>3. q.escalated \in BOOLEAN
  BY QuestionRecord DEF QuestionFields
<1>4. 1 \in 1 .. MaxRetries /\ 1 \in Nat
  BY DEF MaxRetries
<1>5. QuestionFields(Asked(q))
  BY <1>2, <1>3, <1>4 DEF QuestionFields
<1> QED
  BY <1>1, <1>2, <1>5, QuestionRecord

LEMMA RepostedFields ==
    ASSUME NEW q \in Question, NEW e \in PostError
    PROVE  /\ QuestionShape(Reposted(q, e)) /\ Reposted(q, e).posts = q.posts + 1
           /\ CanLighten(q, e) => /\ Reposted(q, e).attempt = q.attempt /\ Reposted(q, e).compact = TRUE
                                  /\ Reposted(q, e).focused = q.focused
                                  /\ Reposted(q, e).escalated = q.escalated
           /\ ~CanLighten(q, e) /\ CanRetry(q, e) =>
                 /\ Reposted(q, e).attempt = q.attempt + 1 /\ Reposted(q, e).compact = FALSE
                 /\ Reposted(q, e).focused = q.focused /\ Reposted(q, e).escalated = q.escalated
           /\ ~CanLighten(q, e) /\ ~CanRetry(q, e) =>
                 /\ Reposted(q, e).attempt = 1 /\ Reposted(q, e).compact = FALSE
                 /\ Reposted(q, e).focused = IF CanEscalate(q) THEN q.focused ELSE TRUE
                 /\ Reposted(q, e).escalated = IF CanEscalate(q) THEN TRUE ELSE q.escalated
<1>1. CASE CanLighten(q, e)
  <2>1. Reposted(q, e) = [q EXCEPT !.compact = TRUE, !.posts = @ + 1]
    BY <1>1 DEF Reposted
  <2>2. QuestionShape(Reposted(q, e))
    BY <2>1 DEF Question, QuestionShape
  <2> QED
    BY <1>1, <2>1, <2>2 DEF Question
<1>2. CASE ~CanLighten(q, e) /\ CanRetry(q, e)
  <2>1. Reposted(q, e) = [q EXCEPT !.attempt = @ + 1, !.compact = FALSE, !.posts = @ + 1]
    BY <1>2 DEF Reposted
  <2>2. QuestionShape(Reposted(q, e))
    BY <2>1 DEF Question, QuestionShape
  <2> QED
    BY <1>2, <2>1, <2>2 DEF Question
<1>3. CASE ~CanLighten(q, e) /\ ~CanRetry(q, e)
  <2>1. Reposted(q, e) = IF CanEscalate(q) THEN [Again(q) EXCEPT !.escalated = TRUE]
                                           ELSE [Again(q) EXCEPT !.focused = TRUE]
    BY <1>3 DEF Reposted
  <2>2. /\ QuestionShape(Again(q)) /\ Again(q).attempt = 1 /\ Again(q).compact = FALSE
        /\ Again(q).focused = q.focused /\ Again(q).escalated = q.escalated
        /\ Again(q).posts = q.posts + 1
    BY DEF Again, Question, QuestionShape
  <2>3. QuestionShape(Reposted(q, e))
    BY <2>1, <2>2 DEF QuestionShape
  <2> QED
    BY <1>3, <2>1, <2>2, <2>3 DEF QuestionShape
<1> QED
  BY <1>1, <1>2, <1>3

LEMMA RepostedType ==
    ASSUME NEW q \in Question, NEW e \in PostError
    PROVE  Reposted(q, e) \in Question
<1>1. QuestionFields(q)
  BY QuestionRecord
<1>2. CanRetry(q, e) => q.attempt + 1 \in 1 .. MaxRetries
  BY <1>1 DEF QuestionFields, CanRetry, MaxRetries
<1>3. 1 \in 1 .. MaxRetries /\ q.posts + 1 \in Nat
  BY <1>1 DEF QuestionFields, MaxRetries
<1>4. QuestionFields(Reposted(q, e))
  BY <1>1, <1>2, <1>3, RepostedFields DEF QuestionFields
<1> QED
  BY <1>4, RepostedFields, QuestionRecord

LEMMA NoInvocationType ==
    /\ NoInvocation \in Invocation
    /\ NoInvocation.pc = "none" /\ NoInvocation.group = NoCall
    /\ NoInvocation.step = 0 /\ NoInvocation.start = 0
    /\ NoInvocation.turn = <<>> /\ NoInvocation.thrown = {} /\ NoInvocation.open = {}
    /\ NoInvocation.branch = [b \in Branch |-> "none"] /\ NoInvocation.question = FreshConfig
<1>1. 0 \in 0 .. LastStep
  BY Bounds, Room
<1>2. Shape(NoInvocation)
  BY DEF NoInvocation, Shape
<1>3. Fields(NoInvocation)
  BY <1>1, FreshType DEF NoInvocation, Fields, PCs, BranchStatus
<1> QED
  BY <1>2, <1>3, InvocationRecord DEF NoInvocation

RestType ==
    /\ status \in Status
    /\ handoff \in [state : {"none", "pending", "answered"}, call : Call \cup {NoCall}]
    /\ cancel \in BOOLEAN
    /\ session \in [step : 0 .. LastStep, open : SUBSET Call]
    /\ task \in [Call -> {"none", "pending", "running"} \cup Ended]
    /\ running \subseteq Call
    /\ disclosed \in 0 .. 2
    /\ replies \in 0 .. MaxReplies /\ resumes \in 0 .. MaxResumes

LEMMA Types == TypeOK <=> RestType /\ Shape(inv) /\ Fields(inv)
  BY InvocationRecord DEF TypeOK, RestType

SessionType == session \in [step : 0 .. LastStep, open : SUBSET Call]
TaskType == task \in [Call -> {"none", "pending", "running"} \cup Ended] /\ running \subseteq Call
OtherType ==
    /\ status \in Status
    /\ handoff \in [state : {"none", "pending", "answered"}, call : Call \cup {NoCall}]
    /\ cancel \in BOOLEAN /\ disclosed \in 0 .. 2
    /\ replies \in 0 .. MaxReplies /\ resumes \in 0 .. MaxResumes

\* What a step that goes on at another place, or ends, makes of the invocation.
Follows(j, i) ==
    /\ j.start = i.start /\ j.step = i.step /\ j.turn = i.turn /\ j.open = i.open
    /\ j.thrown = i.thrown /\ j.group = i.group /\ j.stop = i.stop /\ j.branch = i.branch
    /\ j.question = i.question /\ j.spent = i.spent

LEMMA GoesOn ==
    ASSUME NEW i, Shape(i), Fields(i), NEW pc \in PCs, Goes(i, pc)
    PROVE  Shape(inv') /\ Fields(inv') /\ inv'.pc = pc /\ Follows(inv', i) /\ UNCHANGED status
<1>1. Shape(inv') /\ inv'.pc = pc /\ Follows(inv', i) /\ UNCHANGED status
  BY DEF Goes, Shape, Follows
<1> QED
  BY <1>1 DEF Fields, Follows

LEMMA Ending ==
    ASSUME NEW st, Ends(st)
    PROVE  /\ Shape(inv') /\ Fields(inv') /\ status' = st
           /\ inv'.pc = "none" /\ inv'.step = 0 /\ inv'.start = 0 /\ inv'.turn = <<>> /\ inv'.open = {}
           /\ inv'.thrown = {} /\ inv'.branch = [b \in Branch |-> "none"] /\ inv'.question = FreshConfig
  BY NoInvocationType, InvocationRecord DEF Ends

LEMMA NewInvocation ==
    ASSUME TypeOK, NEW new,
           new = [NoInvocation EXCEPT !.start = session.step, !.step = session.step, !.open = session.open]
    PROVE  /\ Shape(new) /\ Fields(new)
           /\ new.start = session.step /\ new.step = session.step /\ new.open = session.open
           /\ new.turn = <<>> /\ new.thrown = {} /\ new.question = FreshConfig
           /\ new.branch = [b \in Branch |-> "none"]
<1>1. Shape(NoInvocation) /\ Fields(NoInvocation)
  BY NoInvocationType, InvocationRecord
<1>2. session.step \in 0 .. LastStep /\ session.open \subseteq Call
  BY DEF TypeOK
<1>3. /\ new.start = session.step /\ new.step = session.step /\ new.open = session.open
      /\ new.turn = <<>> /\ new.thrown = {} /\ new.question = FreshConfig
      /\ new.branch = [b \in Branch |-> "none"] /\ Shape(new)
      /\ new.pc = "none" /\ new.group = NoCall /\ new.stop = FALSE /\ new.spent = FALSE
  BY <1>1 DEF NoInvocation, Shape
<1> QED
  BY <1>2, <1>3, FreshType DEF Fields, PCs, BranchStatus

LEMMA FastTaskType == TypeOK => FastTask \in Call
  BY Bounds, CallTypes DEF TypeOK, FastTask, FastTasks

LEMMA SetBranchType ==
    ASSUME Shape(inv), Fields(inv), NEW b \in Branch, NEW st \in BranchStatus, SetBranch(b, st)
    PROVE  Shape(inv') /\ Fields(inv')
<1> DEFINE i == [inv EXCEPT !.branch[b] = st]
<1>1. Shape(i) /\ Fields(i)
  BY DEF Shape, Fields
<1>2. Goes(i, "branches")
  BY DEF SetBranch
<1> HIDE DEF i
<1> QED
  BY <1>1, <1>2, GoesOn DEF PCs

LEMMA PipeStartsType ==
    ASSUME TypeOK, StepInv, TurnInv, PipeStarts
    PROVE  TypeOK'
<1>1. RestType /\ Shape(inv) /\ Fields(inv)
  BY Types
<1>2. Shape(inv') /\ Fields(inv')
  <2> DEFINE new == [NoInvocation EXCEPT !.start = session.step, !.step = session.step,
                                         !.open = session.open]
  <2>1. inv' \in {[new EXCEPT !.pc = "head"], [new EXCEPT !.pc = "fast"]}
    BY DEF PipeStarts
  <2>2. Shape(new) /\ Fields(new)
    BY NewInvocation
  <2> HIDE DEF new
  <2> QED
    BY <2>1, <2>2 DEF Shape, Fields, PCs
<1>3. OtherType'
  BY <1>1, Bounds, Room DEF PipeStarts, Goes, Ends, At, Completes, RestType, OtherType, Status, Terminal, SetBranch, client, TaskLeaves
<1>4. SessionType'
  BY <1>1, Bounds, Room, CallTypes, CallsTypes DEF PipeStarts, Goes, Ends, At, Completes, Fields, RestType, SessionType, SetBranch, TaskLeaves
<1>5. TaskType'
  BY <1>1, Bounds, CallTypes, CallsTypes, FastTaskType DEF PipeStarts, Goes, Ends, At, Completes, RestType, TaskType, Ended, SetBranch, TaskLeaves
<1> QED
  BY <1>2, <1>3, <1>4, <1>5, InvocationRecord DEF TypeOK, OtherType, SessionType, TaskType

LEMMA FastTaskDoneType ==
    ASSUME TypeOK, StepInv, TurnInv, FastTaskDone
    PROVE  TypeOK'
<1>1. RestType /\ Shape(inv) /\ Fields(inv)
  BY Types
<1>2. Shape(inv') /\ Fields(inv')
  BY <1>1, NoInvocationType, InvocationRecord, Bounds, Room DEF FastTaskDone, Goes, Ends, At, Completes, Fields, Shape, PCs, SetBranch, TurnOver, TaskLeaves
<1>3. OtherType'
  BY <1>1, Bounds, Room DEF FastTaskDone, Goes, Ends, At, Completes, RestType, OtherType, Status, Terminal, SetBranch, client, TaskLeaves
<1>4. SessionType'
  BY <1>1, Bounds, Room, CallTypes, CallsTypes DEF FastTaskDone, Goes, Ends, At, Completes, Fields, RestType, SessionType, SetBranch, TaskLeaves
<1>5. TaskType'
  BY <1>1, Bounds, CallTypes, CallsTypes, FastTaskType DEF FastTaskDone, Goes, Ends, At, Completes, RestType, TaskType, Ended, SetBranch, TaskLeaves
<1> QED
  BY <1>2, <1>3, <1>4, <1>5, InvocationRecord DEF TypeOK, OtherType, SessionType, TaskType

LEMMA FastSummarizesType ==
    ASSUME TypeOK, StepInv, TurnInv, FastSummarizes
    PROVE  TypeOK'
<1>1. RestType /\ Shape(inv) /\ Fields(inv)
  BY Types
<1>2. Shape(inv') /\ Fields(inv')
  <2> DEFINE i == inv
  <2>1. Shape(i) /\ Fields(i)
    BY <1>1 DEF Shape, Fields
  <2>2. (\E pc \in PCs : Goes(i, pc)) \/ (\E st \in Status : Ends(st)) \/ inv' = inv
    BY <1>1 DEF FastSummarizes, PCs, Completes, Terminal, Status, RestType, TurnOver
  <2> HIDE DEF i
  <2> QED
    BY <1>1, <2>1, <2>2, GoesOn, Ending
<1>3. OtherType'
  BY <1>1, Bounds, Room DEF FastSummarizes, Goes, Ends, At, Completes, RestType, OtherType, Status, Terminal, SetBranch, client, TaskLeaves
<1>4. SessionType'
  <2>1. 1 \in 0 .. LastStep
    BY Bounds, Room
  <2> QED
    BY <1>1, <2>1 DEF FastSummarizes, RestType, SessionType
<1>5. TaskType'
  BY <1>1, Bounds, CallTypes, CallsTypes, FastTaskType DEF FastSummarizes, Goes, Ends, At, Completes, RestType, TaskType, Ended, SetBranch, TaskLeaves
<1> QED
  BY <1>2, <1>3, <1>4, <1>5, InvocationRecord DEF TypeOK, OtherType, SessionType, TaskType

LEMMA StepBeginsType ==
    ASSUME TypeOK, StepInv, TurnInv, StepBegins
    PROVE  TypeOK'
<1>1. RestType /\ Shape(inv) /\ Fields(inv)
  BY Types
<1>2. Shape(inv') /\ Fields(inv')
  <2>0. inv.step + 1 \in 0 .. LastStep
    <3>1. /\ MaxSteps * resumes \in Nat /\ LastStep \in Nat
          /\ MaxSteps * resumes + MaxSteps <= LastStep
      BY <1>1, Room DEF RestType
    <3>2. inv.step < inv.start + MaxSteps /\ inv.start <= MaxSteps * resumes
      BY DEF StepBegins, At, StepInv
    <3> QED
      BY <1>1, <3>1, <3>2, Bounds DEF Fields
  <2> DEFINE next == [inv EXCEPT !.step = @ + 1]
  <2>1. Shape(next) /\ Fields(next)
    BY <1>1, <2>0 DEF Shape, Fields
  <2>2. \/ Goes(next, "fallback")
        \/ Goes([next EXCEPT !.question = Asked(@)], "ask")
    BY DEF StepBegins
  <2> HIDE DEF next
  <2>3. Asked(next.question) \in Question
    BY <2>1, AskedType DEF Fields
  <2>4. Shape([next EXCEPT !.question = Asked(@)]) /\ Fields([next EXCEPT !.question = Asked(@)])
    BY <2>1, <2>3 DEF Shape, Fields
  <2> QED
    BY <2>1, <2>2, <2>4, GoesOn DEF PCs
<1>3. OtherType'
  BY <1>1, Bounds, Room DEF StepBegins, Goes, Ends, At, Completes, RestType, OtherType, Status, Terminal, SetBranch, client, TaskLeaves
<1>4. SessionType'
  <2>0. inv.step + 1 \in 0 .. LastStep
    <3>1. /\ MaxSteps * resumes \in Nat /\ LastStep \in Nat
          /\ MaxSteps * resumes + MaxSteps <= LastStep
      BY <1>1, Room DEF RestType
    <3>2. inv.step < inv.start + MaxSteps /\ inv.start <= MaxSteps * resumes
      BY DEF StepBegins, At, StepInv
    <3> QED
      BY <1>1, <3>1, <3>2, Bounds DEF Fields
  <2> QED
    BY <1>1, <2>0 DEF StepBegins, RestType, SessionType
<1>5. TaskType'
  BY <1>1, Bounds, CallTypes, CallsTypes, FastTaskType DEF StepBegins, Goes, Ends, At, Completes, RestType, TaskType, Ended, SetBranch, TaskLeaves
<1> QED
  BY <1>2, <1>3, <1>4, <1>5, InvocationRecord DEF TypeOK, OtherType, SessionType, TaskType

LEMMA OverBudgetType ==
    ASSUME TypeOK, StepInv, TurnInv, OverBudget
    PROVE  TypeOK'
<1>1. RestType /\ Shape(inv) /\ Fields(inv)
  BY Types
<1>2. Shape(inv') /\ Fields(inv')
  BY <1>1, NoInvocationType, InvocationRecord, Bounds, Room DEF OverBudget, Goes, Ends, At, Completes, Fields, Shape, PCs, SetBranch, TurnOver, TaskLeaves
<1>3. OtherType'
  BY <1>1, Bounds, Room DEF OverBudget, Goes, Ends, At, Completes, RestType, OtherType, Status, Terminal, SetBranch, client, TaskLeaves
<1>4. SessionType'
  BY <1>1, Bounds, Room, CallTypes, CallsTypes DEF OverBudget, Goes, Ends, At, Completes, Fields, RestType, SessionType, SetBranch, TaskLeaves
<1>5. TaskType'
  BY <1>1, Bounds, CallTypes, CallsTypes, FastTaskType DEF OverBudget, Goes, Ends, At, Completes, RestType, TaskType, Ended, SetBranch, TaskLeaves
<1> QED
  BY <1>2, <1>3, <1>4, <1>5, InvocationRecord DEF TypeOK, OtherType, SessionType, TaskType

LEMMA OutOfStepsType ==
    ASSUME TypeOK, StepInv, TurnInv, OutOfSteps
    PROVE  TypeOK'
<1>1. RestType /\ Shape(inv) /\ Fields(inv)
  BY Types
<1>2. Shape(inv') /\ Fields(inv')
  BY <1>1, NoInvocationType, InvocationRecord, Bounds, Room DEF OutOfSteps, Goes, Ends, At, Completes, Fields, Shape, PCs, SetBranch, TurnOver, TaskLeaves
<1>3. OtherType'
  BY <1>1, Bounds, Room DEF OutOfSteps, Goes, Ends, At, Completes, RestType, OtherType, Status, Terminal, SetBranch, client, TaskLeaves
<1>4. SessionType'
  BY <1>1, Bounds, Room, CallTypes, CallsTypes DEF OutOfSteps, Goes, Ends, At, Completes, Fields, RestType, SessionType, SetBranch, TaskLeaves
<1>5. TaskType'
  BY <1>1, Bounds, CallTypes, CallsTypes, FastTaskType DEF OutOfSteps, Goes, Ends, At, Completes, RestType, TaskType, Ended, SetBranch, TaskLeaves
<1> QED
  BY <1>2, <1>3, <1>4, <1>5, InvocationRecord DEF TypeOK, OtherType, SessionType, TaskType

LEMMA PostFailsType ==
    ASSUME TypeOK, StepInv, TurnInv, NEW e \in PostError, PostFails(e)
    PROVE  TypeOK'
<1>1. RestType /\ Shape(inv) /\ Fields(inv)
  BY Types
<1>2. Shape(inv') /\ Fields(inv')
  <2> DEFINE i == [inv EXCEPT !.question = Reposted(@, e)]
  <2>1. Shape(i) /\ Fields(i)
    BY <1>1, RepostedType DEF Shape, Fields
  <2>2. Goes(i, "ask") \/ Ends("completed")
    BY DEF PostFails, Completes
  <2> HIDE DEF i
  <2> QED
    BY <2>1, <2>2, GoesOn, Ending DEF PCs
<1>3. OtherType'
  BY <1>1, Bounds, Room DEF PostFails, Goes, Ends, At, Completes, RestType, OtherType, Status, Terminal, SetBranch, client, TaskLeaves
<1>4. SessionType'
  <2>1. UNCHANGED session \/ session' = [step |-> inv.step, open |-> inv.open]
    BY DEF PostFails, Completes
  <2> QED
    BY <1>1, <2>1 DEF RestType, SessionType, Fields
<1>5. TaskType'
  BY <1>1, Bounds, CallTypes, CallsTypes, FastTaskType DEF PostFails, Goes, Ends, At, Completes, RestType, TaskType, Ended, SetBranch, TaskLeaves
<1> QED
  BY <1>2, <1>3, <1>4, <1>5, InvocationRecord DEF TypeOK, OtherType, SessionType, TaskType

LEMMA PostEscapesType ==
    ASSUME TypeOK, StepInv, TurnInv, PostEscapes
    PROVE  TypeOK'
<1>1. RestType /\ Shape(inv) /\ Fields(inv)
  BY Types
<1>2. Shape(inv') /\ Fields(inv')
  <2>0. Over(inv.question) \in Question
    BY <1>1, AskedType DEF Fields, Over
  <2> DEFINE i == [inv EXCEPT !.question = Over(@)]
  <2>1. Shape(i) /\ Fields(i)
    BY <1>1, <2>0 DEF Shape, Fields
  <2>2. Goes(i, "fallback")
    BY DEF PostEscapes
  <2> HIDE DEF i
  <2> QED
    BY <2>1, <2>2, GoesOn DEF PCs
<1>3. OtherType'
  BY <1>1, Bounds, Room DEF PostEscapes, Goes, Ends, At, Completes, RestType, OtherType, Status, Terminal, SetBranch, client, TaskLeaves
<1>4. SessionType'
  BY <1>1, Bounds, Room, CallTypes, CallsTypes DEF PostEscapes, Goes, Ends, At, Completes, Fields, RestType, SessionType, SetBranch, TaskLeaves
<1>5. TaskType'
  BY <1>1, Bounds, CallTypes, CallsTypes, FastTaskType DEF PostEscapes, Goes, Ends, At, Completes, RestType, TaskType, Ended, SetBranch, TaskLeaves
<1> QED
  BY <1>2, <1>3, <1>4, <1>5, InvocationRecord DEF TypeOK, OtherType, SessionType, TaskType

LEMMA ModelSaysType ==
    ASSUME TypeOK, StepInv, TurnInv, ModelSays
    PROVE  TypeOK'
<1>1. RestType /\ Shape(inv) /\ Fields(inv)
  BY Types
<1>2. Shape(inv') /\ Fields(inv')
  <2>0. Over(inv.question) \in Question
    BY <1>1, AskedType DEF Fields, Over
  <2> DEFINE i == [inv EXCEPT !.question = Over(@), !.spent = TRUE]
  <2>1. Shape(i)
    BY <1>1 DEF Shape
  <2>2. Fields(i)
    BY <1>1, <2>0 DEF Shape, Fields
  <2>3. Goes(i, "fallback") \/ Ends("completed")
    BY DEF ModelSays, Completes
  <2> HIDE DEF i
  <2> QED
    BY <2>1, <2>2, <2>3, GoesOn, Ending DEF PCs
<1>3. OtherType'
  BY <1>1, Bounds, Room DEF ModelSays, Goes, Ends, At, Completes, RestType, OtherType, Status, Terminal, SetBranch, client, TaskLeaves
<1>4. SessionType'
  <2>1. UNCHANGED session \/ session' = [step |-> inv.step, open |-> inv.open]
    BY DEF ModelSays, Completes
  <2> QED
    BY <1>1, <2>1 DEF RestType, SessionType, Fields
<1>5. TaskType'
  BY <1>1, Bounds, CallTypes, CallsTypes, FastTaskType DEF ModelSays, Goes, Ends, At, Completes, RestType, TaskType, Ended, SetBranch, TaskLeaves
<1> QED
  BY <1>2, <1>3, <1>4, <1>5, InvocationRecord DEF TypeOK, OtherType, SessionType, TaskType

LEMMA ModelCallsType ==
    ASSUME TypeOK, StepInv, TurnInv, NEW t \in Turns, ModelCalls(t)
    PROVE  TypeOK'
<1>1. RestType /\ Shape(inv) /\ Fields(inv)
  BY Types
<1>2. Shape(inv') /\ Fields(inv')
  <2>0. Over(inv.question) \in Question
    BY <1>1, AskedType DEF Fields, Over
  <2> DEFINE made == {AtCall(j) : j \in DOMAIN t}
             asks == {AtCall(j) : j \in {k \in DOMAIN t : t[k] = "ask"}}
  <2>1. made \subseteq Call /\ asks \subseteq made /\ \A c \in made : c[2] \in Nat
    <3>1. inv.step \in 1 .. MaxTurns
      BY <1>1, Bounds, Room DEF ModelCalls, At, StepInv, Fields
    <3>2. \A j \in DOMAIN t : j \in Place /\ j \in Nat
      BY TurnTypes
    <3> QED
      BY <3>1, <3>2, CallTypes DEF AtCall
  <2> DEFINE i == [inv EXCEPT !.turn = t, !.open = inv.open \cup made, !.question = Over(@), !.spent = TRUE]
  <2>2. Goes(i, "subs") \/ Goes(i, "plan") \/ Ends("awaiting_input")
    BY DEF ModelCalls
  <2>3. i.turn = t /\ i.open = inv.open \cup made /\ i.question = Over(inv.question) /\ i.spent = TRUE
    BY <1>1 DEF Shape
  <2>4. Shape(i)
    BY <1>1 DEF Shape
  <2>5. Fields(i)
    BY <1>1, <2>0, <2>1, <2>3 DEF Shape, Fields
  <2> HIDE DEF i
  <2> QED
    BY <2>2, <2>4, <2>5, GoesOn, Ending DEF PCs
<1>3. OtherType'
  <2> DEFINE made == {AtCall(j) : j \in DOMAIN t}
             asks == {AtCall(j) : j \in {k \in DOMAIN t : t[k] = "ask"}}
  <2>1. made \subseteq Call /\ asks \subseteq made /\ \A c \in made : c[2] \in Nat
    <3>1. inv.step \in 1 .. MaxTurns
      BY <1>1, Bounds, Room DEF ModelCalls, At, StepInv, Fields
    <3>2. \A j \in DOMAIN t : j \in Place /\ j \in Nat
      BY TurnTypes
    <3> QED
      BY <3>1, <3>2, CallTypes DEF AtCall
  <2>2. asks # {} => Earliest(asks) \in Call
    BY <2>1, EarliestOf
  <2>3. handoff' = IF asks # {} THEN WaitsForAnswer(Earliest(asks)) ELSE handoff
    BY DEF ModelCalls
  <2>4. handoff' \in [state : {"none", "pending", "answered"}, call : Call \cup {NoCall}]
    BY <1>1, <2>2, <2>3 DEF WaitsForAnswer, RestType
  <2> QED
    BY <1>1, <2>4 DEF ModelCalls, Goes, Ends, RestType, OtherType, client, Status
<1>4. SessionType'
  <2> DEFINE made == {AtCall(j) : j \in DOMAIN t}
             asks == {AtCall(j) : j \in {k \in DOMAIN t : t[k] = "ask"}}
  <2>1. made \subseteq Call /\ asks \subseteq made /\ \A c \in made : c[2] \in Nat
    <3>1. inv.step \in 1 .. MaxTurns
      BY <1>1, Bounds, Room DEF ModelCalls, At, StepInv, Fields
    <3>2. \A j \in DOMAIN t : j \in Place /\ j \in Nat
      BY TurnTypes
    <3> QED
      BY <3>1, <3>2, CallTypes DEF AtCall
  <2>2. session' = [step |-> inv.step, open |-> inv.open \cup made]
    BY DEF ModelCalls
  <2> QED
    BY <1>1, <2>1, <2>2 DEF SessionType, Fields
<1>5. TaskType'
  BY <1>1, Bounds, CallTypes, CallsTypes, FastTaskType DEF ModelCalls, Goes, Ends, At, Completes, RestType, TaskType, Ended, SetBranch, TaskLeaves
<1> QED
  BY <1>2, <1>3, <1>4, <1>5, InvocationRecord DEF TypeOK, OtherType, SessionType, TaskType

LEMMA SubBeginsType ==
    ASSUME TypeOK, StepInv, TurnInv, NEW stop \in BOOLEAN, SubBegins(stop)
    PROVE  TypeOK'
<1>1. RestType /\ Shape(inv) /\ Fields(inv)
  BY Types
<1>2. Shape(inv') /\ Fields(inv')
  <2> DEFINE sub == [inv EXCEPT !.group = Earliest(SubsLeft), !.stop = stop]
  <2>1. Earliest(SubsLeft) \in Call
    BY CallsTypes, EarliestOf DEF SubBegins, At, InTurn, SubsLeft
  <2>2. Shape(sub) /\ Fields(sub)
    BY <1>1, <2>1 DEF Shape, Fields
  <2>3. \/ Goes([sub EXCEPT !.branch = [b \in Branch |-> "waiting"]], "branches")
        \/ Goes([sub EXCEPT !.branch = [b \in Branch |-> "none"]], "subs")
    BY DEF SubBegins
  <2> HIDE DEF sub
  <2>4. \A st \in {"waiting", "none"} : /\ Shape([sub EXCEPT !.branch = [b \in Branch |-> st]])
                                       /\ Fields([sub EXCEPT !.branch = [b \in Branch |-> st]])
    BY <2>2 DEF Shape, Fields, BranchStatus
  <2> QED
    BY <2>3, <2>4, GoesOn DEF PCs
<1>3. OtherType'
  BY <1>1, Bounds, Room DEF SubBegins, Goes, Ends, At, Completes, RestType, OtherType, Status, Terminal, SetBranch, client, TaskLeaves
<1>4. SessionType'
  BY <1>1, Bounds, Room, CallTypes, CallsTypes DEF SubBegins, Goes, Ends, At, Completes, Fields, RestType, SessionType, SetBranch, TaskLeaves
<1>5. TaskType'
  BY <1>1, Bounds, CallTypes, CallsTypes, FastTaskType DEF SubBegins, Goes, Ends, At, Completes, RestType, TaskType, Ended, SetBranch, TaskLeaves
<1> QED
  BY <1>2, <1>3, <1>4, <1>5, InvocationRecord DEF TypeOK, OtherType, SessionType, TaskType

LEMMA BranchesStopType ==
    ASSUME TypeOK, StepInv, TurnInv, BranchesStop
    PROVE  TypeOK'
<1>1. RestType /\ Shape(inv) /\ Fields(inv)
  BY Types
<1>2. Shape(inv') /\ Fields(inv')
  <2> DEFINE set == [b \in Branch |-> IF Unfinished(b) THEN "cancelled" ELSE inv.branch[b]]
             i == [inv EXCEPT !.branch = set]
  <2>1. set \in [Branch -> BranchStatus]
    BY <1>1 DEF Fields, BranchStatus
  <2>2. Goes(i, "branches")
    BY DEF BranchesStop
  <2> HIDE DEF set
  <2>3. Shape(i) /\ Fields(i)
    BY <1>1, <2>1 DEF Shape, Fields
  <2> HIDE DEF i
  <2> QED
    BY <2>2, <2>3, GoesOn DEF PCs
<1>3. OtherType'
  BY <1>1, Bounds, Room DEF BranchesStop, Goes, Ends, At, Completes, RestType, OtherType, Status, Terminal, SetBranch, client, TaskLeaves
<1>4. SessionType'
  BY <1>1, Bounds, Room, CallTypes, CallsTypes DEF BranchesStop, Goes, Ends, At, Completes, Fields, RestType, SessionType, SetBranch, TaskLeaves
<1>5. TaskType'
  BY <1>1, Bounds, CallTypes, CallsTypes, FastTaskType DEF BranchesStop, Goes, Ends, At, Completes, RestType, TaskType, Ended, SetBranch, TaskLeaves
<1> QED
  BY <1>2, <1>3, <1>4, <1>5, InvocationRecord DEF TypeOK, OtherType, SessionType, TaskType

LEMMA SubEndsType ==
    ASSUME TypeOK, StepInv, TurnInv, SubEnds
    PROVE  TypeOK'
<1>1. RestType /\ Shape(inv) /\ Fields(inv)
  BY Types
<1>2. Shape(inv') /\ Fields(inv')
  BY <1>1, NoInvocationType, InvocationRecord, Bounds, Room DEF SubEnds, Goes, Ends, At, Completes, Fields, Shape, PCs, SetBranch, TurnOver, TaskLeaves
<1>3. OtherType'
  BY <1>1, Bounds, Room DEF SubEnds, Goes, Ends, At, Completes, RestType, OtherType, Status, Terminal, SetBranch, client, TaskLeaves
<1>4. SessionType'
  BY <1>1, Bounds, Room, CallTypes, CallsTypes DEF SubEnds, Goes, Ends, At, Completes, Fields, RestType, SessionType, SetBranch, TaskLeaves
<1>5. TaskType'
  BY <1>1, Bounds, CallTypes, CallsTypes, FastTaskType DEF SubEnds, Goes, Ends, At, Completes, RestType, TaskType, Ended, SetBranch, TaskLeaves
<1> QED
  BY <1>2, <1>3, <1>4, <1>5, InvocationRecord DEF TypeOK, OtherType, SessionType, TaskType

LEMMA SubsAnsweredType ==
    ASSUME TypeOK, StepInv, TurnInv, SubsAnswered
    PROVE  TypeOK'
<1>1. RestType /\ Shape(inv) /\ Fields(inv)
  BY Types
<1>2. Shape(inv') /\ Fields(inv')
  BY <1>1, NoInvocationType, InvocationRecord, Bounds, Room DEF SubsAnswered, Goes, Ends, At, Completes, Fields, Shape, PCs, SetBranch, TurnOver, TaskLeaves
<1>3. OtherType'
  BY <1>1, Bounds, Room DEF SubsAnswered, Goes, Ends, At, Completes, RestType, OtherType, Status, Terminal, SetBranch, client, TaskLeaves
<1>4. SessionType'
  BY <1>1, Bounds, Room, CallTypes, CallsTypes DEF SubsAnswered, Goes, Ends, At, Completes, Fields, RestType, SessionType, SetBranch, TaskLeaves
<1>5. TaskType'
  BY <1>1, Bounds, CallTypes, CallsTypes, FastTaskType DEF SubsAnswered, Goes, Ends, At, Completes, RestType, TaskType, Ended, SetBranch, TaskLeaves
<1> QED
  BY <1>2, <1>3, <1>4, <1>5, InvocationRecord DEF TypeOK, OtherType, SessionType, TaskType

LEMMA BranchStartsType ==
    ASSUME TypeOK, StepInv, TurnInv, NEW b \in Branch, BranchStarts(b)
    PROVE  TypeOK'
<1>1. RestType /\ Shape(inv) /\ Fields(inv)
  BY Types
<1>2. Shape(inv') /\ Fields(inv')
  <2>1. \E st \in BranchStatus : SetBranch(b, st)
    BY DEF BranchStarts, BranchStatus
  <2> QED
    BY <1>1, <2>1, SetBranchType
<1>3. OtherType'
  BY <1>1, Bounds, Room DEF BranchStarts, Goes, Ends, At, Completes, RestType, OtherType, Status, Terminal, SetBranch, client, TaskLeaves
<1>4. SessionType'
  BY <1>1, Bounds, Room, CallTypes, CallsTypes DEF BranchStarts, Goes, Ends, At, Completes, Fields, RestType, SessionType, SetBranch, TaskLeaves
<1>5. TaskType'
  BY <1>1, Bounds, CallTypes, CallsTypes, FastTaskType DEF BranchStarts, Goes, Ends, At, Completes, RestType, TaskType, Ended, SetBranch, TaskLeaves
<1> QED
  BY <1>2, <1>3, <1>4, <1>5, InvocationRecord DEF TypeOK, OtherType, SessionType, TaskType

LEMMA BranchEndsType ==
    ASSUME TypeOK, StepInv, TurnInv, NEW b \in Branch, BranchEnds(b)
    PROVE  TypeOK'
<1>1. RestType /\ Shape(inv) /\ Fields(inv)
  BY Types
<1>2. Shape(inv') /\ Fields(inv')
  <2>1. \E st \in BranchStatus : SetBranch(b, st)
    BY DEF BranchEnds, BranchStatus
  <2> QED
    BY <1>1, <2>1, SetBranchType
<1>3. OtherType'
  BY <1>1, Bounds, Room DEF BranchEnds, Goes, Ends, At, Completes, RestType, OtherType, Status, Terminal, SetBranch, client, TaskLeaves
<1>4. SessionType'
  BY <1>1, Bounds, Room, CallTypes, CallsTypes DEF BranchEnds, Goes, Ends, At, Completes, Fields, RestType, SessionType, SetBranch, TaskLeaves
<1>5. TaskType'
  BY <1>1, Bounds, CallTypes, CallsTypes, FastTaskType DEF BranchEnds, Goes, Ends, At, Completes, RestType, TaskType, Ended, SetBranch, TaskLeaves
<1> QED
  BY <1>2, <1>3, <1>4, <1>5, InvocationRecord DEF TypeOK, OtherType, SessionType, TaskType

LEMMA TurnPlannedType ==
    ASSUME TypeOK, StepInv, TurnInv, TurnPlanned
    PROVE  TypeOK'
<1>1. RestType /\ Shape(inv) /\ Fields(inv)
  BY Types
<1>2. Shape(inv') /\ Fields(inv')
  BY <1>1, NoInvocationType, InvocationRecord, Bounds, Room DEF TurnPlanned, Goes, Ends, At, Completes, Fields, Shape, PCs, SetBranch, TurnOver, TaskLeaves
<1>3. OtherType'
  BY <1>1, Bounds, Room DEF TurnPlanned, Goes, Ends, At, Completes, RestType, OtherType, Status, Terminal, SetBranch, client, TaskLeaves
<1>4. SessionType'
  BY <1>1, Bounds, Room, CallTypes, CallsTypes DEF TurnPlanned, Goes, Ends, At, Completes, Fields, RestType, SessionType, SetBranch, TaskLeaves
<1>5. TaskType'
  <2>1. Independent \subseteq Call
    BY CallsTypes DEF TurnPlanned, At, InTurn, Independent, Planned
  <2>2. task' \in [Call -> {"none", "pending", "running"} \cup Ended]
    BY <1>1 DEF TurnPlanned, RestType, Ended
  <2> QED
    BY <2>1, <2>2 DEF TurnPlanned, TaskType
<1> QED
  BY <1>2, <1>3, <1>4, <1>5, InvocationRecord DEF TypeOK, OtherType, SessionType, TaskType

LEMMA GatherEndsType ==
    ASSUME TypeOK, StepInv, TurnInv, GatherEnds
    PROVE  TypeOK'
<1>1. RestType /\ Shape(inv) /\ Fields(inv)
  BY Types
<1>2. Shape(inv') /\ Fields(inv')
  <2> DEFINE i == [inv EXCEPT !.thrown = {}]
  <2>1. Shape(i) /\ Fields(i)
    BY <1>1 DEF Shape, Fields
  <2>2. (\E pc \in PCs : Goes(i, pc)) \/ (\E st \in Status : Ends(st)) \/ inv' = inv
    BY <1>1 DEF GatherEnds, PCs, Completes, Terminal, Status, RestType, TurnOver
  <2> HIDE DEF i
  <2> QED
    BY <1>1, <2>1, <2>2, GoesOn, Ending
<1>3. OtherType'
  BY <1>1, Bounds, Room DEF GatherEnds, Goes, Ends, At, Completes, RestType, OtherType, Status, Terminal, SetBranch, client, TaskLeaves
<1>4. SessionType'
  BY <1>1, Bounds, Room, CallTypes, CallsTypes DEF GatherEnds, Goes, Ends, At, Completes, Fields, RestType, SessionType, SetBranch, TaskLeaves
<1>5. TaskType'
  BY <1>1, Bounds, CallTypes, CallsTypes, FastTaskType DEF GatherEnds, Goes, Ends, At, Completes, RestType, TaskType, Ended, SetBranch, TaskLeaves
<1> QED
  BY <1>2, <1>3, <1>4, <1>5, InvocationRecord DEF TypeOK, OtherType, SessionType, TaskType

LEMMA SerialNextType ==
    ASSUME TypeOK, StepInv, TurnInv, SerialNext
    PROVE  TypeOK'
<1>1. RestType /\ Shape(inv) /\ Fields(inv)
  BY Types
<1>2. Shape(inv') /\ Fields(inv')
  BY <1>1, NoInvocationType, InvocationRecord, Bounds, Room DEF SerialNext, Goes, Ends, At, Completes, Fields, Shape, PCs, SetBranch, TurnOver, TaskLeaves
<1>3. OtherType'
  BY <1>1 DEF SerialNext, Launches, RestType, OtherType, client, Status
<1>4. SessionType'
  BY <1>1, Bounds, Room, CallTypes, CallsTypes DEF SerialNext, Goes, Ends, At, Completes, Fields, RestType, SessionType, SetBranch, TaskLeaves
<1>5. TaskType'
  <2> DEFINE left == {c \in Dependent : task[c] = "pending"}
  <2>1. left # {} => Earliest(left) \in Call
    BY CallsTypes, EarliestOf DEF SerialNext, At, InTurn, Dependent, Planned
  <2>2. Launches(IF left = {} THEN {} ELSE {Earliest(left)})
    BY DEF SerialNext
  <2> HIDE DEF left
  <2> QED
    BY <1>1, <2>1, <2>2 DEF Launches, RestType, TaskType
<1> QED
  BY <1>2, <1>3, <1>4, <1>5, InvocationRecord DEF TypeOK, OtherType, SessionType, TaskType

LEMMA SerialThrowsType ==
    ASSUME TypeOK, StepInv, TurnInv, SerialThrows
    PROVE  TypeOK'
<1>1. RestType /\ Shape(inv) /\ Fields(inv)
  BY Types
<1>2. Shape(inv') /\ Fields(inv')
  <2> DEFINE i == [inv EXCEPT !.turn = <<>>, !.thrown = {}]
  <2>1. Shape(i) /\ Fields(i)
    BY <1>1 DEF Shape, Fields
  <2>2. (\E pc \in PCs : Goes(i, pc)) \/ (\E st \in Status : Ends(st)) \/ inv' = inv
    BY <1>1 DEF SerialThrows, PCs, Completes, Terminal, Status, RestType, TurnOver
  <2> HIDE DEF i
  <2> QED
    BY <1>1, <2>1, <2>2, GoesOn, Ending
<1>3. OtherType'
  BY <1>1, Bounds, Room DEF SerialThrows, Goes, Ends, At, Completes, RestType, OtherType, Status, Terminal, SetBranch, client, TaskLeaves
<1>4. SessionType'
  BY <1>1, Bounds, Room, CallTypes, CallsTypes DEF SerialThrows, Goes, Ends, At, Completes, Fields, RestType, SessionType, SetBranch, TaskLeaves
<1>5. TaskType'
  BY <1>1, Bounds, CallTypes, CallsTypes, FastTaskType DEF SerialThrows, Goes, Ends, At, Completes, RestType, TaskType, Ended, SetBranch, TaskLeaves
<1> QED
  BY <1>2, <1>3, <1>4, <1>5, InvocationRecord DEF TypeOK, OtherType, SessionType, TaskType

LEMMA TurnAnsweredType ==
    ASSUME TypeOK, StepInv, TurnInv, TurnAnswered
    PROVE  TypeOK'
<1>1. RestType /\ Shape(inv) /\ Fields(inv)
  BY Types
<1>2. Shape(inv') /\ Fields(inv')
  BY <1>1, NoInvocationType, InvocationRecord, Bounds, Room DEF TurnAnswered, Goes, Ends, At, Completes, Fields, Shape, PCs, SetBranch, TurnOver, TaskLeaves
<1>3. OtherType'
  BY <1>1, Bounds, Room DEF TurnAnswered, Goes, Ends, At, Completes, RestType, OtherType, Status, Terminal, SetBranch, client, TaskLeaves
<1>4. SessionType'
  BY <1>1, Bounds, Room, CallTypes, CallsTypes DEF TurnAnswered, Goes, Ends, At, Completes, Fields, RestType, SessionType, SetBranch, TaskLeaves
<1>5. TaskType'
  BY <1>1, Bounds, CallTypes, CallsTypes, FastTaskType DEF TurnAnswered, Goes, Ends, At, Completes, RestType, TaskType, Ended, SetBranch, TaskLeaves
<1> QED
  BY <1>2, <1>3, <1>4, <1>5, InvocationRecord DEF TypeOK, OtherType, SessionType, TaskType

LEMMA TaskEndsType ==
    ASSUME TypeOK, StepInv, TurnInv, NEW c \in Call, NEW how \in Outcome, NEW asked \in BOOLEAN, TaskEnds(c, how, asked)
    PROVE  TypeOK'
<1>1. RestType /\ Shape(inv) /\ Fields(inv)
  BY Types
<1>2. Shape(inv') /\ Fields(inv')
  BY <1>1, NoInvocationType, InvocationRecord, Bounds, Room DEF TaskEnds, Goes, Ends, At, Completes, Fields, Shape, PCs, SetBranch, TurnOver, TaskLeaves
<1>3. OtherType'
  <2>1. WaitsForAnswer(NoCall) \in [state : {"none", "pending", "answered"}, call : Call \cup {NoCall}]
    BY DEF WaitsForAnswer
  <2> QED
    BY <1>1, <2>1 DEF TaskEnds, TaskLeaves, RestType, OtherType, client, Status, Terminal, Ends
<1>4. SessionType'
  BY <1>1, Bounds, Room, CallTypes, CallsTypes DEF TaskEnds, Goes, Ends, At, Completes, Fields, RestType, SessionType, SetBranch, TaskLeaves
<1>5. TaskType'
  <2>1. StatusOf(how) \in Ended
    BY DEF StatusOf, Ended
  <2> QED
    BY <1>1, <2>1 DEF TaskEnds, TaskLeaves, RestType, TaskType
<1> QED
  BY <1>2, <1>3, <1>4, <1>5, InvocationRecord DEF TypeOK, OtherType, SessionType, TaskType

LEMMA LocalTaskEndsType ==
    ASSUME TypeOK, StepInv, TurnInv, NEW c \in Call, NEW how \in Outcome, NEW asked \in BOOLEAN, LocalTaskEnds(c, how, asked)
    PROVE  TypeOK'
<1>1. RestType /\ Shape(inv) /\ Fields(inv)
  BY Types
<1>2. Shape(inv') /\ Fields(inv')
  <2>1. UNCHANGED inv \/ Ends("failed")
    BY DEF LocalTaskEnds
  <2> QED
    BY <1>1, <2>1, Ending DEF Shape, Fields
<1>3. OtherType'
  <2>1. WaitsForAnswer(NoCall) \in [state : {"none", "pending", "answered"}, call : Call \cup {NoCall}]
    BY DEF WaitsForAnswer
  <2> QED
    BY <1>1, <2>1 DEF LocalTaskEnds, TaskLeaves, RestType, OtherType, client, Status, Terminal, Ends
<1>4. SessionType'
  BY <1>1, Bounds, Room, CallTypes, CallsTypes DEF LocalTaskEnds, Goes, Ends, At, Completes, Fields, RestType, SessionType, SetBranch, TaskLeaves
<1>5. TaskType'
  <2>1. StatusOf(how) \in Ended
    BY DEF StatusOf, Ended
  <2> QED
    BY <1>1, <2>1 DEF LocalTaskEnds, TaskLeaves, RestType, TaskType
<1> QED
  BY <1>2, <1>3, <1>4, <1>5, InvocationRecord DEF TypeOK, OtherType, SessionType, TaskType

LEMMA FallsBackType ==
    ASSUME TypeOK, StepInv, TurnInv, FallsBack
    PROVE  TypeOK'
<1>1. RestType /\ Shape(inv) /\ Fields(inv)
  BY Types
<1>2. Shape(inv') /\ Fields(inv')
  <2>1. inv' = [inv EXCEPT !.pc = "local"] \/ Ends("completed")
    BY DEF FallsBack
  <2> QED
    BY <1>1, <2>1, Ending DEF Shape, Fields, PCs
<1>3. OtherType'
  BY <1>1, Bounds, Room DEF FallsBack, Goes, Ends, At, Completes, RestType, OtherType, Status, Terminal, SetBranch, client, TaskLeaves
<1>4. SessionType'
  BY <1>1, Bounds, Room, CallTypes, CallsTypes DEF FallsBack, Goes, Ends, At, Completes, Fields, RestType, SessionType, SetBranch, TaskLeaves
<1>5. TaskType'
  BY <1>1, Bounds, CallTypes, CallsTypes, FastTaskType DEF FallsBack, Goes, Ends, At, Completes, RestType, TaskType, Ended, SetBranch, TaskLeaves
<1> QED
  BY <1>2, <1>3, <1>4, <1>5, InvocationRecord DEF TypeOK, OtherType, SessionType, TaskType

LEMMA LocalLaunchesType ==
    ASSUME TypeOK, StepInv, TurnInv, NEW c \in Call, LocalLaunches(c)
    PROVE  TypeOK'
<1>1. RestType /\ Shape(inv) /\ Fields(inv)
  BY Types
<1>2. Shape(inv') /\ Fields(inv')
  BY <1>1, NoInvocationType, InvocationRecord, Bounds, Room DEF LocalLaunches, Goes, Ends, At, Completes, Fields, Shape, PCs, SetBranch, TurnOver, TaskLeaves
<1>3. OtherType'
  BY <1>1 DEF LocalLaunches, Launches, RestType, OtherType, client, Status
<1>4. SessionType'
  BY <1>1, Bounds, Room, CallTypes, CallsTypes DEF LocalLaunches, Goes, Ends, At, Completes, Fields, RestType, SessionType, SetBranch, TaskLeaves
<1>5. TaskType'
  BY <1>1 DEF LocalLaunches, Launches, RestType, TaskType
<1> QED
  BY <1>2, <1>3, <1>4, <1>5, InvocationRecord DEF TypeOK, OtherType, SessionType, TaskType

LEMMA LocalEndsType ==
    ASSUME TypeOK, StepInv, TurnInv, LocalEnds
    PROVE  TypeOK'
<1>1. RestType /\ Shape(inv) /\ Fields(inv)
  BY Types
<1>2. Shape(inv') /\ Fields(inv')
  BY <1>1, NoInvocationType, InvocationRecord, Bounds, Room DEF LocalEnds, Goes, Ends, At, Completes, Fields, Shape, PCs, SetBranch, TurnOver, TaskLeaves
<1>3. OtherType'
  BY <1>1, Bounds, Room DEF LocalEnds, Goes, Ends, At, Completes, RestType, OtherType, Status, Terminal, SetBranch, client, TaskLeaves
<1>4. SessionType'
  BY <1>1, Bounds, Room, CallTypes, CallsTypes DEF LocalEnds, Goes, Ends, At, Completes, Fields, RestType, SessionType, SetBranch, TaskLeaves
<1>5. TaskType'
  BY <1>1, Bounds, CallTypes, CallsTypes, FastTaskType DEF LocalEnds, Goes, Ends, At, Completes, RestType, TaskType, Ended, SetBranch, TaskLeaves
<1> QED
  BY <1>2, <1>3, <1>4, <1>5, InvocationRecord DEF TypeOK, OtherType, SessionType, TaskType

LEMMA PipeCancelledType ==
    ASSUME TypeOK, StepInv, TurnInv, PipeCancelled
    PROVE  TypeOK'
<1>1. RestType /\ Shape(inv) /\ Fields(inv)
  BY Types
<1>2. Shape(inv') /\ Fields(inv')
  BY <1>1, NoInvocationType, InvocationRecord, Bounds, Room DEF PipeCancelled, Goes, Ends, At, Completes, Fields, Shape, PCs, SetBranch, TurnOver, TaskLeaves
<1>3. OtherType'
  BY <1>1, Bounds, Room DEF PipeCancelled, Goes, Ends, At, Completes, RestType, OtherType, Status, Terminal, SetBranch, client, TaskLeaves
<1>4. SessionType'
  BY <1>1, Bounds, Room, CallTypes, CallsTypes DEF PipeCancelled, Goes, Ends, At, Completes, Fields, RestType, SessionType, SetBranch, TaskLeaves
<1>5. TaskType'
  BY <1>1, Bounds, CallTypes, CallsTypes, FastTaskType DEF PipeCancelled, Goes, Ends, At, Completes, RestType, TaskType, Ended, SetBranch, TaskLeaves
<1> QED
  BY <1>2, <1>3, <1>4, <1>5, InvocationRecord DEF TypeOK, OtherType, SessionType, TaskType

LEMMA CancelRunType ==
    ASSUME TypeOK, StepInv, TurnInv, CancelRun
    PROVE  TypeOK'
<1>1. RestType /\ Shape(inv) /\ Fields(inv)
  BY Types
<1>2. Shape(inv') /\ Fields(inv')
  BY <1>1, NoInvocationType, InvocationRecord, Bounds, Room DEF CancelRun, Goes, Ends, At, Completes, Fields, Shape, PCs, SetBranch, TurnOver, TaskLeaves
<1>3. OtherType'
  BY <1>1, Bounds, Room DEF CancelRun, Goes, Ends, At, Completes, RestType, OtherType, Status, Terminal, SetBranch, client, TaskLeaves
<1>4. SessionType'
  BY <1>1, Bounds, Room, CallTypes, CallsTypes DEF CancelRun, Goes, Ends, At, Completes, Fields, RestType, SessionType, SetBranch, TaskLeaves
<1>5. TaskType'
  BY <1>1, Bounds, CallTypes, CallsTypes, FastTaskType DEF CancelRun, Goes, Ends, At, Completes, RestType, TaskType, Ended, SetBranch, TaskLeaves
<1> QED
  BY <1>2, <1>3, <1>4, <1>5, InvocationRecord DEF TypeOK, OtherType, SessionType, TaskType

LEMMA ReplyType ==
    ASSUME TypeOK, StepInv, TurnInv, Reply
    PROVE  TypeOK'
<1>1. RestType /\ Shape(inv) /\ Fields(inv)
  BY Types
<1>2. Shape(inv') /\ Fields(inv')
  BY <1>1, NoInvocationType, InvocationRecord, Bounds, Room DEF Reply, Goes, Ends, At, Completes, Fields, Shape, PCs, SetBranch, TurnOver, TaskLeaves
<1>3. OtherType'
  <2>1. handoff' \in [state : {"none", "pending", "answered"}, call : Call \cup {NoCall}]
    BY <1>1 DEF Reply, RestType
  <2> QED
    BY <1>1, <2>1, Bounds DEF Reply, RestType, OtherType, Status
<1>4. SessionType'
  BY <1>1, Bounds, Room, CallTypes, CallsTypes DEF Reply, Goes, Ends, At, Completes, Fields, RestType, SessionType, SetBranch, TaskLeaves
<1>5. TaskType'
  BY <1>1, Bounds, CallTypes, CallsTypes, FastTaskType DEF Reply, Goes, Ends, At, Completes, RestType, TaskType, Ended, SetBranch, TaskLeaves
<1> QED
  BY <1>2, <1>3, <1>4, <1>5, InvocationRecord DEF TypeOK, OtherType, SessionType, TaskType

LEMMA ResumeType ==
    ASSUME TypeOK, StepInv, TurnInv, Resume
    PROVE  TypeOK'
<1>1. RestType /\ Shape(inv) /\ Fields(inv)
  BY Types
<1>2. Shape(inv') /\ Fields(inv')
  <2>1. UNCHANGED inv \/ inv' = [inv EXCEPT !.pc = "start"]
    BY DEF Resume
  <2> QED
    BY <1>1, <2>1 DEF Shape, Fields, PCs
<1>3. OtherType'
  <2>1. NoQuestion \in [state : {"none", "pending", "answered"}, call : Call \cup {NoCall}]
    BY DEF NoQuestion
  <2> QED
    BY <1>1, <2>1, Bounds DEF Resume, RestType, OtherType
<1>4. SessionType'
  BY <1>1, Bounds, Room, CallTypes, CallsTypes DEF Resume, Goes, Ends, At, Completes, Fields, RestType, SessionType, SetBranch, TaskLeaves
<1>5. TaskType'
  BY <1>1, Bounds, CallTypes, CallsTypes, FastTaskType DEF Resume, Goes, Ends, At, Completes, RestType, TaskType, Ended, SetBranch, TaskLeaves
<1> QED
  BY <1>2, <1>3, <1>4, <1>5, InvocationRecord DEF TypeOK, OtherType, SessionType, TaskType

LEMMA TypeInit == Init => TypeOK /\ StepInv /\ TurnInv
<1> SUFFICES ASSUME Init PROVE TypeOK /\ StepInv /\ TurnInv
  OBVIOUS
<1>1. inv = [NoInvocation EXCEPT !.pc = "start"] /\ Shape(NoInvocation) /\ Fields(NoInvocation)
  BY NoInvocationType, InvocationRecord DEF Init
<1>2. Shape(inv) /\ Fields(inv) /\ inv.pc = "start"
  BY <1>1 DEF Shape, Fields, PCs
<1>3. RestType
  <2>1. 0 \in 0 .. LastStep /\ 0 \in 0 .. MaxReplies /\ 0 \in 0 .. MaxResumes /\ 0 \in 0 .. 2
    BY Bounds, Room
  <2>2. SessionType
    BY <2>1 DEF Init, SessionType
  <2>3. TaskType
    BY DEF Init, TaskType
  <2>4. OtherType
    BY <2>1 DEF Init, OtherType, Status, NoQuestion
  <2> QED
    BY <2>2, <2>3, <2>4 DEF RestType, SessionType, TaskType, OtherType
<1>4. StepInv /\ TurnInv
  BY <1>2, <1>3, Bounds DEF Init, RestType, StepInv, TurnInv, InTurn
<1> QED
  BY <1>2, <1>3, <1>4, Types

----------------------------------------------------------------------------
(* What the steps that rebuild the invocation make of its fields *)

Names == {"pc", "start", "step", "turn", "open", "thrown", "group", "stop", "branch", "question", "spent"}
Keeps(names) == \A f \in Names \ names : inv'[f] = inv[f]

LEMMA PipeStartsMoves ==
    ASSUME TypeOK, PipeStarts
    PROVE  /\ inv'.pc \in {"head", "fast"} /\ inv'.start = session.step /\ inv'.step = session.step
           /\ inv'.open = session.open /\ inv'.turn = <<>> /\ inv'.thrown = {}
           /\ inv'.question = FreshConfig /\ inv'.branch = [b \in Branch |-> "none"]
           /\ inv.pc = "start" /\ UNCHANGED <<session, resumes>>
           /\ \/ inv'.pc = "head" /\ UNCHANGED <<task, running>>
              \/ /\ inv'.pc = "fast" /\ session.step = 0 /\ running' = {FastTask}
                 /\ task' = [task EXCEPT ![FastTask] = "running"]
<1> DEFINE new == [NoInvocation EXCEPT !.start = session.step, !.step = session.step,
                                       !.open = session.open]
<1>1. \/ inv' = [new EXCEPT !.pc = "head"] /\ UNCHANGED <<task, running>>
      \/ /\ inv' = [new EXCEPT !.pc = "fast"] /\ session.step = 0 /\ running' = {FastTask}
         /\ task' = [task EXCEPT ![FastTask] = "running"]
  BY DEF PipeStarts
<1>2. /\ Shape(new) /\ new.start = session.step /\ new.step = session.step /\ new.open = session.open
      /\ new.turn = <<>> /\ new.thrown = {} /\ new.question = FreshConfig
      /\ new.branch = [b \in Branch |-> "none"]
  BY NewInvocation
<1> HIDE DEF new
<1> QED
  BY <1>1, <1>2 DEF Shape, PipeStarts, At, client

LEMMA StepBeginsMoves ==
    ASSUME TypeOK, StepBegins
    PROVE  /\ inv.pc = "head" /\ inv.step < inv.start + MaxSteps
           /\ inv'.pc \in {"fallback", "ask"} /\ inv'.step = inv.step + 1
           /\ Keeps({"pc", "step", "question"})
           /\ inv'.question \in {inv.question, Asked(inv.question)}
           /\ session'.step = inv.step + 1 /\ session'.open = session.open
           /\ UNCHANGED <<handoff, task, running, resumes>>
<1>1. Shape(inv) /\ RestType
  BY Types
<1> DEFINE next == [inv EXCEPT !.step = @ + 1]
<1>2. /\ Shape(next) /\ next.step = inv.step + 1 /\ next.question = inv.question
      /\ \A f \in Names \ {"step"} : next[f] = inv[f]
  BY <1>1 DEF Shape, Names
<1>3. inv' \in {[next EXCEPT !.pc = "fallback"], [[next EXCEPT !.question = Asked(@)] EXCEPT !.pc = "ask"]}
  BY DEF StepBegins, Goes
<1> HIDE DEF next
<1>4. /\ inv'.pc \in {"fallback", "ask"} /\ inv'.step = inv.step + 1
      /\ inv'.question \in {inv.question, Asked(inv.question)}
      /\ \A f \in Names \ {"pc", "question"} : inv'[f] = next[f]
  BY <1>2, <1>3 DEF Shape, Names
<1>5. Keeps({"pc", "step", "question"})
  BY <1>2, <1>4 DEF Keeps, Names
<1> QED
  BY <1>1, <1>4, <1>5 DEF StepBegins, At, RestType, client

LEMMA PostFailsMoves ==
    ASSUME TypeOK, NEW e \in PostError, PostFails(e)
    PROVE  /\ inv.pc = "ask" /\ UNCHANGED <<handoff, task, running, resumes>>
           /\ \/ Completes
              \/ /\ Keeps({"question"}) /\ inv'.question = Reposted(inv.question, e)
                 /\ ~GivesUp(inv.question, e) /\ UNCHANGED session
<1>1. Shape(inv)
  BY Types
<1>2. CASE GivesUp(inv.question, e)
  BY <1>2 DEF PostFails, At, client
<1>3. CASE ~GivesUp(inv.question, e)
  <2> DEFINE asked == [inv EXCEPT !.question = Reposted(@, e)]
  <2>1. inv' = [asked EXCEPT !.pc = "ask"] /\ inv.pc = "ask" /\ UNCHANGED <<session, handoff, task, running, resumes>>
    BY <1>3 DEF PostFails, Goes, At, client
  <2>2. /\ Shape(asked) /\ asked.question = Reposted(inv.question, e)
        /\ \A f \in Names \ {"question"} : asked[f] = inv[f]
    BY <1>1 DEF Shape, Names
  <2> HIDE DEF asked
  <2>3. Keeps({"question"}) /\ inv'.question = Reposted(inv.question, e)
    BY <2>1, <2>2 DEF Keeps, Names, Shape
  <2> QED
    BY <1>3, <2>1, <2>3
<1> QED
  BY <1>2, <1>3

LEMMA OverMoves ==
    ASSUME TypeOK, ModelSays \/ PostEscapes
    PROVE  /\ inv.pc = "ask" /\ UNCHANGED <<handoff, task, running, resumes>>
           /\ \/ Completes
              \/ /\ Keeps({"pc", "question", "spent"}) /\ inv'.pc = "fallback"
                 /\ inv'.question = Over(inv.question) /\ UNCHANGED session
<1>1. Shape(inv)
  BY Types
<1> DEFINE mute == [inv EXCEPT !.question = Over(@), !.spent = TRUE]
           over == [inv EXCEPT !.question = Over(@)]
<1>2. /\ inv.pc = "ask" /\ UNCHANGED <<handoff, task, running, resumes>>
      /\ \/ Completes
         \/ inv' \in {[mute EXCEPT !.pc = "fallback"], [over EXCEPT !.pc = "fallback"]} /\ UNCHANGED session
  BY DEF ModelSays, PostEscapes, Goes, At, client
<1>3. /\ Shape(mute) /\ mute.question = Over(inv.question)
      /\ \A f \in Names \ {"question", "spent"} : mute[f] = inv[f]
      /\ Shape(over) /\ over.question = Over(inv.question)
      /\ \A f \in Names \ {"question"} : over[f] = inv[f]
  BY <1>1 DEF Shape, Names
<1> HIDE DEF mute, over
<1>4. ASSUME inv' \in {[mute EXCEPT !.pc = "fallback"], [over EXCEPT !.pc = "fallback"]}
      PROVE  /\ Keeps({"pc", "question", "spent"}) /\ inv'.pc = "fallback"
             /\ inv'.question = Over(inv.question)
  BY <1>3, <1>4 DEF Keeps, Names, Shape
<1> QED
  BY <1>2, <1>4

LEMMA ModelCallsMoves ==
    ASSUME TypeOK, NEW t \in Turns, ModelCalls(t)
    PROVE  /\ inv.pc = "ask" /\ inv.step <= MaxTurns /\ UNCHANGED <<task, running, resumes>>
           /\ session' = [step |-> inv.step, open |-> inv.open \cup {AtCall(i) : i \in DOMAIN t}]
           /\ \/ Ends("awaiting_input")
              \/ /\ Keeps({"pc", "turn", "open", "question", "spent"}) /\ inv'.pc \in {"subs", "plan"}
                 /\ inv'.turn = t /\ inv'.open = inv.open \cup {AtCall(i) : i \in DOMAIN t}
                 /\ inv'.question = Over(inv.question)
                 /\ \A i \in DOMAIN t : t[i] # "ask"
                 /\ inv'.pc = "plan" => \A i \in DOMAIN t : t[i] # "sub"
<1>1. Shape(inv)
  BY Types
<1> DEFINE open == inv.open \cup {AtCall(i) : i \in DOMAIN t}
           taken == [inv EXCEPT !.turn = t, !.open = open, !.question = Over(@), !.spent = TRUE]
<1>2. /\ inv.pc = "ask" /\ inv.step <= MaxTurns /\ UNCHANGED <<task, running, resumes>>
      /\ session' = [step |-> inv.step, open |-> open]
      /\ \/ Ends("awaiting_input")
         \/ /\ \A i \in DOMAIN t : t[i] # "ask"
            /\ \/ inv' = [taken EXCEPT !.pc = "subs"]
               \/ inv' = [taken EXCEPT !.pc = "plan"] /\ \A i \in DOMAIN t : t[i] # "sub"
  <2> DEFINE asks == {AtCall(i) : i \in {j \in DOMAIN t : t[j] = "ask"}}
  <2>1. asks = {} => \A i \in DOMAIN t : t[i] # "ask"
    OBVIOUS
  <2>2. IF asks # {} THEN Ends("awaiting_input")
                     ELSE Goes(taken, IF \E i \in DOMAIN t : t[i] = "sub" THEN "subs" ELSE "plan")
    BY DEF ModelCalls
  <2>3. /\ inv.pc = "ask" /\ inv.step <= MaxTurns /\ UNCHANGED <<task, running, resumes>>
        /\ session' = [step |-> inv.step, open |-> open]
    BY DEF ModelCalls, At, client
  <2> HIDE DEF asks, taken
  <2> QED
    BY <2>1, <2>2, <2>3 DEF Goes
<1>3. /\ Shape(taken) /\ taken.turn = t /\ taken.open = open /\ taken.question = Over(inv.question)
      /\ \A f \in Names \ {"turn", "open", "question", "spent"} : taken[f] = inv[f]
  BY <1>1 DEF Shape, Names
<1> HIDE DEF taken, open
<1>4. ASSUME NEW q \in {"subs", "plan"}, inv' = [taken EXCEPT !.pc = q]
      PROVE  /\ Keeps({"pc", "turn", "open", "question", "spent"}) /\ inv'.pc = q
             /\ inv'.turn = t /\ inv'.open = open /\ inv'.question = Over(inv.question)
  BY <1>3, <1>4 DEF Keeps, Names, Shape
<1>5. CASE Ends("awaiting_input")
  BY <1>2, <1>5 DEF open
<1>6. CASE \A i \in DOMAIN t : t[i] # "ask"
  BY <1>2, <1>4, <1>6 DEF open
<1> QED
  BY <1>2, <1>5, <1>6

LEMMA SubBeginsMoves ==
    ASSUME TypeOK, NEW stop \in BOOLEAN, SubBegins(stop)
    PROVE  /\ inv.pc = "subs" /\ inv'.pc \in {"branches", "subs"} /\ Keeps({"pc", "group", "stop", "branch"})
           /\ inv'.pc = "subs" => inv'.branch = [b \in Branch |-> "none"]
           /\ UNCHANGED <<handoff, session, task, running, resumes>>
<1>1. Shape(inv)
  BY Types
<1> DEFINE sub == [inv EXCEPT !.group = Earliest(SubsLeft), !.stop = stop]
<1>2. \/ inv' = [[sub EXCEPT !.branch = [b \in Branch |-> "waiting"]] EXCEPT !.pc = "branches"]
      \/ inv' = [[sub EXCEPT !.branch = [b \in Branch |-> "none"]] EXCEPT !.pc = "subs"]
  BY DEF SubBegins, Goes
<1>3. Shape(sub) /\ \A f \in Names \ {"group", "stop"} : sub[f] = inv[f]
  BY <1>1 DEF Shape, Names
<1> HIDE DEF sub
<1>4. /\ inv'.pc \in {"branches", "subs"}
      /\ inv'.pc = "subs" => inv'.branch = [b \in Branch |-> "none"]
      /\ \A f \in Names \ {"pc", "branch"} : inv'[f] = sub[f]
  BY <1>2, <1>3 DEF Shape, Names
<1> QED
  BY <1>3, <1>4 DEF Keeps, Names, SubBegins, At, client

LEMMA SetBranchMoves ==
    ASSUME TypeOK, NEW b \in Branch, BranchStarts(b) \/ BranchEnds(b)
    PROVE  /\ inv.pc = "branches" /\ inv'.pc = "branches" /\ Keeps({"branch"})
           /\ UNCHANGED <<handoff, session, task, running, resumes>>
<1>1. Shape(inv)
  BY Types
<1>2. PICK st \in BranchStatus : SetBranch(b, st)
  BY DEF BranchStarts, BranchEnds, BranchStatus
<1> DEFINE set == [inv EXCEPT !.branch[b] = st]
<1>3. Shape(set) /\ \A f \in Names \ {"branch"} : set[f] = inv[f]
  BY <1>1 DEF Shape, Names
<1>4. inv' = [set EXCEPT !.pc = "branches"]
  BY <1>2 DEF SetBranch, Goes
<1> HIDE DEF set
<1>5. inv.pc = "branches" /\ UNCHANGED <<handoff, session, task, running, resumes>>
  BY DEF BranchStarts, BranchEnds, At, client
<1> QED
  BY <1>3, <1>4, <1>5 DEF Shape, Keeps, Names

LEMMA SubsAnsweredMoves ==
    ASSUME TypeOK, SubsAnswered
    PROVE  /\ inv.pc = "subs" /\ Keeps({"pc", "open", "group", "stop", "branch"})
           /\ inv'.pc = IF Calls({"read", "write", "bad"}) = {} THEN "head" ELSE "plan"
           /\ inv'.open = inv.open \ Calls({"sub"}) /\ inv'.branch = [b \in Branch |-> "none"]
           /\ session'.step = session.step /\ session'.open = inv.open \ Calls({"sub"})
           /\ UNCHANGED <<handoff, task, running, resumes>>
<1>1. Shape(inv) /\ RestType
  BY Types
<1> DEFINE answered == [inv EXCEPT !.open = inv.open \ Calls({"sub"}), !.group = NoCall, !.stop = FALSE,
                                   !.branch = NoInvocation.branch]
<1>2. inv' = [answered EXCEPT !.pc = IF Calls({"read", "write", "bad"}) = {} THEN "head" ELSE "plan"]
  BY DEF SubsAnswered, Goes
<1>3. /\ Shape(answered) /\ answered.open = inv.open \ Calls({"sub"})
      /\ answered.branch = NoInvocation.branch
      /\ \A f \in Names \ {"open", "group", "stop", "branch"} : answered[f] = inv[f]
  BY <1>1 DEF Shape, Names
<1> HIDE DEF answered
<1>4. session' = [session EXCEPT !.open = inv.open \ Calls({"sub"})]
  BY DEF SubsAnswered
<1>5. session'.step = session.step /\ session'.open = inv.open \ Calls({"sub"})
  BY <1>1, <1>4 DEF RestType
<1>6. inv.pc = "subs" /\ UNCHANGED <<handoff, task, running, resumes>>
  BY DEF SubsAnswered, At, client
<1> QED
  BY <1>2, <1>3, <1>5, <1>6, NoInvocationType DEF Shape, Keeps, Names

LEMMA TurnPlannedMoves ==
    ASSUME TypeOK, TurnPlanned
    PROVE  /\ inv.pc = "plan" /\ Keeps({"pc", "open"})
           /\ inv'.pc = IF Independent = {} THEN "serial" ELSE "gather"
           /\ inv'.open = inv.open \ Invalid /\ running' = Independent
           /\ session'.step = session.step
           /\ session'.open = session.open \ {c \in Invalid : \E d \in Planned : c[2] < d[2]}
           /\ UNCHANGED <<handoff, resumes>>
<1>1. Shape(inv) /\ RestType
  BY Types
<1>2. inv' = [inv EXCEPT !.open = @ \ Invalid, !.pc = IF Independent = {} THEN "serial" ELSE "gather"]
  BY DEF TurnPlanned
<1>3. /\ Keeps({"pc", "open"}) /\ inv'.open = inv.open \ Invalid
      /\ inv'.pc = IF Independent = {} THEN "serial" ELSE "gather"
  BY <1>1, <1>2 DEF Shape, Keeps, Names
<1>4. session' = [session EXCEPT !.open = @ \ {c \in Invalid : \E d \in Planned : c[2] < d[2]}]
  BY DEF TurnPlanned
<1>5. /\ session'.step = session.step
      /\ session'.open = session.open \ {c \in Invalid : \E d \in Planned : c[2] < d[2]}
  BY <1>1, <1>4 DEF RestType
<1> QED
  BY <1>3, <1>5 DEF TurnPlanned, At, client

LEMMA TurnAnsweredMoves ==
    ASSUME TypeOK, TurnAnswered
    PROVE  /\ inv.pc = "answer" /\ inv'.pc = "head" /\ Keeps({"pc", "open", "turn", "thrown"})
           /\ inv'.open = inv.open \ Planned /\ inv'.thrown = {}
           /\ session'.step = session.step
           /\ session'.open = IF Planned = {} THEN session.open ELSE inv.open \ Planned
           /\ UNCHANGED <<handoff, task, running, resumes>>
<1>1. Shape(inv) /\ RestType
  BY Types
<1>2. inv' = [[TurnOver EXCEPT !.open = inv.open \ Planned] EXCEPT !.pc = "head"]
  BY DEF TurnAnswered, Goes
<1>3. Shape(TurnOver) /\ TurnOver.thrown = {} /\ \A f \in Names \ {"turn", "thrown"} : TurnOver[f] = inv[f]
  BY <1>1 DEF Shape, Names, TurnOver
<1>4. /\ Keeps({"pc", "open", "turn", "thrown"}) /\ inv'.pc = "head" /\ inv'.thrown = {}
      /\ inv'.open = inv.open \ Planned
  BY <1>2, <1>3 DEF Shape, Keeps, Names
<1>5. session' = [session EXCEPT !.open = IF Planned = {} THEN @ ELSE inv.open \ Planned]
  BY DEF TurnAnswered
<1>6. /\ session'.step = session.step
      /\ session'.open = IF Planned = {} THEN session.open ELSE inv.open \ Planned
  BY <1>1, <1>5 DEF RestType
<1> QED
  BY <1>4, <1>6 DEF TurnAnswered, At, client

----------------------------------------------------------------------------
(* The steps and the turn *)

\* The ways in which a step of the system may move the steps of the session and of the invocation.
Active(pc) == pc \notin {"none", "start"}
StepsStay ==
    /\ UNCHANGED resumes /\ session'.step = session.step
    /\ inv'.start = inv.start /\ inv'.step = inv.step
    /\ inv'.pc = inv.pc \/ (Active(inv'.pc) /\ Active(inv.pc) /\ inv'.pc # "ask")
StepsEnd ==
    /\ inv'.pc = "none" /\ UNCHANGED resumes
    /\ session'.step \in {session.step, 1} \/ (Active(inv.pc) /\ session'.step = inv.step)
StepsMove == StepsStay \/ StepsEnd

LEMMA StepsMoves ==
    ASSUME TypeOK, StepInv, Next, ~PipeStarts, ~StepBegins, ~Resume
    PROVE  StepsMove
<1>0. /\ Shape(inv) /\ RestType /\ inv.pc \in PCs
      /\ Active(inv.pc) => session.step = inv.step
  BY Types DEF StepInv, Active, Fields
<1>1. ASSUME FastTaskDone PROVE StepsMove
  BY <1>1, <1>0, Ending DEF FastTaskDone, Goes, Ends, At, Completes, SetBranch, TurnOver, Shape, client, StepsMove, StepsStay, StepsEnd, Active
<1>2. ASSUME FastSummarizes PROVE StepsMove
  BY <1>2, <1>0, Ending DEF FastSummarizes, Goes, Ends, At, Completes, SetBranch, TurnOver, Shape, client, StepsMove, StepsStay, StepsEnd, Active
<1>3. ASSUME OverBudget PROVE StepsMove
  BY <1>3, <1>0, Ending DEF OverBudget, Goes, Ends, At, Completes, SetBranch, TurnOver, Shape, client, StepsMove, StepsStay, StepsEnd, Active
<1>4. ASSUME OutOfSteps PROVE StepsMove
  BY <1>4, <1>0, Ending DEF OutOfSteps, Goes, Ends, At, Completes, SetBranch, TurnOver, Shape, client, StepsMove, StepsStay, StepsEnd, Active
<1>5. ASSUME NEW e \in PostError, PostFails(e) PROVE StepsMove
  BY <1>0, <1>5, PostFailsMoves, Ending DEF Keeps, Names, Completes, StepsMove, StepsStay, StepsEnd, Active
<1>6. ASSUME PostEscapes PROVE StepsMove
  BY <1>6, <1>0, Ending DEF PostEscapes, Goes, Ends, At, Completes, SetBranch, TurnOver, Shape, client, StepsMove, StepsStay, StepsEnd, Active
<1>7. ASSUME ModelSays PROVE StepsMove
  BY <1>0, <1>7, OverMoves, Ending DEF Keeps, Names, Completes, StepsMove, StepsStay, StepsEnd, Active
<1>8. ASSUME NEW t \in Turns, ModelCalls(t) PROVE StepsMove
  <2>1. /\ inv'.start = inv.start /\ inv'.step = inv.step /\ inv'.pc \in {"subs", "plan"}
        \/ Ends("awaiting_input")
    BY <1>0, <1>8 DEF ModelCalls, Goes, Shape
  <2>2. session'.step = inv.step /\ inv.pc = "ask" /\ UNCHANGED resumes
    BY <1>8 DEF ModelCalls, At, client
  <2> QED
    BY <1>0, <2>1, <2>2, Ending DEF StepsMove, StepsStay, StepsEnd, Active
<1>9. ASSUME NEW stop \in BOOLEAN, SubBegins(stop) PROVE StepsMove
  BY <1>9, <1>0, Ending DEF SubBegins, Goes, Ends, At, Completes, SetBranch, TurnOver, Shape, client, StepsMove, StepsStay, StepsEnd, Active
<1>10. ASSUME BranchesStop PROVE StepsMove
  BY <1>10, <1>0, Ending DEF BranchesStop, Goes, Ends, At, Completes, SetBranch, TurnOver, Shape, client, StepsMove, StepsStay, StepsEnd, Active
<1>11. ASSUME SubEnds PROVE StepsMove
  BY <1>11, <1>0, Ending DEF SubEnds, Goes, Ends, At, Completes, SetBranch, TurnOver, Shape, client, StepsMove, StepsStay, StepsEnd, Active
<1>12. ASSUME SubsAnswered PROVE StepsMove
  <2>1. session'.step = session.step
    BY <1>0, <1>12 DEF SubsAnswered, RestType
  <2>2. inv'.start = inv.start /\ inv'.step = inv.step /\ inv'.pc \in {"head", "plan"}
    BY <1>0, <1>12 DEF SubsAnswered, Goes, TurnOver, Shape
  <2> QED
    BY <2>1, <2>2, <1>12 DEF SubsAnswered, At, client, StepsMove, StepsStay, Active
<1>13. ASSUME NEW b \in Branch, BranchStarts(b) PROVE StepsMove
  BY <1>13, <1>0, Ending DEF BranchStarts, Goes, Ends, At, Completes, SetBranch, TurnOver, Shape, client, StepsMove, StepsStay, StepsEnd, Active
<1>14. ASSUME NEW b \in Branch, BranchEnds(b) PROVE StepsMove
  BY <1>14, <1>0, Ending DEF BranchEnds, Goes, Ends, At, Completes, SetBranch, TurnOver, Shape, client, StepsMove, StepsStay, StepsEnd, Active
<1>15. ASSUME TurnPlanned PROVE StepsMove
  <2>1. session'.step = session.step
    BY <1>0, <1>15 DEF TurnPlanned, RestType
  <2>2. inv'.start = inv.start /\ inv'.step = inv.step /\ inv'.pc \in {"serial", "gather"}
    BY <1>0, <1>15 DEF TurnPlanned, Goes, TurnOver, Shape
  <2> QED
    BY <2>1, <2>2, <1>15 DEF TurnPlanned, At, client, StepsMove, StepsStay, Active
<1>16. ASSUME GatherEnds PROVE StepsMove
  BY <1>16, <1>0, Ending DEF GatherEnds, Goes, Ends, At, Completes, SetBranch, TurnOver, Shape, client, StepsMove, StepsStay, StepsEnd, Active
<1>17. ASSUME SerialNext PROVE StepsMove
  BY <1>17, <1>0, Ending DEF SerialNext, Goes, Ends, At, Completes, SetBranch, TurnOver, Shape, client, StepsMove, StepsStay, StepsEnd, Active
<1>18. ASSUME SerialThrows PROVE StepsMove
  BY <1>18, <1>0, Ending DEF SerialThrows, Goes, Ends, At, Completes, SetBranch, TurnOver, Shape, client, StepsMove, StepsStay, StepsEnd, Active
<1>19. ASSUME TurnAnswered PROVE StepsMove
  <2>1. session'.step = session.step
    BY <1>0, <1>19 DEF TurnAnswered, RestType
  <2>2. inv'.start = inv.start /\ inv'.step = inv.step /\ inv'.pc \in {"head"}
    BY <1>0, <1>19 DEF TurnAnswered, Goes, TurnOver, Shape
  <2> QED
    BY <2>1, <2>2, <1>19 DEF TurnAnswered, At, client, StepsMove, StepsStay, Active
<1>20. ASSUME NEW c \in Call, NEW how \in Outcome, NEW asked \in BOOLEAN, TaskEnds(c, how, asked) PROVE StepsMove
  BY <1>20, <1>0, Ending DEF TaskEnds, Goes, Ends, At, Completes, SetBranch, TurnOver, Shape, client, StepsMove, StepsStay, StepsEnd, Active
<1>21. ASSUME NEW c \in Call, NEW how \in Outcome, NEW asked \in BOOLEAN, LocalTaskEnds(c, how, asked) PROVE StepsMove
  BY <1>21, <1>0, Ending DEF LocalTaskEnds, Goes, Ends, At, Completes, SetBranch, TurnOver, Shape, client, StepsMove, StepsStay, StepsEnd, Active
<1>22. ASSUME FallsBack PROVE StepsMove
  BY <1>22, <1>0, Ending DEF FallsBack, Goes, Ends, At, Completes, SetBranch, TurnOver, Shape, client, StepsMove, StepsStay, StepsEnd, Active
<1>23. ASSUME NEW c \in Call, LocalLaunches(c) PROVE StepsMove
  BY <1>23, <1>0, Ending DEF LocalLaunches, Goes, Ends, At, Completes, SetBranch, TurnOver, Shape, client, StepsMove, StepsStay, StepsEnd, Active
<1>24. ASSUME LocalEnds PROVE StepsMove
  BY <1>24, <1>0, Ending DEF LocalEnds, Goes, Ends, At, Completes, SetBranch, TurnOver, Shape, client, StepsMove, StepsStay, StepsEnd, Active
<1>25. ASSUME PipeCancelled PROVE StepsMove
  BY <1>25, <1>0, Ending DEF PipeCancelled, Goes, Ends, At, Completes, SetBranch, TurnOver, Shape, client, StepsMove, StepsStay, StepsEnd, Active
<1>26. ASSUME CancelRun PROVE StepsMove
  BY <1>26, <1>0, Ending DEF CancelRun, Goes, Ends, At, Completes, SetBranch, TurnOver, Shape, client, StepsMove, StepsStay, StepsEnd, Active
<1>27. ASSUME Reply PROVE StepsMove
  BY <1>27, <1>0, Ending DEF Reply, Goes, Ends, At, Completes, SetBranch, TurnOver, Shape, client, StepsMove, StepsStay, StepsEnd, Active
<1> QED
  BY <1>1, <1>2, <1>3, <1>4, <1>5, <1>6, <1>7, <1>8, <1>9, <1>10, <1>11, <1>12, <1>13, <1>14, <1>15, <1>16, <1>17, <1>18, <1>19, <1>20, <1>21, <1>22, <1>23, <1>24, <1>25, <1>26, <1>27 DEF Next, PipeStep

LEMMA StepStep == ASSUME TypeOK, StepInv, Next PROVE StepInv'
<1>1. RestType /\ Shape(inv) /\ Fields(inv)
  BY Types
<1>2. /\ MaxSteps * resumes \in Nat /\ MaxSteps * (1 + resumes) = MaxSteps * resumes + MaxSteps
      /\ MaxSteps * (1 + resumes) \in Nat
  BY <1>1, Room DEF RestType
<1>3. CASE PipeStarts
  <2>1. /\ inv'.pc \in {"head", "fast"} /\ inv'.start = session.step /\ inv'.step = session.step
        /\ inv.pc = "start" /\ UNCHANGED <<session, resumes>>
    BY <1>3, PipeStartsMoves
  <2> QED
    BY <1>1, <1>2, <2>1, Bounds DEF StepInv, RestType
<1>4. CASE StepBegins
  <2>1. /\ inv'.pc \in {"fallback", "ask"} /\ inv'.start = inv.start /\ inv'.step = inv.step + 1
    BY <1>1, <1>4 DEF StepBegins, Goes, Shape
  <2>2. session'.step = inv.step + 1 /\ UNCHANGED resumes
    BY <1>1, <1>4 DEF StepBegins, RestType, client
  <2>3. inv.pc = "head" /\ inv.step < inv.start + MaxSteps
    BY <1>4 DEF StepBegins, At
  <2> QED
    BY <1>1, <1>2, <2>1, <2>2, <2>3, Bounds DEF StepInv, Fields
<1>5. CASE Resume
  <2>1. session'.step = session.step
    BY <1>1, <1>5 DEF Resume, RestType
  <2>2. \/ inv.pc = "none" /\ inv'.pc = "start" /\ resumes' = resumes + 1
        \/ UNCHANGED <<inv, resumes>>
    BY <1>1, <1>5 DEF Resume, Shape
  <2>3. resumes \in Nat /\ resumes + 1 = 1 + resumes
    BY <1>1, Bounds DEF RestType
  <2> QED
    BY <1>1, <2>1, <2>2, <2>3 DEF StepInv
<1>6. CASE ~PipeStarts /\ ~StepBegins /\ ~Resume
  <2>1. StepsMove
    BY <1>6, StepsMoves
  <2>2. CASE StepsStay
    BY <1>1, <2>2 DEF StepsStay, StepInv, Active
  <2>3. CASE StepsEnd
    BY <1>1, <1>2, <2>3, Bounds DEF StepsEnd, StepInv, Active, RestType, Fields
  <2> QED
    BY <2>1, <2>2, <2>3 DEF StepsMove
<1> QED
  BY <1>3, <1>4, <1>5, <1>6

LEMMA TurnStep == ASSUME TypeOK, StepInv, TurnInv, Next PROVE TurnInv'
<1>0. Shape(inv) /\ Fields(inv) /\ RestType
  BY Types
<1>1. ASSUME PipeStarts PROVE TurnInv'
  BY <1>1, PipeStartsMoves DEF TurnInv, InTurn
<1>2. ASSUME FastTaskDone PROVE TurnInv'
  BY <1>2, <1>0, Ending DEF FastTaskDone, Goes, Ends, At, Completes, SetBranch, TurnOver, TaskLeaves, TurnInv, InTurn, Shape
<1>3. ASSUME FastSummarizes PROVE TurnInv'
  BY <1>3, <1>0, Ending DEF FastSummarizes, Goes, Ends, At, Completes, SetBranch, TurnOver, TaskLeaves, TurnInv, InTurn, Shape
<1>4. ASSUME StepBegins PROVE TurnInv'
  BY <1>4, <1>0, Ending DEF StepBegins, Goes, Ends, At, Completes, SetBranch, TurnOver, TaskLeaves, TurnInv, InTurn, Shape
<1>5. ASSUME OverBudget PROVE TurnInv'
  BY <1>5, <1>0, Ending DEF OverBudget, Goes, Ends, At, Completes, SetBranch, TurnOver, TaskLeaves, TurnInv, InTurn, Shape
<1>6. ASSUME OutOfSteps PROVE TurnInv'
  BY <1>6, <1>0, Ending DEF OutOfSteps, Goes, Ends, At, Completes, SetBranch, TurnOver, TaskLeaves, TurnInv, InTurn, Shape
<1>7. ASSUME NEW e \in PostError, PostFails(e) PROVE TurnInv'
  BY <1>7, <1>0, Ending DEF PostFails, Goes, Ends, At, Completes, SetBranch, TurnOver, TaskLeaves, TurnInv, InTurn, Shape
<1>8. ASSUME PostEscapes PROVE TurnInv'
  BY <1>8, <1>0, Ending DEF PostEscapes, Goes, Ends, At, Completes, SetBranch, TurnOver, TaskLeaves, TurnInv, InTurn, Shape
<1>9. ASSUME ModelSays PROVE TurnInv'
  BY <1>9, <1>0, Ending DEF ModelSays, Goes, Ends, At, Completes, SetBranch, TurnOver, TaskLeaves, TurnInv, InTurn, Shape
<1>10. ASSUME NEW t \in Turns, ModelCalls(t) PROVE TurnInv'
  <2>1. Ends("awaiting_input") \/ (inv'.turn = t /\ inv'.step = inv.step)
    BY <1>0, <1>10 DEF ModelCalls, Goes, Shape
  <2>2. Ends("awaiting_input") \/ \A i \in DOMAIN t : t[i] # "ask"
    BY <1>10 DEF ModelCalls
  <2>3. inv.step \in 1 .. MaxTurns
    BY <1>0, <1>10, Bounds, Room DEF ModelCalls, At, StepInv, Fields
  <2> QED
    BY <2>1, <2>2, <2>3, Ending DEF TurnInv, InTurn
<1>11. ASSUME NEW stop \in BOOLEAN, SubBegins(stop) PROVE TurnInv'
  <2>1. inv'.turn = inv.turn /\ inv'.step = inv.step /\ inv.pc \in InTurn
    BY <1>0, <1>11 DEF SubBegins, Goes, Shape, At, InTurn
  <2> QED
    BY <2>1 DEF TurnInv
<1>12. ASSUME BranchesStop PROVE TurnInv'
  BY <1>12, <1>0, Ending DEF BranchesStop, Goes, Ends, At, Completes, SetBranch, TurnOver, TaskLeaves, TurnInv, InTurn, Shape
<1>13. ASSUME SubEnds PROVE TurnInv'
  BY <1>13, <1>0, Ending DEF SubEnds, Goes, Ends, At, Completes, SetBranch, TurnOver, TaskLeaves, TurnInv, InTurn, Shape
<1>14. ASSUME SubsAnswered PROVE TurnInv'
  BY <1>14, <1>0, Ending DEF SubsAnswered, Goes, Ends, At, Completes, SetBranch, TurnOver, TaskLeaves, TurnInv, InTurn, Shape
<1>15. ASSUME NEW b \in Branch, BranchStarts(b) PROVE TurnInv'
  <2>1. \E st \in BranchStatus : SetBranch(b, st)
    BY <1>15 DEF BranchStarts, BranchStatus
  <2>2. inv'.turn = inv.turn /\ inv'.step = inv.step
    BY <1>0, <2>1 DEF SetBranch, Goes, Shape
  <2> QED
    BY <2>2, <1>15 DEF BranchStarts, At, TurnInv, InTurn
<1>16. ASSUME NEW b \in Branch, BranchEnds(b) PROVE TurnInv'
  <2>1. \E st \in BranchStatus : SetBranch(b, st)
    BY <1>16 DEF BranchEnds, BranchStatus
  <2>2. inv'.turn = inv.turn /\ inv'.step = inv.step
    BY <1>0, <2>1 DEF SetBranch, Goes, Shape
  <2> QED
    BY <2>2, <1>16 DEF BranchEnds, At, TurnInv, InTurn
<1>17. ASSUME TurnPlanned PROVE TurnInv'
  BY <1>17, <1>0, Ending DEF TurnPlanned, Goes, Ends, At, Completes, SetBranch, TurnOver, TaskLeaves, TurnInv, InTurn, Shape
<1>18. ASSUME GatherEnds PROVE TurnInv'
  BY <1>18, <1>0, Ending DEF GatherEnds, Goes, Ends, At, Completes, SetBranch, TurnOver, TaskLeaves, TurnInv, InTurn, Shape
<1>19. ASSUME SerialNext PROVE TurnInv'
  BY <1>19, <1>0, Ending DEF SerialNext, Goes, Ends, At, Completes, SetBranch, TurnOver, TaskLeaves, TurnInv, InTurn, Shape
<1>20. ASSUME SerialThrows PROVE TurnInv'
  BY <1>20, <1>0, Ending DEF SerialThrows, Goes, Ends, At, Completes, SetBranch, TurnOver, TaskLeaves, TurnInv, InTurn, Shape
<1>21. ASSUME TurnAnswered PROVE TurnInv'
  BY <1>21, <1>0, Ending DEF TurnAnswered, Goes, Ends, At, Completes, SetBranch, TurnOver, TaskLeaves, TurnInv, InTurn, Shape
<1>22. ASSUME NEW c \in Call, NEW how \in Outcome, NEW asked \in BOOLEAN, TaskEnds(c, how, asked) PROVE TurnInv'
  BY <1>22, <1>0, Ending DEF TaskEnds, Goes, Ends, At, Completes, SetBranch, TurnOver, TaskLeaves, TurnInv, InTurn, Shape
<1>23. ASSUME NEW c \in Call, NEW how \in Outcome, NEW asked \in BOOLEAN, LocalTaskEnds(c, how, asked) PROVE TurnInv'
  BY <1>23, <1>0, Ending DEF LocalTaskEnds, Goes, Ends, At, Completes, SetBranch, TurnOver, TaskLeaves, TurnInv, InTurn, Shape
<1>24. ASSUME FallsBack PROVE TurnInv'
  BY <1>24, <1>0, Ending DEF FallsBack, Goes, Ends, At, Completes, SetBranch, TurnOver, TaskLeaves, TurnInv, InTurn, Shape
<1>25. ASSUME NEW c \in Call, LocalLaunches(c) PROVE TurnInv'
  BY <1>25, <1>0, Ending DEF LocalLaunches, Goes, Ends, At, Completes, SetBranch, TurnOver, TaskLeaves, TurnInv, InTurn, Shape
<1>26. ASSUME LocalEnds PROVE TurnInv'
  BY <1>26, <1>0, Ending DEF LocalEnds, Goes, Ends, At, Completes, SetBranch, TurnOver, TaskLeaves, TurnInv, InTurn, Shape
<1>27. ASSUME PipeCancelled PROVE TurnInv'
  BY <1>27, <1>0, Ending DEF PipeCancelled, Goes, Ends, At, Completes, SetBranch, TurnOver, TaskLeaves, TurnInv, InTurn, Shape
<1>28. ASSUME CancelRun PROVE TurnInv'
  BY <1>28, <1>0, Ending DEF CancelRun, Goes, Ends, At, Completes, SetBranch, TurnOver, TaskLeaves, TurnInv, InTurn, Shape
<1>29. ASSUME Reply PROVE TurnInv'
  BY <1>29, <1>0, Ending DEF Reply, Goes, Ends, At, Completes, SetBranch, TurnOver, TaskLeaves, TurnInv, InTurn, Shape
<1>30. ASSUME Resume PROVE TurnInv'
  BY <1>30, <1>0, Ending DEF Resume, Goes, Ends, At, Completes, SetBranch, TurnOver, TaskLeaves, TurnInv, InTurn, Shape
<1> QED
  BY <1>1, <1>2, <1>3, <1>4, <1>5, <1>6, <1>7, <1>8, <1>9, <1>10, <1>11, <1>12, <1>13, <1>14, <1>15, <1>16, <1>17, <1>18, <1>19, <1>20, <1>21, <1>22, <1>23, <1>24, <1>25, <1>26, <1>27, <1>28, <1>29, <1>30 DEF Next, PipeStep

----------------------------------------------------------------------------
(* The posts of a turn *)

Count(b) == IF b THEN 1 ELSE 0
Rounds(q) == Count(q.escalated) + Count(q.focused)
Payloads == IF Groq THEN 2 ELSE 1

\* What a question that is being asked can have posted: in every round of retries each attempt has
\* its one or two payloads, and a round begins anew at most once for each reason.
Within(q) ==
    /\ q.escalated => FastTier
    /\ q.focused => Groq
    /\ q.compact => Groq
    /\ q.posts <= Payloads * (MaxRetries * Rounds(q) + q.attempt - 1) + Count(q.compact) + 1

QuestionInv == Within(inv.question)

LEMMA Counts ==
    ASSUME NEW q \in Question
    PROVE  /\ Count(q.escalated) \in {0, 1} /\ Count(q.focused) \in {0, 1} /\ Count(q.compact) \in {0, 1}
           /\ Rounds(q) \in 0 .. 2 /\ q.attempt \in 1 .. 3 /\ q.posts \in Nat
<1>1. QuestionFields(q)
  BY QuestionRecord
<1>2. Count(q.escalated) \in {0, 1} /\ Count(q.focused) \in {0, 1} /\ Count(q.compact) \in {0, 1}
  BY DEF Count
<1> QED
  BY <1>1, <1>2 DEF Rounds, QuestionFields, MaxRetries

LEMMA WithinBound == ASSUME NEW q \in Question, Within(q) PROVE q.posts <= MostPosts
<1>1. Count(q.escalated) <= Count(FastTier) /\ Count(q.focused) <= Count(Groq)
  BY TurnAssumption DEF Within, Count
<1>2. Count(q.compact) <= Payloads - 1 /\ Payloads \in {1, 2}
  BY TurnAssumption DEF Within, Count, Payloads
<1>3. Count(FastTier) \in {0, 1} /\ Count(Groq) \in {0, 1}
  BY DEF Count
<1> DEFINE most == Count(FastTier) + Count(Groq)
<1>4. Rounds(q) <= most /\ most \in Nat
  BY <1>1, <1>3, Counts DEF Rounds
<1>5. MostPosts = 3 * Payloads * (1 + most)
  BY <1>3 DEF MostPosts, Count, MaxRetries, Payloads
<1>6. q.posts <= Payloads * (3 * Rounds(q) + q.attempt - 1) + Count(q.compact) + 1
  BY DEF Within, MaxRetries
<1> HIDE DEF most
<1>7. CASE Payloads = 1
  BY <1>2, <1>4, <1>5, <1>6, <1>7, Counts
<1>8. CASE Payloads = 2
  BY <1>2, <1>4, <1>5, <1>6, <1>8, Counts
<1> QED
  BY <1>2, <1>7, <1>8

LEMMA WithinAsked == ASSUME NEW q \in Question, Within(q) PROVE Within(Asked(q))
<1>1. /\ Asked(q).attempt = 1 /\ Asked(q).compact = FALSE /\ Asked(q).focused = FALSE
      /\ Asked(q).escalated = q.escalated /\ Asked(q).posts = 1 /\ Asked(q) \in Question
  BY AskedType
<1>2. Count(Asked(q).compact) = 0
  BY <1>1 DEF Count
<1>3. Payloads \in {1, 2}
  BY DEF Payloads
<1>4. Asked(q).posts <= Payloads * (MaxRetries * Rounds(Asked(q)) + Asked(q).attempt - 1)
                         + Count(Asked(q).compact) + 1
  BY <1>1, <1>2, <1>3, Counts DEF MaxRetries
<1> QED
  BY <1>1, <1>4 DEF Within

LEMMA WithinFresh == Within(FreshConfig)
  BY DEF Within, FreshConfig, Count, Rounds, Payloads, MaxRetries

LEMMA WithinReposted ==
    ASSUME NEW q \in Question, NEW e \in PostError, Within(q), ~GivesUp(q, e)
    PROVE  Within(Reposted(q, e))
<1>1. QuestionFields(q)
  BY QuestionRecord
<1>2. Payloads \in {1, 2} /\ (Count(q.compact) <= Payloads - 1)
  BY TurnAssumption DEF Within, Count, Payloads
<1>3. q.posts <= Payloads * (3 * Rounds(q) + q.attempt - 1) + Count(q.compact) + 1
  BY DEF Within, MaxRetries
<1> DEFINE r == Reposted(q, e)
<1>4. r \in Question
  BY RepostedType
<1>5. SUFFICES /\ r.escalated => FastTier
               /\ r.focused => Groq
               /\ r.compact => Groq
               /\ r.posts <= Payloads * (3 * Rounds(r) + r.attempt - 1) + Count(r.compact) + 1
  BY DEF Within, MaxRetries
<1>6. CASE CanLighten(q, e)
  <2>1. /\ r.posts = q.posts + 1 /\ r.attempt = q.attempt /\ r.compact = TRUE
        /\ r.focused = q.focused /\ r.escalated = q.escalated
    BY <1>6, RepostedFields
  <2>2. Groq /\ q.compact = FALSE
    BY <1>1, <1>6 DEF CanLighten, QuestionFields
  <2> HIDE DEF r
  <2>3. Rounds(r) = Rounds(q) /\ Count(r.compact) = 1 /\ Count(q.compact) = 0
    BY <2>1, <2>2 DEF Rounds, Count
  <2>4. r.posts <= Payloads * (3 * Rounds(r) + r.attempt - 1) + Count(r.compact) + 1
    BY <1>2, <1>3, <2>1, <2>3, Counts
  <2> QED
    BY <2>1, <2>2, <2>4 DEF Within
<1>7. CASE ~CanLighten(q, e) /\ CanRetry(q, e)
  <2>1. /\ r.posts = q.posts + 1 /\ r.attempt = q.attempt + 1 /\ r.compact = FALSE
        /\ r.focused = q.focused /\ r.escalated = q.escalated
    BY <1>7, RepostedFields
  <2> HIDE DEF r
  <2>2. Rounds(r) = Rounds(q) /\ Count(r.compact) = 0
    BY <2>1 DEF Rounds, Count
  <2>3. r.posts <= Payloads * (3 * Rounds(r) + r.attempt - 1) + Count(r.compact) + 1
    BY <1>2, <1>3, <2>1, <2>2, Counts
  <2> QED
    BY <2>1, <2>3 DEF Within
<1>8. CASE ~CanLighten(q, e) /\ ~CanRetry(q, e) /\ CanEscalate(q)
  <2>1. /\ r.posts = q.posts + 1 /\ r.attempt = 1 /\ r.compact = FALSE
        /\ r.focused = q.focused /\ r.escalated = TRUE
    BY <1>8, RepostedFields
  <2>2. FastTier /\ q.escalated = FALSE
    BY <1>1, <1>8 DEF CanEscalate, QuestionFields
  <2> HIDE DEF r
  <2>3. Rounds(r) = Rounds(q) + 1 /\ Count(r.compact) = 0
    <3>1. Count(r.escalated) = 1 /\ Count(q.escalated) = 0 /\ Count(r.focused) = Count(q.focused)
      BY <2>1, <2>2 DEF Count
    <3> QED
      BY <2>1, <3>1, Counts DEF Rounds, Count
  <2>4. r.posts <= Payloads * (3 * Rounds(r) + r.attempt - 1) + Count(r.compact) + 1
    BY <1>2, <1>3, <2>1, <2>3, Counts
  <2> QED
    BY <2>1, <2>2, <2>4 DEF Within
<1>9. CASE ~CanLighten(q, e) /\ ~CanRetry(q, e) /\ ~CanEscalate(q)
  <2>1. /\ r.posts = q.posts + 1 /\ r.attempt = 1 /\ r.compact = FALSE
        /\ r.focused = TRUE /\ r.escalated = q.escalated
    BY <1>9, RepostedFields
  <2>2. Groq /\ q.focused = FALSE
    BY <1>1, <1>9 DEF GivesUp, CanFocus, QuestionFields
  <2> HIDE DEF r
  <2>3. Rounds(r) = Rounds(q) + 1 /\ Count(r.compact) = 0
    <3>1. Count(r.focused) = 1 /\ Count(q.focused) = 0 /\ Count(r.escalated) = Count(q.escalated)
      BY <2>1, <2>2 DEF Count
    <3> QED
      BY <2>1, <3>1, Counts DEF Rounds, Count
  <2>4. r.posts <= Payloads * (3 * Rounds(r) + r.attempt - 1) + Count(r.compact) + 1
    BY <1>2, <1>3, <2>1, <2>3, Counts
  <2> QED
    BY <2>1, <2>2, <2>4 DEF Within
<1> QED
  BY <1>6, <1>7, <1>8, <1>9

LEMMA QuestionStep == ASSUME TypeOK, QuestionInv, Next PROVE QuestionInv'
<1>0. Shape(inv) /\ Fields(inv) /\ inv.question \in Question /\ Within(inv.question)
  BY Types DEF Fields, QuestionInv
<1>1. ASSUME PipeStarts PROVE QuestionInv'
  BY <1>0, <1>1, PipeStartsMoves, Ending, WithinFresh, WithinAsked, WithinReposted DEF Keeps, Names, Completes, QuestionInv, Over
<1>2. ASSUME FastTaskDone PROVE QuestionInv'
  BY <1>0, <1>2, Ending, WithinFresh DEF FastTaskDone, Goes, Ends, At, Completes, TurnOver, TaskLeaves, client, Shape, QuestionInv
<1>3. ASSUME FastSummarizes PROVE QuestionInv'
  BY <1>0, <1>3, Ending, WithinFresh DEF FastSummarizes, Goes, Ends, At, Completes, TurnOver, TaskLeaves, client, Shape, QuestionInv
<1>4. ASSUME StepBegins PROVE QuestionInv'
  BY <1>0, <1>4, StepBeginsMoves, Ending, WithinFresh, WithinAsked, WithinReposted DEF Keeps, Names, Completes, QuestionInv, Over
<1>5. ASSUME OverBudget PROVE QuestionInv'
  BY <1>0, <1>5, Ending, WithinFresh DEF OverBudget, Goes, Ends, At, Completes, TurnOver, TaskLeaves, client, Shape, QuestionInv
<1>6. ASSUME OutOfSteps PROVE QuestionInv'
  BY <1>0, <1>6, Ending, WithinFresh DEF OutOfSteps, Goes, Ends, At, Completes, TurnOver, TaskLeaves, client, Shape, QuestionInv
<1>7. ASSUME NEW e \in PostError, PostFails(e) PROVE QuestionInv'
  BY <1>0, <1>7, PostFailsMoves, Ending, WithinFresh, WithinAsked, WithinReposted DEF Keeps, Names, Completes, QuestionInv, Over
<1>8. ASSUME PostEscapes PROVE QuestionInv'
  BY <1>0, <1>8, OverMoves, Ending, WithinFresh, WithinAsked, WithinReposted DEF Keeps, Names, Completes, QuestionInv, Over
<1>9. ASSUME ModelSays PROVE QuestionInv'
  BY <1>0, <1>9, OverMoves, Ending, WithinFresh, WithinAsked, WithinReposted DEF Keeps, Names, Completes, QuestionInv, Over
<1>10. ASSUME NEW t \in Turns, ModelCalls(t) PROVE QuestionInv'
  BY <1>0, <1>10, ModelCallsMoves, Ending, WithinFresh, WithinAsked, WithinReposted DEF Keeps, Names, Completes, QuestionInv, Over
<1>11. ASSUME NEW stop \in BOOLEAN, SubBegins(stop) PROVE QuestionInv'
  BY <1>0, <1>11, SubBeginsMoves, Ending, WithinFresh, WithinAsked, WithinReposted DEF Keeps, Names, Completes, QuestionInv, Over
<1>12. ASSUME BranchesStop PROVE QuestionInv'
  BY <1>0, <1>12, Ending, WithinFresh DEF BranchesStop, Goes, Ends, At, Completes, TurnOver, TaskLeaves, client, Shape, QuestionInv
<1>13. ASSUME SubEnds PROVE QuestionInv'
  BY <1>0, <1>13, Ending, WithinFresh DEF SubEnds, Goes, Ends, At, Completes, TurnOver, TaskLeaves, client, Shape, QuestionInv
<1>14. ASSUME SubsAnswered PROVE QuestionInv'
  BY <1>0, <1>14, SubsAnsweredMoves, Ending, WithinFresh, WithinAsked, WithinReposted DEF Keeps, Names, Completes, QuestionInv, Over
<1>15. ASSUME NEW b \in Branch, BranchStarts(b) PROVE QuestionInv'
  BY <1>0, <1>15, SetBranchMoves, Ending, WithinFresh, WithinAsked, WithinReposted DEF Keeps, Names, Completes, QuestionInv, Over
<1>16. ASSUME NEW b \in Branch, BranchEnds(b) PROVE QuestionInv'
  BY <1>0, <1>16, SetBranchMoves, Ending, WithinFresh, WithinAsked, WithinReposted DEF Keeps, Names, Completes, QuestionInv, Over
<1>17. ASSUME TurnPlanned PROVE QuestionInv'
  BY <1>0, <1>17, TurnPlannedMoves, Ending, WithinFresh, WithinAsked, WithinReposted DEF Keeps, Names, Completes, QuestionInv, Over
<1>18. ASSUME GatherEnds PROVE QuestionInv'
  BY <1>0, <1>18, Ending, WithinFresh DEF GatherEnds, Goes, Ends, At, Completes, TurnOver, TaskLeaves, client, Shape, QuestionInv
<1>19. ASSUME SerialNext PROVE QuestionInv'
  BY <1>0, <1>19, Ending, WithinFresh DEF SerialNext, Goes, Ends, At, Completes, TurnOver, TaskLeaves, client, Shape, QuestionInv
<1>20. ASSUME SerialThrows PROVE QuestionInv'
  BY <1>0, <1>20, Ending, WithinFresh DEF SerialThrows, Goes, Ends, At, Completes, TurnOver, TaskLeaves, client, Shape, QuestionInv
<1>21. ASSUME TurnAnswered PROVE QuestionInv'
  BY <1>0, <1>21, TurnAnsweredMoves, Ending, WithinFresh, WithinAsked, WithinReposted DEF Keeps, Names, Completes, QuestionInv, Over
<1>22. ASSUME NEW c \in Call, NEW how \in Outcome, NEW asked \in BOOLEAN, TaskEnds(c, how, asked) PROVE QuestionInv'
  BY <1>0, <1>22, Ending, WithinFresh DEF TaskEnds, Goes, Ends, At, Completes, TurnOver, TaskLeaves, client, Shape, QuestionInv
<1>23. ASSUME NEW c \in Call, NEW how \in Outcome, NEW asked \in BOOLEAN, LocalTaskEnds(c, how, asked) PROVE QuestionInv'
  BY <1>0, <1>23, Ending, WithinFresh DEF LocalTaskEnds, Goes, Ends, At, Completes, TurnOver, TaskLeaves, client, Shape, QuestionInv
<1>24. ASSUME FallsBack PROVE QuestionInv'
  BY <1>0, <1>24, Ending, WithinFresh DEF FallsBack, Goes, Ends, At, Completes, TurnOver, TaskLeaves, client, Shape, QuestionInv
<1>25. ASSUME NEW c \in Call, LocalLaunches(c) PROVE QuestionInv'
  BY <1>0, <1>25, Ending, WithinFresh DEF LocalLaunches, Goes, Ends, At, Completes, TurnOver, TaskLeaves, client, Shape, QuestionInv
<1>26. ASSUME LocalEnds PROVE QuestionInv'
  BY <1>0, <1>26, Ending, WithinFresh DEF LocalEnds, Goes, Ends, At, Completes, TurnOver, TaskLeaves, client, Shape, QuestionInv
<1>27. ASSUME PipeCancelled PROVE QuestionInv'
  BY <1>0, <1>27, Ending, WithinFresh DEF PipeCancelled, Goes, Ends, At, Completes, TurnOver, TaskLeaves, client, Shape, QuestionInv
<1>28. ASSUME CancelRun PROVE QuestionInv'
  BY <1>0, <1>28, Ending, WithinFresh DEF CancelRun, Goes, Ends, At, Completes, TurnOver, TaskLeaves, client, Shape, QuestionInv
<1>29. ASSUME Reply PROVE QuestionInv'
  BY <1>0, <1>29, Ending, WithinFresh DEF Reply, Goes, Ends, At, Completes, TurnOver, TaskLeaves, client, Shape, QuestionInv
<1>30. ASSUME Resume PROVE QuestionInv'
  BY <1>0, <1>30, Ending, WithinFresh DEF Resume, Goes, Ends, At, Completes, TurnOver, TaskLeaves, client, Shape, QuestionInv
<1> QED
  BY <1>1, <1>2, <1>3, <1>4, <1>5, <1>6, <1>7, <1>8, <1>9, <1>10, <1>11, <1>12, <1>13, <1>14, <1>15, <1>16, <1>17, <1>18, <1>19, <1>20, <1>21, <1>22, <1>23, <1>24, <1>25, <1>26, <1>27, <1>28, <1>29, <1>30 DEF Next, PipeStep

----------------------------------------------------------------------------
(* The branches of a subagent call *)

LEMMA BranchStep == ASSUME TypeOK, NoBranchLeft, Next PROVE NoBranchLeft'
<1>0. Shape(inv) /\ Fields(inv)
  BY Types
<1>1. ASSUME PipeStarts PROVE NoBranchLeft'
  BY <1>0, <1>1, PipeStartsMoves, Ending DEF Keeps, Names, Completes, NoBranchLeft, Unfinished
<1>2. ASSUME FastTaskDone PROVE NoBranchLeft'
  BY <1>0, <1>2, Ending DEF FastTaskDone, Goes, Ends, At, Completes, TurnOver, TaskLeaves, client, Shape, NoBranchLeft, Unfinished, BranchesCollected
<1>3. ASSUME FastSummarizes PROVE NoBranchLeft'
  BY <1>0, <1>3, Ending DEF FastSummarizes, Goes, Ends, At, Completes, TurnOver, TaskLeaves, client, Shape, NoBranchLeft, Unfinished, BranchesCollected
<1>4. ASSUME StepBegins PROVE NoBranchLeft'
  BY <1>0, <1>4, StepBeginsMoves, Ending DEF Keeps, Names, Completes, NoBranchLeft, Unfinished
<1>5. ASSUME OverBudget PROVE NoBranchLeft'
  BY <1>0, <1>5, Ending DEF OverBudget, Goes, Ends, At, Completes, TurnOver, TaskLeaves, client, Shape, NoBranchLeft, Unfinished, BranchesCollected
<1>6. ASSUME OutOfSteps PROVE NoBranchLeft'
  BY <1>0, <1>6, Ending DEF OutOfSteps, Goes, Ends, At, Completes, TurnOver, TaskLeaves, client, Shape, NoBranchLeft, Unfinished, BranchesCollected
<1>7. ASSUME NEW e \in PostError, PostFails(e) PROVE NoBranchLeft'
  BY <1>0, <1>7, PostFailsMoves, Ending DEF Keeps, Names, Completes, NoBranchLeft, Unfinished
<1>8. ASSUME PostEscapes PROVE NoBranchLeft'
  BY <1>0, <1>8, OverMoves, Ending DEF Keeps, Names, Completes, NoBranchLeft, Unfinished
<1>9. ASSUME ModelSays PROVE NoBranchLeft'
  BY <1>0, <1>9, OverMoves, Ending DEF Keeps, Names, Completes, NoBranchLeft, Unfinished
<1>10. ASSUME NEW t \in Turns, ModelCalls(t) PROVE NoBranchLeft'
  BY <1>0, <1>10, ModelCallsMoves, Ending DEF Keeps, Names, Completes, NoBranchLeft, Unfinished
<1>11. ASSUME NEW stop \in BOOLEAN, SubBegins(stop) PROVE NoBranchLeft'
  BY <1>0, <1>11, SubBeginsMoves, Ending DEF Keeps, Names, Completes, NoBranchLeft, Unfinished
<1>12. ASSUME BranchesStop PROVE NoBranchLeft'
  BY <1>0, <1>12, Ending DEF BranchesStop, Goes, Ends, At, Completes, TurnOver, TaskLeaves, client, Shape, NoBranchLeft, Unfinished, BranchesCollected
<1>13. ASSUME SubEnds PROVE NoBranchLeft'
  BY <1>0, <1>13, Ending DEF SubEnds, Goes, Ends, At, Completes, TurnOver, TaskLeaves, client, Shape, NoBranchLeft, Unfinished, BranchesCollected
<1>14. ASSUME SubsAnswered PROVE NoBranchLeft'
  BY <1>0, <1>14, SubsAnsweredMoves, Ending DEF Keeps, Names, Completes, NoBranchLeft, Unfinished
<1>15. ASSUME NEW b \in Branch, BranchStarts(b) PROVE NoBranchLeft'
  BY <1>0, <1>15, SetBranchMoves, Ending DEF Keeps, Names, Completes, NoBranchLeft, Unfinished
<1>16. ASSUME NEW b \in Branch, BranchEnds(b) PROVE NoBranchLeft'
  BY <1>0, <1>16, SetBranchMoves, Ending DEF Keeps, Names, Completes, NoBranchLeft, Unfinished
<1>17. ASSUME TurnPlanned PROVE NoBranchLeft'
  BY <1>0, <1>17, TurnPlannedMoves, Ending DEF Keeps, Names, Completes, NoBranchLeft, Unfinished
<1>18. ASSUME GatherEnds PROVE NoBranchLeft'
  BY <1>0, <1>18, Ending DEF GatherEnds, Goes, Ends, At, Completes, TurnOver, TaskLeaves, client, Shape, NoBranchLeft, Unfinished, BranchesCollected
<1>19. ASSUME SerialNext PROVE NoBranchLeft'
  BY <1>0, <1>19, Ending DEF SerialNext, Goes, Ends, At, Completes, TurnOver, TaskLeaves, client, Shape, NoBranchLeft, Unfinished, BranchesCollected
<1>20. ASSUME SerialThrows PROVE NoBranchLeft'
  BY <1>0, <1>20, Ending DEF SerialThrows, Goes, Ends, At, Completes, TurnOver, TaskLeaves, client, Shape, NoBranchLeft, Unfinished, BranchesCollected
<1>21. ASSUME TurnAnswered PROVE NoBranchLeft'
  BY <1>0, <1>21, TurnAnsweredMoves, Ending DEF Keeps, Names, Completes, NoBranchLeft, Unfinished
<1>22. ASSUME NEW c \in Call, NEW how \in Outcome, NEW asked \in BOOLEAN, TaskEnds(c, how, asked) PROVE NoBranchLeft'
  BY <1>0, <1>22, Ending DEF TaskEnds, Goes, Ends, At, Completes, TurnOver, TaskLeaves, client, Shape, NoBranchLeft, Unfinished, BranchesCollected
<1>23. ASSUME NEW c \in Call, NEW how \in Outcome, NEW asked \in BOOLEAN, LocalTaskEnds(c, how, asked) PROVE NoBranchLeft'
  BY <1>0, <1>23, Ending DEF LocalTaskEnds, Goes, Ends, At, Completes, TurnOver, TaskLeaves, client, Shape, NoBranchLeft, Unfinished, BranchesCollected
<1>24. ASSUME FallsBack PROVE NoBranchLeft'
  BY <1>0, <1>24, Ending DEF FallsBack, Goes, Ends, At, Completes, TurnOver, TaskLeaves, client, Shape, NoBranchLeft, Unfinished, BranchesCollected
<1>25. ASSUME NEW c \in Call, LocalLaunches(c) PROVE NoBranchLeft'
  BY <1>0, <1>25, Ending DEF LocalLaunches, Goes, Ends, At, Completes, TurnOver, TaskLeaves, client, Shape, NoBranchLeft, Unfinished, BranchesCollected
<1>26. ASSUME LocalEnds PROVE NoBranchLeft'
  BY <1>0, <1>26, Ending DEF LocalEnds, Goes, Ends, At, Completes, TurnOver, TaskLeaves, client, Shape, NoBranchLeft, Unfinished, BranchesCollected
<1>27. ASSUME PipeCancelled PROVE NoBranchLeft'
  BY <1>0, <1>27, Ending DEF PipeCancelled, Goes, Ends, At, Completes, TurnOver, TaskLeaves, client, Shape, NoBranchLeft, Unfinished, BranchesCollected
<1>28. ASSUME CancelRun PROVE NoBranchLeft'
  BY <1>0, <1>28, Ending DEF CancelRun, Goes, Ends, At, Completes, TurnOver, TaskLeaves, client, Shape, NoBranchLeft, Unfinished, BranchesCollected
<1>29. ASSUME Reply PROVE NoBranchLeft'
  BY <1>0, <1>29, Ending DEF Reply, Goes, Ends, At, Completes, TurnOver, TaskLeaves, client, Shape, NoBranchLeft, Unfinished, BranchesCollected
<1>30. ASSUME Resume PROVE NoBranchLeft'
  BY <1>0, <1>30, Ending DEF Resume, Goes, Ends, At, Completes, TurnOver, TaskLeaves, client, Shape, NoBranchLeft, Unfinished, BranchesCollected
<1> QED
  BY <1>1, <1>2, <1>3, <1>4, <1>5, <1>6, <1>7, <1>8, <1>9, <1>10, <1>11, <1>12, <1>13, <1>14, <1>15, <1>16, <1>17, <1>18, <1>19, <1>20, <1>21, <1>22, <1>23, <1>24, <1>25, <1>26, <1>27, <1>28, <1>29, <1>30 DEF Next, PipeStep

----------------------------------------------------------------------------
(* What runs at the same time *)

\* A task runs alone, but in the group of a turn; an exception ends the serial part of the turn.
RunningInv ==
    /\ inv.pc \notin {"fast", "gather", "serial", "local"} => running = {}
    /\ inv.pc = "gather" => running \subseteq Independent
    /\ inv.pc # "gather" => \A c, d \in running : c = d
    /\ inv.pc = "serial" /\ inv.thrown # {} => running = {}

\* The calls of a turn are the same as long as its step and its kinds are.
LEMMA SameCalls ==
    ASSUME inv'.turn = inv.turn, inv'.step = inv.step
    PROVE  /\ \A kinds : Calls(kinds)' = Calls(kinds)
           /\ Planned' = Planned /\ Independent' = Independent
<1>1. \A kinds : Calls(kinds)' = Calls(kinds)
  BY DEF Calls, AtCall
<1>2. Planned' = Planned
  BY DEF Planned, Calls, AtCall
<1> QED
  BY <1>1, <1>2 DEF Independent

LEMMA RunningStep == ASSUME TypeOK, RunningInv, Next PROVE RunningInv'
<1>0. Shape(inv) /\ Fields(inv)
  BY Types
<1>1. ASSUME PipeStarts PROVE RunningInv'
  BY <1>0, <1>1, PipeStartsMoves, Ending, SameCalls DEF Keeps, Names, Completes, RunningInv
<1>2. ASSUME FastTaskDone PROVE RunningInv'
  BY <1>0, <1>2, Ending, SameCalls DEF FastTaskDone, Goes, Ends, At, Completes, TurnOver, TaskLeaves, client, Shape, RunningInv
<1>3. ASSUME FastSummarizes PROVE RunningInv'
  BY <1>0, <1>3, Ending, SameCalls DEF FastSummarizes, Goes, Ends, At, Completes, TurnOver, TaskLeaves, client, Shape, RunningInv
<1>4. ASSUME StepBegins PROVE RunningInv'
  BY <1>0, <1>4, StepBeginsMoves, Ending, SameCalls DEF Keeps, Names, Completes, RunningInv
<1>5. ASSUME OverBudget PROVE RunningInv'
  BY <1>0, <1>5, Ending, SameCalls DEF OverBudget, Goes, Ends, At, Completes, TurnOver, TaskLeaves, client, Shape, RunningInv
<1>6. ASSUME OutOfSteps PROVE RunningInv'
  BY <1>0, <1>6, Ending, SameCalls DEF OutOfSteps, Goes, Ends, At, Completes, TurnOver, TaskLeaves, client, Shape, RunningInv
<1>7. ASSUME NEW e \in PostError, PostFails(e) PROVE RunningInv'
  BY <1>0, <1>7, PostFailsMoves, Ending, SameCalls DEF Keeps, Names, Completes, RunningInv
<1>8. ASSUME PostEscapes PROVE RunningInv'
  BY <1>0, <1>8, OverMoves, Ending, SameCalls DEF Keeps, Names, Completes, RunningInv
<1>9. ASSUME ModelSays PROVE RunningInv'
  BY <1>0, <1>9, OverMoves, Ending, SameCalls DEF Keeps, Names, Completes, RunningInv
<1>10. ASSUME NEW t \in Turns, ModelCalls(t) PROVE RunningInv'
  BY <1>0, <1>10, ModelCallsMoves, Ending, SameCalls DEF Keeps, Names, Completes, RunningInv
<1>11. ASSUME NEW stop \in BOOLEAN, SubBegins(stop) PROVE RunningInv'
  BY <1>0, <1>11, SubBeginsMoves, Ending, SameCalls DEF Keeps, Names, Completes, RunningInv
<1>12. ASSUME BranchesStop PROVE RunningInv'
  BY <1>0, <1>12, Ending, SameCalls DEF BranchesStop, Goes, Ends, At, Completes, TurnOver, TaskLeaves, client, Shape, RunningInv
<1>13. ASSUME SubEnds PROVE RunningInv'
  BY <1>0, <1>13, Ending, SameCalls DEF SubEnds, Goes, Ends, At, Completes, TurnOver, TaskLeaves, client, Shape, RunningInv
<1>14. ASSUME SubsAnswered PROVE RunningInv'
  BY <1>0, <1>14, SubsAnsweredMoves, Ending, SameCalls DEF Keeps, Names, Completes, RunningInv
<1>15. ASSUME NEW b \in Branch, BranchStarts(b) PROVE RunningInv'
  BY <1>0, <1>15, SetBranchMoves, Ending, SameCalls DEF Keeps, Names, Completes, RunningInv
<1>16. ASSUME NEW b \in Branch, BranchEnds(b) PROVE RunningInv'
  BY <1>0, <1>16, SetBranchMoves, Ending, SameCalls DEF Keeps, Names, Completes, RunningInv
<1>17. ASSUME TurnPlanned PROVE RunningInv'
  BY <1>0, <1>17, TurnPlannedMoves, Ending, SameCalls DEF Keeps, Names, Completes, RunningInv
<1>18. ASSUME GatherEnds PROVE RunningInv'
  BY <1>0, <1>18, Ending, SameCalls DEF GatherEnds, Goes, Ends, At, Completes, TurnOver, TaskLeaves, client, Shape, RunningInv
<1>19. ASSUME SerialNext PROVE RunningInv'
  <2> DEFINE left == {c \in Dependent : task[c] = "pending"}
  <2>1. \/ running' = {}
        \/ running' = {Earliest(left)} /\ left # {}
    BY <1>19 DEF SerialNext, Launches
  <2>2. inv'.pc \in {"answer", "serial"} /\ inv'.thrown = inv.thrown /\ inv.thrown = {}
    BY <1>0, <1>19 DEF SerialNext, Shape
  <2>3. left # {} => inv'.pc = "serial"
    BY <1>0, <1>19 DEF SerialNext, Shape
  <2> HIDE DEF left
  <2> QED
    BY <2>1, <2>2, <2>3 DEF RunningInv
<1>20. ASSUME SerialThrows PROVE RunningInv'
  BY <1>0, <1>20, Ending, SameCalls DEF SerialThrows, Goes, Ends, At, Completes, TurnOver, TaskLeaves, client, Shape, RunningInv
<1>21. ASSUME TurnAnswered PROVE RunningInv'
  BY <1>0, <1>21, TurnAnsweredMoves, Ending, SameCalls DEF Keeps, Names, Completes, RunningInv
<1>22. ASSUME NEW c \in Call, NEW how \in Outcome, NEW asked \in BOOLEAN, TaskEnds(c, how, asked) PROVE RunningInv'
  BY <1>0, <1>22, Ending, SameCalls DEF TaskEnds, Goes, Ends, At, Completes, TurnOver, TaskLeaves, client, Shape, RunningInv
<1>23. ASSUME NEW c \in Call, NEW how \in Outcome, NEW asked \in BOOLEAN, LocalTaskEnds(c, how, asked) PROVE RunningInv'
  BY <1>0, <1>23, Ending, SameCalls DEF LocalTaskEnds, Goes, Ends, At, Completes, TurnOver, TaskLeaves, client, Shape, RunningInv
<1>24. ASSUME FallsBack PROVE RunningInv'
  BY <1>0, <1>24, Ending, SameCalls DEF FallsBack, Goes, Ends, At, Completes, TurnOver, TaskLeaves, client, Shape, RunningInv
<1>25. ASSUME NEW c \in Call, LocalLaunches(c) PROVE RunningInv'
  <2>1. running' = {c} /\ inv.pc = "local" /\ UNCHANGED inv
    BY <1>25 DEF LocalLaunches, Launches, At
  <2> QED
    BY <2>1 DEF RunningInv
<1>26. ASSUME LocalEnds PROVE RunningInv'
  BY <1>0, <1>26, Ending, SameCalls DEF LocalEnds, Goes, Ends, At, Completes, TurnOver, TaskLeaves, client, Shape, RunningInv
<1>27. ASSUME PipeCancelled PROVE RunningInv'
  BY <1>0, <1>27, Ending, SameCalls DEF PipeCancelled, Goes, Ends, At, Completes, TurnOver, TaskLeaves, client, Shape, RunningInv
<1>28. ASSUME CancelRun PROVE RunningInv'
  BY <1>0, <1>28, Ending, SameCalls DEF CancelRun, Goes, Ends, At, Completes, TurnOver, TaskLeaves, client, Shape, RunningInv
<1>29. ASSUME Reply PROVE RunningInv'
  BY <1>0, <1>29, Ending, SameCalls DEF Reply, Goes, Ends, At, Completes, TurnOver, TaskLeaves, client, Shape, RunningInv
<1>30. ASSUME Resume PROVE RunningInv'
  BY <1>0, <1>30, Ending, SameCalls DEF Resume, Goes, Ends, At, Completes, TurnOver, TaskLeaves, client, Shape, RunningInv
<1> QED
  BY <1>1, <1>2, <1>3, <1>4, <1>5, <1>6, <1>7, <1>8, <1>9, <1>10, <1>11, <1>12, <1>13, <1>14, <1>15, <1>16, <1>17, <1>18, <1>19, <1>20, <1>21, <1>22, <1>23, <1>24, <1>25, <1>26, <1>27, <1>28, <1>29, <1>30 DEF Next, PipeStep

LEMMA AloneIf == ASSUME TypeOK, TurnInv, RunningInv PROVE MutatorAlone
<1>1. CASE inv.pc # "gather"
  BY <1>1 DEF RunningInv, MutatorAlone
<1>2. CASE inv.pc = "gather"
  <2>1. \A c \in Planned : c[2] \in Nat
    BY <1>2, CallsTypes DEF Planned, InTurn
  <2>2. \A c, d \in Independent : c # d => inv.turn[c[2]] # "write"
    BY <2>1 DEF Independent
  <2> QED
    BY <1>2, <2>2 DEF RunningInv, MutatorAlone
<1> QED
  BY <1>1, <1>2

----------------------------------------------------------------------------
(* The calls the messages leave unanswered *)

Old(c) == c[1] <= inv.start

\* Every unanswered call is from before the invocation, or of the turn that is being worked on and
\* of a kind this turn has still to come to.
OpenInv ==
    /\ \A c \in session.open : c[1] <= session.step
    /\ \A c \in inv.open : c[1] <= inv.step
    /\ inv.pc \in {"fast", "summarize", "head", "ask"} => \A c \in inv.open : Old(c)
    /\ inv.pc \in {"subs", "branches"} => \A c \in inv.open : Old(c) \/ c \in Calls(Kind)
    /\ inv.pc = "plan" => \A c \in inv.open : Old(c) \/ c \in Calls({"read", "write", "bad"})
    /\ inv.pc \in {"gather", "serial", "answer"} => \A c \in inv.open : Old(c) \/ c \in Planned

LEMMA OpenStep == ASSUME TypeOK, StepInv, TurnInv, OpenInv, Next PROVE OpenInv'
<1>0. /\ Shape(inv) /\ Fields(inv) /\ RestType
      /\ inv.pc \notin {"none", "start"} => session.step = inv.step
  BY Types DEF StepInv
<1>1. ASSUME PipeStarts PROVE OpenInv'
  BY <1>0, <1>1, PipeStartsMoves, Ending, SameCalls DEF Keeps, Names, Completes, OpenInv, Old, RestType
<1>2. ASSUME FastTaskDone PROVE OpenInv'
  BY <1>0, <1>2, Ending, SameCalls DEF FastTaskDone, Goes, Ends, At, Completes, TurnOver, TaskLeaves, client, Shape, OpenInv, Old, RestType
<1>3. ASSUME FastSummarizes PROVE OpenInv'
  BY <1>0, <1>3, Ending, SameCalls DEF FastSummarizes, Goes, Ends, At, Completes, TurnOver, TaskLeaves, client, Shape, OpenInv, Old, RestType
<1>4. ASSUME StepBegins PROVE OpenInv'
  <2>1. /\ inv.pc = "head" /\ inv'.pc \in {"fallback", "ask"} /\ inv'.step = inv.step + 1
        /\ inv'.open = inv.open /\ inv'.start = inv.start
        /\ session'.step = inv.step + 1 /\ session'.open = session.open
    BY <1>4, StepBeginsMoves DEF Keeps, Names
  <2>2. /\ \A c \in inv.open : c[1] \in Nat /\ c[1] <= inv.step
        /\ \A c \in session.open : c[1] \in Nat /\ c[1] <= inv.step
    BY <1>0, <2>1, CallTypes DEF OpenInv, Fields, RestType
  <2>3. inv.step \in Nat
    BY <1>0, Bounds, Room DEF Fields
  <2>4. \A c \in inv.open \cup session.open : c[1] <= inv.step + 1
    BY <2>2, <2>3
  <2> QED
    BY <2>1, <2>4 DEF OpenInv, Old
<1>5. ASSUME OverBudget PROVE OpenInv'
  BY <1>0, <1>5, Ending, SameCalls DEF OverBudget, Goes, Ends, At, Completes, TurnOver, TaskLeaves, client, Shape, OpenInv, Old, RestType
<1>6. ASSUME OutOfSteps PROVE OpenInv'
  BY <1>0, <1>6, Ending, SameCalls DEF OutOfSteps, Goes, Ends, At, Completes, TurnOver, TaskLeaves, client, Shape, OpenInv, Old, RestType
<1>7. ASSUME NEW e \in PostError, PostFails(e) PROVE OpenInv'
  BY <1>0, <1>7, PostFailsMoves, Ending, SameCalls DEF Keeps, Names, Completes, OpenInv, Old, RestType
<1>8. ASSUME PostEscapes PROVE OpenInv'
  BY <1>0, <1>8, OverMoves, Ending, SameCalls DEF Keeps, Names, Completes, OpenInv, Old, RestType
<1>9. ASSUME ModelSays PROVE OpenInv'
  BY <1>0, <1>9, OverMoves, Ending, SameCalls DEF Keeps, Names, Completes, OpenInv, Old, RestType
<1>10. ASSUME NEW t \in Turns, ModelCalls(t) PROVE OpenInv'
  <2>1. /\ inv.pc = "ask" /\ \A c \in inv.open : Old(c) /\ c[1] <= inv.step
    BY <1>10, ModelCallsMoves DEF OpenInv
  <2> DEFINE new == {AtCall(i) : i \in DOMAIN t}
  <2>2. inv.step \in Nat /\ \A c \in new : c[1] <= inv.step
    BY <1>0, Bounds, Room DEF AtCall, Fields
  <2>3. session'.step = inv.step /\ session'.open = inv.open \cup new
    BY <1>10, ModelCallsMoves
  <2>4. CASE Ends("awaiting_input")
    BY <2>1, <2>2, <2>3, <2>4, Ending DEF OpenInv
  <2>5. ASSUME ~Ends("awaiting_input")
        PROVE  /\ inv'.pc \in {"subs", "plan"} /\ inv'.turn = t /\ inv'.step = inv.step
               /\ inv'.start = inv.start /\ inv'.open = inv.open \cup new
               /\ \A i \in DOMAIN t : t[i] # "ask"
               /\ inv'.pc = "plan" => \A i \in DOMAIN t : t[i] # "sub"
    BY <2>5, <1>10, ModelCallsMoves DEF Keeps, Names
  <2>6. ASSUME ~Ends("awaiting_input"), NEW c \in new
        PROVE  c \in Calls(Kind)' /\ (inv'.pc = "plan" => c \in Calls({"read", "write", "bad"})')
    <3>1. PICK i \in DOMAIN t : c = <<inv.step, i>>
      BY DEF AtCall
    <3>2. t[i] \in Kind
      BY TurnTypes
    <3> QED
      BY <2>5, <2>6, <3>1, <3>2 DEF Calls, AtCall, Kind
  <2> HIDE DEF new
  <2> QED
    BY <2>1, <2>2, <2>3, <2>4, <2>5, <2>6 DEF OpenInv, Old
<1>11. ASSUME NEW stop \in BOOLEAN, SubBegins(stop) PROVE OpenInv'
  BY <1>0, <1>11, SubBeginsMoves, Ending, SameCalls DEF Keeps, Names, Completes, OpenInv, Old, RestType
<1>12. ASSUME BranchesStop PROVE OpenInv'
  <2>1. /\ inv.pc = "branches" /\ inv'.pc = "branches" /\ inv'.open = inv.open /\ inv'.start = inv.start
        /\ inv'.turn = inv.turn /\ inv'.step = inv.step /\ UNCHANGED session
    BY <1>0, <1>12 DEF BranchesStop, At, Goes, Shape
  <2> QED
    BY <2>1, SameCalls DEF OpenInv, Old
<1>13. ASSUME SubEnds PROVE OpenInv'
  BY <1>0, <1>13, Ending, SameCalls DEF SubEnds, Goes, Ends, At, Completes, TurnOver, TaskLeaves, client, Shape, OpenInv, Old, RestType
<1>14. ASSUME SubsAnswered PROVE OpenInv'
  <2>1. /\ inv.pc = "subs" /\ inv'.open = inv.open \ Calls({"sub"}) /\ inv'.start = inv.start
        /\ inv'.step = inv.step /\ inv'.turn = inv.turn
        /\ inv'.pc = IF Calls({"read", "write", "bad"}) = {} THEN "head" ELSE "plan"
        /\ session'.step = session.step /\ session'.open = inv.open \ Calls({"sub"})
    BY <1>14, SubsAnsweredMoves DEF Keeps, Names
  <2>2. ASSUME NEW c \in Calls(Kind), c \notin Calls({"sub"})
        PROVE  c \in Calls({"read", "write", "bad"})
    <3>1. /\ c[2] \in DOMAIN inv.turn /\ c = AtCall(c[2])
          /\ inv.turn[c[2]] \in Kind \ {"ask"}
      BY <2>1, CallsTypes DEF InTurn, AtCall
    <3>2. inv.turn[c[2]] # "sub"
      BY <2>2, <3>1 DEF Calls
    <3> QED
      BY <3>1, <3>2 DEF Calls, Kind
  <2>3. \A c \in inv'.open : Old(c) \/ c \in Calls({"read", "write", "bad"})
    BY <2>1, <2>2 DEF OpenInv
  <2>4. \A c \in inv'.open : c[1] <= inv.step
    BY <2>1 DEF OpenInv
  <2> QED
    BY <1>0, <2>1, <2>3, <2>4, SameCalls DEF OpenInv, Old
<1>15. ASSUME NEW b \in Branch, BranchStarts(b) PROVE OpenInv'
  BY <1>0, <1>15, SetBranchMoves, Ending, SameCalls DEF Keeps, Names, Completes, OpenInv, Old, RestType
<1>16. ASSUME NEW b \in Branch, BranchEnds(b) PROVE OpenInv'
  BY <1>0, <1>16, SetBranchMoves, Ending, SameCalls DEF Keeps, Names, Completes, OpenInv, Old, RestType
<1>17. ASSUME TurnPlanned PROVE OpenInv'
  <2>1. /\ inv.pc = "plan" /\ inv'.open = inv.open \ Invalid /\ inv'.start = inv.start
        /\ inv'.step = inv.step /\ inv'.turn = inv.turn /\ inv'.pc \in {"serial", "gather"}
        /\ session'.step = session.step /\ session'.open \subseteq session.open
    BY <1>17, TurnPlannedMoves DEF Keeps, Names
  <2>2. ASSUME NEW c \in Calls({"read", "write", "bad"}), c \notin Invalid
        PROVE  c \in Planned
    BY <2>2 DEF Calls, Planned, Invalid
  <2>3. \A c \in inv'.open : (Old(c) \/ c \in Planned) /\ c[1] <= inv.step
    BY <2>1, <2>2 DEF OpenInv
  <2> QED
    BY <2>1, <2>3, SameCalls DEF OpenInv, Old
<1>18. ASSUME GatherEnds PROVE OpenInv'
  BY <1>0, <1>18, Ending, SameCalls DEF GatherEnds, Goes, Ends, At, Completes, TurnOver, TaskLeaves, client, Shape, OpenInv, Old, RestType
<1>19. ASSUME SerialNext PROVE OpenInv'
  BY <1>0, <1>19, Ending, SameCalls DEF SerialNext, Goes, Ends, At, Completes, TurnOver, TaskLeaves, client, Shape, OpenInv, Old, RestType
<1>20. ASSUME SerialThrows PROVE OpenInv'
  BY <1>0, <1>20, Ending, SameCalls DEF SerialThrows, Goes, Ends, At, Completes, TurnOver, TaskLeaves, client, Shape, OpenInv, Old, RestType
<1>21. ASSUME TurnAnswered PROVE OpenInv'
  BY <1>0, <1>21, TurnAnsweredMoves, Ending, SameCalls DEF Keeps, Names, Completes, OpenInv, Old, RestType
<1>22. ASSUME NEW c \in Call, NEW how \in Outcome, NEW asked \in BOOLEAN, TaskEnds(c, how, asked) PROVE OpenInv'
  BY <1>0, <1>22, Ending, SameCalls DEF TaskEnds, Goes, Ends, At, Completes, TurnOver, TaskLeaves, client, Shape, OpenInv, Old, RestType
<1>23. ASSUME NEW c \in Call, NEW how \in Outcome, NEW asked \in BOOLEAN, LocalTaskEnds(c, how, asked) PROVE OpenInv'
  BY <1>0, <1>23, Ending, SameCalls DEF LocalTaskEnds, Goes, Ends, At, Completes, TurnOver, TaskLeaves, client, Shape, OpenInv, Old, RestType
<1>24. ASSUME FallsBack PROVE OpenInv'
  BY <1>0, <1>24, Ending, SameCalls DEF FallsBack, Goes, Ends, At, Completes, TurnOver, TaskLeaves, client, Shape, OpenInv, Old, RestType
<1>25. ASSUME NEW c \in Call, LocalLaunches(c) PROVE OpenInv'
  BY <1>0, <1>25, Ending, SameCalls DEF LocalLaunches, Goes, Ends, At, Completes, TurnOver, TaskLeaves, client, Shape, OpenInv, Old, RestType
<1>26. ASSUME LocalEnds PROVE OpenInv'
  BY <1>0, <1>26, Ending, SameCalls DEF LocalEnds, Goes, Ends, At, Completes, TurnOver, TaskLeaves, client, Shape, OpenInv, Old, RestType
<1>27. ASSUME PipeCancelled PROVE OpenInv'
  BY <1>0, <1>27, Ending, SameCalls DEF PipeCancelled, Goes, Ends, At, Completes, TurnOver, TaskLeaves, client, Shape, OpenInv, Old, RestType
<1>28. ASSUME CancelRun PROVE OpenInv'
  BY <1>0, <1>28, Ending, SameCalls DEF CancelRun, Goes, Ends, At, Completes, TurnOver, TaskLeaves, client, Shape, OpenInv, Old, RestType
<1>29. ASSUME Reply PROVE OpenInv'
  BY <1>0, <1>29, Ending, SameCalls DEF Reply, Goes, Ends, At, Completes, TurnOver, TaskLeaves, client, Shape, OpenInv, Old, RestType
<1>30. ASSUME Resume PROVE OpenInv'
  BY <1>0, <1>30, Ending, SameCalls DEF Resume, Goes, Ends, At, Completes, TurnOver, TaskLeaves, client, Shape, OpenInv, Old, RestType
<1> QED
  BY <1>1, <1>2, <1>3, <1>4, <1>5, <1>6, <1>7, <1>8, <1>9, <1>10, <1>11, <1>12, <1>13, <1>14, <1>15, <1>16, <1>17, <1>18, <1>19, <1>20, <1>21, <1>22, <1>23, <1>24, <1>25, <1>26, <1>27, <1>28, <1>29, <1>30 DEF Next, PipeStep

LEMMA AnsweredIf == OpenInv => AnsweredBeforeAsked
  BY DEF OpenInv, AnsweredBeforeAsked, Old

----------------------------------------------------------------------------
(* The tasks nothing has been done about yet *)

Fresh(c) == task[c] = "none"
\* The fast path's tasks of the invocations to come.
Later == {<<0, i>> : i \in resumes + 2 .. MaxResumes + 1}

\* No task has been made for a call of a later step, for one of the step whose turn is still to be
\* planned, or for the fast path of a later invocation; what runs is a task that has been made.
FreshInv ==
    /\ \A c \in Later : Fresh(c)
    /\ inv.pc = "start" => Fresh(FastTask)
    /\ \A c \in Call : c[1] > session.step => Fresh(c)
    /\ inv.pc \in {"ask", "subs", "branches", "plan"} => \A c \in Call : c[1] = inv.step => Fresh(c)
    /\ inv.pc \in {"fast", "summarize"} => inv.step = 0
    /\ \A c \in running : ~Fresh(c)

LEMMA LaterTypes ==
    ASSUME TypeOK
    PROVE  /\ \A c \in Later : c \in Call /\ c[1] = 0 /\ c # FastTask /\ c # LocalTask
           /\ UNCHANGED resumes => Later' = Later /\ FastTask' = FastTask
           /\ resumes < MaxResumes /\ resumes' = resumes + 1 => Later' \subseteq Later /\ FastTask' \in Later
<1>1. resumes \in Nat /\ MaxResumes \in Nat
  BY Bounds DEF TypeOK
<1>2. ASSUME NEW i \in resumes + 2 .. MaxResumes + 1
      PROVE  <<0, i>> \in Call /\ <<0, i>> # FastTask /\ <<0, i>> # LocalTask
  <2>1. i \in 1 .. MaxResumes + 1 /\ i # resumes + 1 /\ i # MaxResumes + 2
    BY <1>1
  <2> QED
    BY <2>1, CallTypes DEF FastTasks, FastTask, LocalTask
<1>3. UNCHANGED resumes => Later' = Later /\ FastTask' = FastTask
  BY DEF Later, FastTask
<1>4. ASSUME resumes < MaxResumes, resumes' = resumes + 1
      PROVE  Later' \subseteq Later /\ FastTask' \in Later
  <2>1. /\ resumes' + 2 = resumes + 3 /\ resumes' + 1 = resumes + 2
        /\ resumes + 2 \in resumes + 2 .. MaxResumes + 1
        /\ resumes + 3 .. MaxResumes + 1 \subseteq resumes + 2 .. MaxResumes + 1
    BY <1>1, <1>4
  <2> QED
    BY <2>1 DEF Later, FastTask
<1> QED
  BY <1>2, <1>3, <1>4 DEF Later

\* What a step does to the tasks that are not of its own making.
TasksStay == /\ \A c \in Call : Fresh(c) => Fresh(c)'
             /\ \A c \in Call : ~Fresh(c) => ~Fresh(c)'
             /\ \A c \in running' : c \in Call /\ (c \in running \/ ~Fresh(c))

LEMMA TasksStayIf ==
    ASSUME TypeOK, TurnInv, FreshInv, Next, ~PipeStarts, ~TurnPlanned, ~FallsBack
    PROVE  TasksStay
<1>0. RestType /\ task \in [Call -> {"none", "pending", "running"} \cup Ended] /\ running \subseteq Call
  BY Types DEF RestType
<1>n. \A c \in running : ~Fresh(c)
  BY DEF FreshInv
<1>1. ASSUME FastTaskDone PROVE TasksStay
  BY <1>0, <1>1, Ending, <1>n DEF FastTaskDone, Goes, Ends, At, Completes, TurnOver, TaskLeaves, client, Shape, TasksStay, Fresh
<1>2. ASSUME FastSummarizes PROVE TasksStay
  BY <1>0, <1>2, Ending, <1>n DEF FastSummarizes, Goes, Ends, At, Completes, TurnOver, TaskLeaves, client, Shape, TasksStay, Fresh
<1>3. ASSUME StepBegins PROVE TasksStay
  BY <1>0, <1>3, StepBeginsMoves, Ending, <1>n DEF Keeps, Names, Completes, TasksStay, Fresh
<1>4. ASSUME OverBudget PROVE TasksStay
  BY <1>0, <1>4, Ending, <1>n DEF OverBudget, Goes, Ends, At, Completes, TurnOver, TaskLeaves, client, Shape, TasksStay, Fresh
<1>5. ASSUME OutOfSteps PROVE TasksStay
  BY <1>0, <1>5, Ending, <1>n DEF OutOfSteps, Goes, Ends, At, Completes, TurnOver, TaskLeaves, client, Shape, TasksStay, Fresh
<1>6. ASSUME NEW e \in PostError, PostFails(e) PROVE TasksStay
  BY <1>0, <1>6, PostFailsMoves, Ending, <1>n DEF Keeps, Names, Completes, TasksStay, Fresh
<1>7. ASSUME PostEscapes PROVE TasksStay
  BY <1>0, <1>7, OverMoves, Ending, <1>n DEF Keeps, Names, Completes, TasksStay, Fresh
<1>8. ASSUME ModelSays PROVE TasksStay
  BY <1>0, <1>8, OverMoves, Ending, <1>n DEF Keeps, Names, Completes, TasksStay, Fresh
<1>9. ASSUME NEW t \in Turns, ModelCalls(t) PROVE TasksStay
  BY <1>0, <1>9, ModelCallsMoves, Ending, <1>n DEF Keeps, Names, Completes, TasksStay, Fresh
<1>10. ASSUME NEW stop \in BOOLEAN, SubBegins(stop) PROVE TasksStay
  BY <1>0, <1>10, SubBeginsMoves, Ending, <1>n DEF Keeps, Names, Completes, TasksStay, Fresh
<1>11. ASSUME BranchesStop PROVE TasksStay
  BY <1>0, <1>11, Ending, <1>n DEF BranchesStop, Goes, Ends, At, Completes, TurnOver, TaskLeaves, client, Shape, TasksStay, Fresh
<1>12. ASSUME SubEnds PROVE TasksStay
  BY <1>0, <1>12, Ending, <1>n DEF SubEnds, Goes, Ends, At, Completes, TurnOver, TaskLeaves, client, Shape, TasksStay, Fresh
<1>13. ASSUME SubsAnswered PROVE TasksStay
  BY <1>0, <1>13, SubsAnsweredMoves, Ending, <1>n DEF Keeps, Names, Completes, TasksStay, Fresh
<1>14. ASSUME NEW b \in Branch, BranchStarts(b) PROVE TasksStay
  BY <1>0, <1>14, SetBranchMoves, Ending, <1>n DEF Keeps, Names, Completes, TasksStay, Fresh
<1>15. ASSUME NEW b \in Branch, BranchEnds(b) PROVE TasksStay
  BY <1>0, <1>15, SetBranchMoves, Ending, <1>n DEF Keeps, Names, Completes, TasksStay, Fresh
<1>16. ASSUME GatherEnds PROVE TasksStay
  BY <1>0, <1>16, Ending, <1>n DEF GatherEnds, Goes, Ends, At, Completes, TurnOver, TaskLeaves, client, Shape, TasksStay, Fresh
<1>17. ASSUME SerialNext PROVE TasksStay
  <2> DEFINE left == {c \in Dependent : task[c] = "pending"}
  <2>1. \/ UNCHANGED <<task, running>> \/ running' = {}
        \/ running' = {Earliest(left)} /\ left # {}
    BY <1>17 DEF SerialNext, Launches
  <2>2. left # {} => Earliest(left) \in left
    <3>1. \A c \in Dependent : c[2] \in Nat
      BY <1>0, <1>17, CallsTypes DEF SerialNext, At, InTurn, Dependent, Planned
    <3> QED
      BY <3>1, EarliestOf
  <2>3. \A c \in running' : c \in Call /\ (task[c] = "pending" \/ c \in running)
    <3>1. Dependent \subseteq Call
      BY <1>17, CallsTypes DEF SerialNext, At, InTurn, Dependent, Planned
    <3> QED
      BY <1>0, <2>1, <2>2, <3>1
  <2>4. task' = [c \in Call |-> IF c \in running' THEN "running" ELSE task[c]]
    BY <1>17 DEF SerialNext, Launches
  <2>5. running = {}
    BY <1>17 DEF SerialNext
  <2> QED
    BY <1>0, <2>3, <2>4, <2>5 DEF TasksStay, Fresh
<1>18. ASSUME SerialThrows PROVE TasksStay
  BY <1>0, <1>18, Ending, <1>n DEF SerialThrows, Goes, Ends, At, Completes, TurnOver, TaskLeaves, client, Shape, TasksStay, Fresh
<1>19. ASSUME TurnAnswered PROVE TasksStay
  BY <1>0, <1>19, TurnAnsweredMoves, Ending, <1>n DEF Keeps, Names, Completes, TasksStay, Fresh
<1>20. ASSUME NEW c \in Call, NEW how \in Outcome, NEW asked \in BOOLEAN, TaskEnds(c, how, asked) PROVE TasksStay
  <2>1. /\ c \in running /\ running' = running \ {c} /\ task' = [task EXCEPT ![c] = StatusOf(how)]
    BY <1>20 DEF TaskEnds, TaskLeaves
  <2>2. StatusOf(how) # "none"
    BY DEF StatusOf
  <2> QED
    BY <1>0, <1>n, <2>1, <2>2 DEF TasksStay, Fresh
<1>21. ASSUME NEW c \in Call, NEW how \in Outcome, NEW asked \in BOOLEAN, LocalTaskEnds(c, how, asked) PROVE TasksStay
  <2>1. /\ c \in running /\ running' = running \ {c} /\ task' = [task EXCEPT ![c] = StatusOf(how)]
    BY <1>21 DEF LocalTaskEnds, TaskLeaves
  <2>2. StatusOf(how) # "none"
    BY DEF StatusOf
  <2> QED
    BY <1>0, <1>n, <2>1, <2>2 DEF TasksStay, Fresh
<1>22. ASSUME NEW c \in Call, LocalLaunches(c) PROVE TasksStay
  <2>1. /\ running' = {c} /\ task[c] = "pending"
        /\ task' = [d \in Call |-> IF d \in {c} THEN "running" ELSE task[d]]
    BY <1>22 DEF LocalLaunches, Launches, Runnable
  <2> QED
    BY <1>0, <2>1 DEF TasksStay, Fresh
<1>23. ASSUME LocalEnds PROVE TasksStay
  BY <1>0, <1>23, Ending, <1>n DEF LocalEnds, Goes, Ends, At, Completes, TurnOver, TaskLeaves, client, Shape, TasksStay, Fresh
<1>24. ASSUME PipeCancelled PROVE TasksStay
  BY <1>0, <1>24, Ending, <1>n DEF PipeCancelled, Goes, Ends, At, Completes, TurnOver, TaskLeaves, client, Shape, TasksStay, Fresh
<1>25. ASSUME CancelRun PROVE TasksStay
  BY <1>0, <1>25, Ending, <1>n DEF CancelRun, Goes, Ends, At, Completes, TurnOver, TaskLeaves, client, Shape, TasksStay, Fresh
<1>26. ASSUME Reply PROVE TasksStay
  BY <1>0, <1>26, Ending, <1>n DEF Reply, Goes, Ends, At, Completes, TurnOver, TaskLeaves, client, Shape, TasksStay, Fresh
<1>27. ASSUME Resume PROVE TasksStay
  BY <1>0, <1>27, Ending, <1>n DEF Resume, Goes, Ends, At, Completes, TurnOver, TaskLeaves, client, Shape, TasksStay, Fresh
<1> QED
  BY <1>1, <1>2, <1>3, <1>4, <1>5, <1>6, <1>7, <1>8, <1>9, <1>10, <1>11, <1>12, <1>13, <1>14, <1>15, <1>16, <1>17, <1>18, <1>19, <1>20, <1>21, <1>22, <1>23, <1>24, <1>25, <1>26, <1>27 DEF Next, PipeStep

\* Where the steps that leave the tasks alone go.
FreshMove ==
    /\ UNCHANGED resumes
    /\ session'.step \in Nat /\ session'.step >= session.step
    /\ inv'.pc # "start" \/ inv'.pc = inv.pc
    /\ inv'.pc \in {"ask", "subs", "branches", "plan"} =>
          /\ inv.pc \in {"ask", "subs", "branches", "plan"} /\ inv'.step = inv.step
    /\ inv'.pc \in {"fast", "summarize"} => inv.pc \in {"fast", "summarize"} /\ inv'.step = inv.step

LEMMA FreshMoves ==
    ASSUME TypeOK, StepInv, FreshInv, Next,
           ~PipeStarts, ~TurnPlanned, ~FallsBack, ~StepBegins, ~Resume
    PROVE  FreshMove
<1>0. /\ Shape(inv) /\ RestType /\ Fields(inv) /\ session.step \in Nat
      /\ inv.pc \notin {"none", "start"} => session.step = inv.step
      /\ inv.pc \in {"fast", "summarize"} => inv.step = 0
  BY Types, Bounds, Room DEF StepInv, RestType, FreshInv
<1>1. ASSUME FastTaskDone PROVE FreshMove
  <2>1. inv'.pc \in {"summarize", "head"} /\ (inv'.pc # "none" => inv'.step = inv.step) /\ UNCHANGED <<session, resumes>>
    BY <1>0, <1>1, Ending DEF FastTaskDone, Goes, TurnOver, Shape, client
  <2>2. inv.pc \in {"fast"}
    BY <1>1 DEF FastTaskDone, At
  <2> QED
    BY <1>0, <2>1, <2>2 DEF FreshMove
<1>2. ASSUME FastSummarizes PROVE FreshMove
  BY <1>0, <1>2, Ending DEF FastSummarizes, Goes, Ends, At, Completes, TurnOver, TaskLeaves, client, Shape, FreshMove
<1>3. ASSUME OverBudget PROVE FreshMove
  BY <1>0, <1>3, Ending DEF OverBudget, Goes, Ends, At, Completes, TurnOver, TaskLeaves, client, Shape, FreshMove
<1>4. ASSUME OutOfSteps PROVE FreshMove
  BY <1>0, <1>4, Ending DEF OutOfSteps, Goes, Ends, At, Completes, TurnOver, TaskLeaves, client, Shape, FreshMove
<1>5. ASSUME NEW e \in PostError, PostFails(e) PROVE FreshMove
  BY <1>0, <1>5, PostFailsMoves, Ending DEF Keeps, Names, Completes, FreshMove
<1>6. ASSUME PostEscapes PROVE FreshMove
  BY <1>0, <1>6, OverMoves, Ending DEF Keeps, Names, Completes, FreshMove
<1>7. ASSUME ModelSays PROVE FreshMove
  BY <1>0, <1>7, OverMoves, Ending DEF Keeps, Names, Completes, FreshMove
<1>8. ASSUME NEW t \in Turns, ModelCalls(t) PROVE FreshMove
  BY <1>0, <1>8, ModelCallsMoves, Ending DEF Keeps, Names, Completes, FreshMove
<1>9. ASSUME NEW stop \in BOOLEAN, SubBegins(stop) PROVE FreshMove
  BY <1>0, <1>9, SubBeginsMoves, Ending DEF Keeps, Names, Completes, FreshMove
<1>10. ASSUME BranchesStop PROVE FreshMove
  <2>1. inv'.pc \in {"branches"} /\ (inv'.pc # "none" => inv'.step = inv.step) /\ UNCHANGED <<session, resumes>>
    BY <1>0, <1>10, Ending DEF BranchesStop, Goes, TurnOver, Shape, client
  <2>2. inv.pc \in {"branches"}
    BY <1>10 DEF BranchesStop, At
  <2> QED
    BY <1>0, <2>1, <2>2 DEF FreshMove
<1>11. ASSUME SubEnds PROVE FreshMove
  BY <1>0, <1>11, Ending DEF SubEnds, Goes, Ends, At, Completes, TurnOver, TaskLeaves, client, Shape, FreshMove
<1>12. ASSUME SubsAnswered PROVE FreshMove
  BY <1>0, <1>12, SubsAnsweredMoves, Ending DEF Keeps, Names, Completes, FreshMove
<1>13. ASSUME NEW b \in Branch, BranchStarts(b) PROVE FreshMove
  BY <1>0, <1>13, SetBranchMoves, Ending DEF Keeps, Names, Completes, FreshMove
<1>14. ASSUME NEW b \in Branch, BranchEnds(b) PROVE FreshMove
  BY <1>0, <1>14, SetBranchMoves, Ending DEF Keeps, Names, Completes, FreshMove
<1>15. ASSUME GatherEnds PROVE FreshMove
  <2>1. inv'.pc \in {"none", "serial"} /\ (inv'.pc # "none" => inv'.step = inv.step) /\ UNCHANGED <<session, resumes>>
    BY <1>0, <1>15, Ending DEF GatherEnds, Goes, TurnOver, Shape, client
  <2>2. inv.pc \in {"gather", "serial"}
    BY <1>15 DEF GatherEnds, At
  <2> QED
    BY <1>0, <2>1, <2>2 DEF FreshMove
<1>16. ASSUME SerialNext PROVE FreshMove
  BY <1>0, <1>16, Ending DEF SerialNext, Goes, Ends, At, Completes, TurnOver, TaskLeaves, client, Shape, FreshMove
<1>17. ASSUME SerialThrows PROVE FreshMove
  <2>1. inv'.pc \in {"none", "fallback"} /\ (inv'.pc # "none" => inv'.step = inv.step) /\ UNCHANGED <<session, resumes>>
    BY <1>0, <1>17, Ending DEF SerialThrows, Goes, TurnOver, Shape, client
  <2>2. inv.pc \in {"gather", "serial"}
    BY <1>17 DEF SerialThrows, At
  <2> QED
    BY <1>0, <2>1, <2>2 DEF FreshMove
<1>18. ASSUME TurnAnswered PROVE FreshMove
  BY <1>0, <1>18, TurnAnsweredMoves, Ending DEF Keeps, Names, Completes, FreshMove
<1>19. ASSUME NEW c \in Call, NEW how \in Outcome, NEW asked \in BOOLEAN, TaskEnds(c, how, asked) PROVE FreshMove
  BY <1>0, <1>19, Ending DEF TaskEnds, Goes, Ends, At, Completes, TurnOver, TaskLeaves, client, Shape, FreshMove
<1>20. ASSUME NEW c \in Call, NEW how \in Outcome, NEW asked \in BOOLEAN, LocalTaskEnds(c, how, asked) PROVE FreshMove
  BY <1>0, <1>20, Ending DEF LocalTaskEnds, Goes, Ends, At, Completes, TurnOver, TaskLeaves, client, Shape, FreshMove
<1>21. ASSUME NEW c \in Call, LocalLaunches(c) PROVE FreshMove
  BY <1>0, <1>21, Ending DEF LocalLaunches, Goes, Ends, At, Completes, TurnOver, TaskLeaves, client, Shape, FreshMove
<1>22. ASSUME LocalEnds PROVE FreshMove
  BY <1>0, <1>22, Ending DEF LocalEnds, Goes, Ends, At, Completes, TurnOver, TaskLeaves, client, Shape, FreshMove
<1>23. ASSUME PipeCancelled PROVE FreshMove
  BY <1>0, <1>23, Ending DEF PipeCancelled, Goes, Ends, At, Completes, TurnOver, TaskLeaves, client, Shape, FreshMove
<1>24. ASSUME CancelRun PROVE FreshMove
  BY <1>0, <1>24, Ending DEF CancelRun, Goes, Ends, At, Completes, TurnOver, TaskLeaves, client, Shape, FreshMove
<1>25. ASSUME Reply PROVE FreshMove
  BY <1>0, <1>25, Ending DEF Reply, Goes, Ends, At, Completes, TurnOver, TaskLeaves, client, Shape, FreshMove
<1> QED
  BY <1>1, <1>2, <1>3, <1>4, <1>5, <1>6, <1>7, <1>8, <1>9, <1>10, <1>11, <1>12, <1>13, <1>14, <1>15, <1>16, <1>17, <1>18, <1>19, <1>20, <1>21, <1>22, <1>23, <1>24, <1>25 DEF Next, PipeStep

LEMMA FreshStep == ASSUME TypeOK, StepInv, TurnInv, FreshInv, Next PROVE FreshInv'
<1>0. /\ Shape(inv) /\ RestType /\ Fields(inv) /\ session.step \in Nat /\ resumes \in 0 .. MaxResumes
      /\ inv.pc \notin {"none", "start"} => session.step = inv.step
      /\ task \in [Call -> {"none", "pending", "running"} \cup Ended] /\ running \subseteq Call
      /\ \A c \in Call : c[1] \in Nat
  BY Types, Bounds, Room, CallTypes DEF StepInv, RestType
<1>1. \A c \in Later : c \in Call /\ c[1] = 0 /\ c # FastTask /\ c # LocalTask
  BY LaterTypes
<1>2. FastTask = <<0, resumes + 1>> /\ FastTask \in Call /\ FastTask[1] = 0
  BY FastTaskType DEF FastTask
<1>3. CASE PipeStarts
  <2>1. /\ inv.pc = "start" /\ UNCHANGED <<session, resumes>> /\ inv'.pc \in {"head", "fast"}
        /\ inv'.step = session.step
        /\ \/ inv'.pc = "head" /\ UNCHANGED <<task, running>>
           \/ /\ session.step = 0 /\ running' = {FastTask} /\ task' = [task EXCEPT ![FastTask] = "running"]
    BY <1>3, PipeStartsMoves
  <2>2. CASE UNCHANGED <<task, running>> /\ inv'.pc = "head"
    BY <2>1, <2>2, LaterTypes DEF FreshInv, Fresh
  <2>3. CASE /\ session.step = 0 /\ running' = {FastTask} /\ task' = [task EXCEPT ![FastTask] = "running"]
    <3>2. \A c \in Call : c # FastTask => task'[c] = task[c]
      BY <1>0, <1>2, <2>3
    <3>3. task'[FastTask] = "running"
      BY <1>0, <1>2, <2>3
    <3>4. \A c \in Later' : Fresh(c)'
      BY <1>1, <2>1, <3>2, LaterTypes DEF FreshInv, Fresh
    <3>5. \A c \in Call : c[1] > session'.step => Fresh(c)'
      BY <1>0, <1>2, <2>1, <2>3, <3>2 DEF FreshInv, Fresh
    <3> QED
      BY <2>1, <2>3, <3>3, <3>4, <3>5 DEF FreshInv, Fresh
  <2> QED
    BY <2>1, <2>2, <2>3
<1>4. CASE TurnPlanned
  <2>1. /\ inv.pc = "plan" /\ inv'.pc \in {"serial", "gather"} /\ inv'.step = inv.step
        /\ session'.step = session.step /\ UNCHANGED resumes /\ running' = Independent
    BY <1>4, TurnPlannedMoves DEF Keeps, Names
  <2>2. task' = [c \in Call |-> CASE c \in Invalid -> "invalid"
                                  [] c \in Independent -> "running"
                                  [] c \in Dependent -> "pending"
                                  [] OTHER -> task[c]]
    BY <1>4 DEF TurnPlanned
  <2>3. \A c \in Invalid \cup Planned : c \in Call /\ c[1] = inv.step
    BY <2>1, CallsTypes DEF InTurn, Invalid, Planned
  <2>4. Independent \subseteq Planned /\ Dependent \subseteq Planned
    BY DEF Independent, Dependent
  <2>5. \A c \in Call : c[1] # inv.step => task'[c] = task[c]
    BY <2>2, <2>3, <2>4
  <2>6. \A c \in Independent : task'[c] # "none"
    BY <2>2, <2>3, <2>4
  <2>7. inv.step \in 1 .. MaxTurns
    BY <2>1 DEF TurnInv, InTurn
  <2>8. \A c \in Later' : Fresh(c)'
    BY <1>1, <2>1, <2>5, <2>7, LaterTypes DEF FreshInv, Fresh
  <2>9. \A c \in Call : c[1] > session'.step => Fresh(c)'
    BY <1>0, <2>1, <2>5 DEF FreshInv, Fresh
  <2> QED
    BY <2>1, <2>6, <2>8, <2>9 DEF FreshInv, Fresh
<1>5. CASE FallsBack
  <2>1. /\ inv'.pc \in {"none", "local"} /\ UNCHANGED <<session, running, resumes>>
        /\ UNCHANGED task \/ task' = [task EXCEPT ![LocalTask] = "pending"]
    BY <1>0, <1>5, Ending DEF FallsBack, Shape, client
  <2>2. LocalTask \in Call /\ LocalTask[1] = 0
    BY CallTypes DEF LocalTask
  <2>3. \A c \in Call : c # LocalTask => task'[c] = task[c]
    BY <1>0, <2>1, <2>2
  <2>4. task'[LocalTask] \in {"pending", task[LocalTask]}
    BY <1>0, <2>1, <2>2
  <2>5. \A c \in Later' : Fresh(c)'
    BY <1>1, <2>1, <2>3, LaterTypes DEF FreshInv, Fresh
  <2>6. \A c \in Call : c[1] > session'.step => Fresh(c)'
    BY <1>0, <2>1, <2>2, <2>3 DEF FreshInv, Fresh
  <2>7. \A c \in running' : ~Fresh(c)'
    BY <1>0, <2>1, <2>3, <2>4 DEF FreshInv, Fresh
  <2> QED
    BY <2>1, <2>5, <2>6, <2>7 DEF FreshInv
<1>6. CASE StepBegins
  <2>1. /\ inv.pc = "head" /\ inv'.pc \in {"fallback", "ask"} /\ inv'.step = inv.step + 1
        /\ session'.step = session.step + 1 /\ UNCHANGED <<task, running, resumes>>
    BY <1>0, <1>6, StepBeginsMoves
  <2> QED
    BY <1>0, <2>1, LaterTypes DEF FreshInv, Fresh
<1>7. CASE Resume
  <2>1. /\ session'.step = session.step /\ UNCHANGED <<task, running>>
        /\ \/ /\ resumes < MaxResumes /\ resumes' = resumes + 1 /\ inv'.pc = "start"
           \/ UNCHANGED <<inv, resumes>>
    BY <1>0, <1>7 DEF Resume, RestType, Shape
  <2>2. CASE UNCHANGED <<inv, resumes>>
    BY <2>1, <2>2, LaterTypes DEF FreshInv, Fresh
  <2>3. CASE resumes < MaxResumes /\ resumes' = resumes + 1 /\ inv'.pc = "start"
    <3>1. Later' \subseteq Later /\ FastTask' \in Later
      BY <2>3, LaterTypes
    <3> QED
      BY <2>1, <2>3, <3>1 DEF FreshInv, Fresh
  <2> QED
    BY <2>1, <2>2, <2>3
<1>8. CASE ~PipeStarts /\ ~TurnPlanned /\ ~FallsBack /\ ~StepBegins /\ ~Resume
  <2>1. TasksStay /\ FreshMove
    BY <1>8, TasksStayIf, FreshMoves
  <2>2. Later' = Later /\ FastTask' = FastTask
    BY <2>1, LaterTypes DEF FreshMove
  <2>3. inv.step \in Nat /\ session'.step >= session.step
    BY <1>0, <2>1, Bounds, Room DEF FreshMove, Fields
  <2>4. \A c \in Call : c[1] > session'.step => c[1] > session.step
    BY <1>0, <2>1, <2>3 DEF FreshMove
  <2>5. \A c \in Later' : Fresh(c)'
    BY <1>1, <2>1, <2>2 DEF TasksStay, FreshInv
  <2>6. inv'.pc = "start" => Fresh(FastTask)'
    BY <1>2, <2>1, <2>2 DEF TasksStay, FreshInv, FreshMove, Fresh
  <2>7. \A c \in Call : c[1] > session'.step => Fresh(c)'
    BY <2>1, <2>4 DEF TasksStay, FreshInv
  <2>8. \A c \in running' : ~Fresh(c)'
    BY <2>1 DEF TasksStay, FreshInv
  <2> QED
    BY <2>1, <2>5, <2>6, <2>7, <2>8 DEF TasksStay, FreshMove, FreshInv
<1> QED
  BY <1>3, <1>4, <1>5, <1>6, <1>7, <1>8

\* Only what has just been made, or is pending, is begun.
LEMMA DoneStep ==
    ASSUME TypeOK, TurnInv, FreshInv, Next
    PROVE  \A c \in Call : task[c] \in Ended => c \notin running' \ running
<1>0. \A c \in Call : Fresh(c) => task[c] \notin Ended
  BY DEF Fresh, Ended
<1>1. CASE PipeStarts
  <2>1. inv.pc = "start" /\ running' \subseteq running \cup {FastTask}
    BY <1>1, PipeStartsMoves
  <2> QED
    BY <1>0, <2>1 DEF FreshInv
<1>2. CASE TurnPlanned
  <2>1. inv.pc = "plan" /\ running' = Independent
    BY <1>2, TurnPlannedMoves
  <2>2. \A c \in Independent : c \in Call /\ c[1] = inv.step
    BY <2>1, CallsTypes DEF Independent, Planned, InTurn
  <2> QED
    BY <1>0, <2>1, <2>2 DEF FreshInv
<1>3. CASE SerialNext
  <2> DEFINE left == {c \in Dependent : task[c] = "pending"}
  <2>1. running' = {} \/ (running' = {Earliest(left)} /\ left # {})
    BY <1>3 DEF SerialNext, Launches
  <2>2. left # {} => Earliest(left) \in left
    <3>1. \A c \in Dependent : c[2] \in Nat
      BY <1>3, CallsTypes DEF SerialNext, At, InTurn, Dependent, Planned
    <3> QED
      BY <3>1, EarliestOf
  <2> QED
    BY <2>1, <2>2 DEF Ended
<1>4. ASSUME NEW c \in Call, LocalLaunches(c)
      PROVE  \A d \in Call : task[d] \in Ended => d \notin running' \ running
  BY <1>4 DEF LocalLaunches, Launches, Runnable, Ended
<1>5. CASE /\ ~PipeStarts /\ ~TurnPlanned /\ ~SerialNext
           /\ \A c \in Call : ~LocalLaunches(c)
  <2>1. running' \subseteq running
    BY <1>5, StepBeginsMoves, PostFailsMoves, OverMoves, ModelCallsMoves, SubBeginsMoves,
       SetBranchMoves, SubsAnsweredMoves, TurnAnsweredMoves
       DEF Next, PipeStep, FastTaskDone, FastSummarizes, OverBudget, OutOfSteps, BranchesStop, SubEnds,
           GatherEnds, SerialThrows, TaskEnds, LocalTaskEnds, TaskLeaves, FallsBack, LocalEnds,
           PipeCancelled, CancelRun, Reply, Resume
  <2> QED
    BY <2>1
<1> QED
  BY <1>1, <1>2, <1>3, <1>4, <1>5

----------------------------------------------------------------------------
(* The theorems *)

Inv == /\ TypeOK /\ StepInv /\ TurnInv
       /\ QuestionInv /\ NoBranchLeft /\ RunningInv /\ OpenInv /\ FreshInv

LEMMA TypeStep == ASSUME TypeOK, StepInv, TurnInv, Next PROVE TypeOK'
  BY PipeStartsType, FastTaskDoneType, FastSummarizesType, StepBeginsType, OverBudgetType,
     OutOfStepsType, PostFailsType, PostEscapesType, ModelSaysType, ModelCallsType,
     SubBeginsType, BranchesStopType, SubEndsType, SubsAnsweredType, BranchStartsType,
     BranchEndsType, TurnPlannedType, GatherEndsType, SerialNextType, SerialThrowsType,
     TurnAnsweredType, TaskEndsType, LocalTaskEndsType, FallsBackType, LocalLaunchesType,
     LocalEndsType, PipeCancelledType, CancelRunType, ReplyType, ResumeType
     DEF Next, PipeStep

LEMMA InvInit == Init => Inv
<1> SUFFICES ASSUME Init PROVE Inv
  OBVIOUS
<1>1. TypeOK /\ StepInv /\ TurnInv
  BY TypeInit
<1>2. /\ inv.pc = "start" /\ inv.question = FreshConfig /\ inv.open = {}
      /\ inv.branch = [b \in Branch |-> "none"]
  BY NoInvocationType, InvocationRecord DEF Init, Shape
<1>3. QuestionInv /\ NoBranchLeft /\ RunningInv
  BY <1>2, WithinFresh DEF Init, QuestionInv, NoBranchLeft, Unfinished, RunningInv
<1>4. OpenInv
  BY <1>2 DEF Init, OpenInv
<1>5. FreshInv
  BY <1>1, <1>2, LaterTypes, FastTaskType DEF Init, FreshInv, Fresh
<1> QED
  BY <1>1, <1>3, <1>4, <1>5 DEF Inv

LEMMA InvStutter == Inv /\ UNCHANGED vars => Inv'
<1> SUFFICES ASSUME Inv, UNCHANGED vars PROVE Inv'
  OBVIOUS
<1>1. TypeOK'
  BY DEF Inv, vars, TypeOK
<1>2. StepInv' /\ TurnInv' /\ QuestionInv' /\ NoBranchLeft'
  BY DEF Inv, vars, StepInv, TurnInv, QuestionInv, NoBranchLeft, Unfinished
<1>3. RunningInv'
  BY SameCalls DEF Inv, vars, RunningInv
<1>4. OpenInv'
  BY SameCalls DEF Inv, vars, OpenInv, Old
<1>5. FreshInv'
  BY LaterTypes DEF Inv, vars, FreshInv, Fresh
<1> QED
  BY <1>1, <1>2, <1>3, <1>4, <1>5 DEF Inv

\* The invariant the theorems rest on: the steps, the turn, the question, what runs, what is unanswered
\* and what has not been begun, each as AgenticLoop.run and runtime_manager.py leave it.
THEOREM InvCorrect == Spec => []Inv
<1>1. Inv /\ [Next]_vars => Inv'
  <2> SUFFICES ASSUME Inv, [Next]_vars PROVE Inv'
    OBVIOUS
  <2>1. CASE Next
    BY <2>1, TypeStep, StepStep, TurnStep, QuestionStep, BranchStep, RunningStep, OpenStep, FreshStep DEF Inv
  <2>2. CASE UNCHANGED vars
    BY <2>2, InvStutter
  <2> QED
    BY <2>1, <2>2
<1> QED
  BY <1>1, InvInit, PTL DEF Spec

\* Every variable of the run and of the pipeline keeps the values AgenticLoop gives it.
THEOREM TypeCorrect == Spec => []TypeOK
<1>1. Inv => TypeOK
  BY DEF Inv
<1> QED
  BY <1>1, InvCorrect, PTL

\* Whatever the model answers and whatever becomes of its calls, every question to it comes with an
\* answer to each call it has made in this invocation of agentic_loop.run.
THEOREM AnsweredCorrect == Spec => []AnsweredBeforeAsked
<1>1. Inv => AnsweredBeforeAsked
  BY AnsweredIf DEF Inv
<1> QED
  BY <1>1, InvCorrect, PTL

\* A call that mutates is never executed at the same time as another call of its turn, in turns of
\* any length and mixture.
THEOREM MutatorCorrect == Spec => []MutatorAlone
<1>1. Inv => MutatorAlone
  BY AloneIf DEF Inv
<1> QED
  BY <1>1, InvCorrect, PTL

\* The retries of the provider client, the lighter payloads and the turn's own repetitions stay within
\* their product, in whatever order the posts fail.
THEOREM PostsCorrect == Spec => []PostsBounded
<1>1. Inv => PostsBounded
  BY WithinBound, Types DEF Inv, PostsBounded, QuestionInv, Fields
<1> QED
  BY <1>1, InvCorrect, PTL

\* No branch of a subagent call outlives the call, for any number of branches.
THEOREM BranchCorrect == Spec => []NoBranchLeft
<1>1. Inv => NoBranchLeft
  BY DEF Inv
<1> QED
  BY <1>1, InvCorrect, PTL

\* A task that has ended is not begun again: by the loop, by the fallback, or by any resume.
THEOREM DoneCorrect == Spec => WhatIsDoneStaysDone
<1>1. Inv /\ [Next]_vars => [\A c \in Call : task[c] \in Ended => c \notin running' \ running]_vars
  BY DoneStep DEF Inv
<1> QED
  BY <1>1, InvCorrect, PTL DEF Spec, WhatIsDoneStaysDone

----------------------------------------------------------------------------
(* The end of an invocation *)

Made == {c \in Call : ~Fresh(c)}
\* Only finitely many tasks have been made, however many calls the model could make.
MadeInv == IsFiniteSet(Made)

LEMMA CallsFinite ==
    ASSUME TypeOK, NEW kinds
    PROVE  IsFiniteSet(Calls(kinds))
<1> DEFINE places == {i \in DOMAIN inv.turn : inv.turn[i] \in kinds}
           call == [i \in places |-> AtCall(i)]
<1>1. inv.turn \in Seq(Kind)
  <2>1. inv.turn \in Turns \cup {<<>>}
    BY Types DEF Fields
  <2>2. <<>> \in Seq(Kind)
    OBVIOUS
  <2> QED
    BY <2>1, <2>2, TurnTypes
<1>2. DOMAIN inv.turn = 1 .. Len(inv.turn) /\ Len(inv.turn) \in Nat
  BY <1>1
<1>3. IsFiniteSet(places)
  <2>1. IsFiniteSet(1 .. Len(inv.turn))
    BY <1>2, FS_Interval
  <2>2. places \in SUBSET (1 .. Len(inv.turn))
    BY <1>2
  <2> HIDE DEF places
  <2> QED
    BY <2>1, <2>2, FS_Subset
<1>4. call \in Surjection(places, Calls(kinds))
  <2>1. call \in [places -> Calls(kinds)]
    BY DEF Calls
  <2>2. \A c \in Calls(kinds) : \E i \in places : call[i] = c
    BY DEF Calls
  <2> HIDE DEF call, places
  <2> QED
    BY <2>1, <2>2 DEF Surjection
<1> HIDE DEF call, places
<1> QED
  BY <1>3, <1>4, FS_Surjection

\* A step that makes finitely many tasks leaves finitely many.
LEMMA MadeGrows ==
    ASSUME MadeInv, NEW new, IsFiniteSet(new), Made' \subseteq Made \cup new
    PROVE  MadeInv'
<1>1. IsFiniteSet(Made \cup new)
  BY FS_Union DEF MadeInv
<1>2. IsFiniteSet(Made')
  BY <1>1, FS_Subset
<1> QED
  BY <1>2 DEF MadeInv

LEMMA MadeStep ==
    ASSUME TypeOK, TurnInv, FreshInv, MadeInv, Next
    PROVE  MadeInv'
<1>0. RestType /\ task \in [Call -> {"none", "pending", "running"} \cup Ended] /\ FastTask \in Call
  BY Types, FastTaskType DEF RestType
<1>1. CASE PipeStarts
  <2>1. UNCHANGED task \/ task' = [task EXCEPT ![FastTask] = "running"]
    BY <1>1, PipeStartsMoves
  <2>2. Made' \subseteq Made \cup {FastTask}
    BY <1>0, <2>1 DEF Made, Fresh
  <2> QED
    BY <2>2, MadeGrows, FS_Singleton
<1>2. CASE TurnPlanned
  <2>1. task' = [c \in Call |-> CASE c \in Invalid -> "invalid"
                                  [] c \in Independent -> "running"
                                  [] c \in Dependent -> "pending"
                                  [] OTHER -> task[c]]
    BY <1>2 DEF TurnPlanned
  <2>2. Independent \subseteq Planned /\ Dependent \subseteq Planned
    BY DEF Independent, Dependent
  <2>3. \A c \in Call : c \notin Invalid \cup Planned => task'[c] = task[c]
    BY <2>1, <2>2
  <2>4. Made' \subseteq Made \cup (Invalid \cup Planned)
    BY <2>3 DEF Made, Fresh
  <2>5. IsFiniteSet(Invalid) /\ IsFiniteSet(Planned)
    BY CallsFinite DEF Invalid, Planned
  <2>6. IsFiniteSet(Invalid \cup Planned)
    BY <2>5, FS_Union
  <2> QED
    BY <2>4, <2>6, MadeGrows
<1>3. CASE FallsBack
  <2>1. UNCHANGED task \/ task' = [task EXCEPT ![LocalTask] = "pending"]
    BY <1>3 DEF FallsBack
  <2>2. Made' \subseteq Made \cup {LocalTask}
    BY <1>0, <2>1 DEF Made, Fresh
  <2> QED
    BY <2>2, MadeGrows, FS_Singleton
<1>4. CASE ~PipeStarts /\ ~TurnPlanned /\ ~FallsBack
  <2>1. Made' \subseteq Made \cup {}
    BY <1>4, TasksStayIf DEF TasksStay, Made
  <2> QED
    BY <2>1, MadeGrows, FS_EmptySet
<1> QED
  BY <1>1, <1>2, <1>3, <1>4

EndInv == Inv /\ MadeInv

LEMMA EndInvCorrect == Spec => []EndInv
<1>1. Init => EndInv
  <2> SUFFICES ASSUME Init PROVE EndInv
    OBVIOUS
  <2>1. Made = {}
    BY DEF Init, Made, Fresh
  <2> QED
    BY <2>1, InvInit, FS_EmptySet DEF EndInv, MadeInv
<1>2. EndInv /\ [Next]_vars => EndInv'
  <2> SUFFICES ASSUME EndInv, [Next]_vars PROVE EndInv'
    OBVIOUS
  <2>1. CASE Next
    BY <2>1, TypeStep, StepStep, TurnStep, QuestionStep, BranchStep, RunningStep, OpenStep, FreshStep,
       MadeStep DEF Inv, EndInv
  <2>2. CASE UNCHANGED vars
    <3>1. Made' = Made
      BY <2>2 DEF vars, Made, Fresh
    <3> QED
      BY <2>2, <3>1, InvStutter DEF EndInv, MadeInv
  <2> QED
    BY <2>1, <2>2
<1> QED
  BY <1>1, <1>2, PTL DEF Spec

(* What an invocation still has before it: the steps of the loop and the places outside it, the    *)
(* places of a step, what is left to do at a place, and the branches of a subagent call.          *)
Distance(i) ==
    CASE i.pc = "start" -> MaxSteps + 5
      [] i.pc = "fast" -> MaxSteps + 4
      [] i.pc = "summarize" -> MaxSteps + 3
      [] i.pc = "fallback" -> 1
      [] i.pc \in {"local", "none"} -> 0
      [] OTHER -> i.start + MaxSteps - i.step + 2
Depth(pc) ==
    CASE pc = "ask" -> 7
      [] pc \in {"subs", "branches"} -> 6
      [] pc = "plan" -> 5
      [] pc = "gather" -> 4
      [] pc = "serial" -> 3
      [] pc = "answer" -> 2
      [] pc = "head" -> 1
      [] OTHER -> 0
Waiting == {c \in Call : task[c] = "pending"}
TasksLeft == 2 * Cardinality(Waiting) + Cardinality(running)
Todo ==
    CASE inv.pc = "ask" -> MostPosts - inv.question.posts
      [] inv.pc \in {"subs", "branches"} -> Cardinality(SubsLeft)
      [] inv.pc \in {"fast", "gather", "serial", "local"} -> TasksLeft
      [] OTHER -> 0
NotBegun == {b \in Branch : inv.branch[b] = "waiting"}
NotEnded == {b \in Branch : Unfinished(b)}
Branches ==
    IF inv.pc = "branches" THEN 1 + Cardinality(NotBegun) + Cardinality(NotEnded) ELSE 0

Ahead == Distance(inv)
Level == Depth(inv.pc)

\* The four numbers in order, and the order of such fours.
ToGo == <<<<Ahead, Level>>, <<Todo, Branches>>>>
Pairs == Nat \X Nat
PairsBelow == LexPairOrdering(OpToRel(<, Nat), OpToRel(<, Nat), Nat, Nat)
Below == LexPairOrdering(PairsBelow, PairsBelow, Pairs, Pairs)

\* The order is well-founded: ToGo, what an invocation of AgenticLoop.run still has before it, cannot
\* fall forever.
THEOREM BelowIsWellFounded == IsWellFoundedOn(Below, Pairs \X Pairs)
<1>1. IsWellFoundedOn(PairsBelow, Pairs)
  BY NatLessThanWellFounded, WFLexPairOrdering DEF PairsBelow, Pairs
<1> QED
  BY <1>1, WFLexPairOrdering DEF Below

LEMMA PairsIf ==
    ASSUME NEW m \in Nat, NEW n \in Nat, NEW p \in Nat, NEW q \in Nat, m < p \/ (m = p /\ n < q)
    PROVE  <<<<m, n>>, <<p, q>>>> \in PairsBelow
<1>1. m < p => <<m, p>> \in OpToRel(<, Nat)
  BY DEF OpToRel
<1>2. n < q => <<n, q>> \in OpToRel(<, Nat)
  BY DEF OpToRel
<1> QED
  BY <1>1, <1>2 DEF PairsBelow, LexPairOrdering

LEMMA BelowIf ==
    ASSUME NEW x \in Pairs, NEW y \in Pairs, NEW v \in Pairs, NEW w \in Pairs,
           <<x, v>> \in PairsBelow \/ (x = v /\ <<y, w>> \in PairsBelow)
    PROVE  <<<<x, y>>, <<v, w>>>> \in Below
  BY DEF Below, LexPairOrdering

LEMMA Distances ==
    ASSUME NEW i
    PROVE  /\ i.pc = "start" => Distance(i) = MaxSteps + 5
           /\ i.pc = "fast" => Distance(i) = MaxSteps + 4
           /\ i.pc = "summarize" => Distance(i) = MaxSteps + 3
           /\ i.pc = "fallback" => Distance(i) = 1
           /\ i.pc \in {"local", "none"} => Distance(i) = 0
           /\ i.pc \in {"head", "ask"} \cup InTurn => Distance(i) = i.start + MaxSteps - i.step + 2
  BY DEF Distance, InTurn

LEMMA TasksFinite ==
    ASSUME EndInv
    PROVE  /\ IsFiniteSet(Waiting) /\ IsFiniteSet(running) /\ IsFiniteSet(SubsLeft)
           /\ IsFiniteSet(NotBegun) /\ IsFiniteSet(NotEnded)
<1>1. TypeOK /\ MadeInv /\ FreshInv /\ running \subseteq Call
  BY Types DEF EndInv, Inv, RestType
<1>2. Waiting \subseteq Made /\ running \subseteq Made
  BY <1>1 DEF Waiting, Made, Fresh, FreshInv
<1>3. IsFiniteSet(Waiting) /\ IsFiniteSet(running)
  BY <1>1, <1>2, FS_Subset DEF MadeInv
<1>4. IsFiniteSet(Calls({"sub"})) /\ SubsLeft \subseteq Calls({"sub"})
  BY <1>1, CallsFinite DEF SubsLeft
<1>5. IsFiniteSet(SubsLeft)
  BY <1>4, FS_Subset
<1>6. IsFiniteSet(Branch) /\ NotBegun \subseteq Branch /\ NotEnded \subseteq Branch
  BY LoopAssumption DEF NotBegun, NotEnded
<1> QED
  BY <1>3, <1>5, <1>6, FS_Subset

Measured == Ahead \in Nat /\ Level \in Nat /\ Todo \in Nat /\ Branches \in Nat

LEMMA Numbers == EndInv => Measured
<1> SUFFICES ASSUME EndInv PROVE Measured
  OBVIOUS
<1>1. /\ TypeOK /\ StepInv /\ QuestionInv
      /\ Fields(inv)
  BY Types DEF EndInv, Inv
<1>2. Distance(inv) \in Nat
  <2>1. inv.start \in Int /\ inv.step \in Int
    BY <1>1, Room, Bounds DEF Fields
  <2>2. inv.pc \in {"head", "ask"} \cup InTurn => inv.step <= inv.start + MaxSteps
    BY <1>1 DEF StepInv, InTurn
  <2>3. inv.pc \in {"start", "fast", "summarize", "fallback", "local", "none"} \cup {"head", "ask"} \cup InTurn
    BY <1>1 DEF Fields, PCs, InTurn
  <2> QED
    BY <2>1, <2>2, <2>3, Bounds, Distances
<1>3. Depth(inv.pc) \in Nat
  BY DEF Depth
<1>4. Todo \in Nat
  <2>1. inv.question \in Question /\ inv.question.posts \in Nat /\ MostPosts \in Nat
    BY <1>1, QuestionRecord DEF Fields, QuestionFields, MostPosts, MaxRetries
  <2>2. MostPosts - inv.question.posts \in Nat
    BY <1>1, <2>1, WithinBound DEF QuestionInv
  <2>3. Cardinality(SubsLeft) \in Nat /\ Cardinality(Waiting) \in Nat /\ Cardinality(running) \in Nat
    BY TasksFinite, FS_CardinalityType
  <2>4. TasksLeft \in Nat
    BY <2>3 DEF TasksLeft
  <2> QED
    BY <2>2, <2>3, <2>4 DEF Todo
<1>5. Branches \in Nat
  <2>1. Cardinality(NotBegun) \in Nat /\ Cardinality(NotEnded) \in Nat
    BY TasksFinite, FS_CardinalityType
  <2> QED
    BY <2>1 DEF Branches
<1> QED
  BY <1>2, <1>3, <1>4, <1>5 DEF Measured, Ahead, Level

Falls ==
    \/ Ahead' < Ahead
    \/ Ahead' = Ahead /\ Level' < Level
    \/ Ahead' = Ahead /\ Level' = Level /\ Todo' < Todo
    \/ /\ Ahead' = Ahead /\ Level' = Level
       /\ Todo' = Todo /\ Branches' < Branches

LEMMA FallsBelow == ASSUME EndInv, EndInv', Falls PROVE <<ToGo', ToGo>> \in Below
<1>1. Measured
  BY Numbers
<1>2. Measured'
  BY Numbers, PTL
<1>3. /\ <<Ahead', Level'>> \in Pairs /\ <<Todo', Branches'>> \in Pairs
      /\ <<Ahead, Level>> \in Pairs /\ <<Todo, Branches>> \in Pairs
  BY <1>1, <1>2 DEF Measured, Pairs
<1>4. CASE Ahead' < Ahead \/ (Ahead' = Ahead /\ Level' < Level)
  <2>1. <<<<Ahead', Level'>>, <<Ahead, Level>>>> \in PairsBelow
    BY <1>1, <1>2, <1>4, PairsIf DEF Measured
  <2> QED
    BY <1>3, <2>1, BelowIf DEF ToGo
<1>5. CASE Ahead' = Ahead /\ Level' = Level /\ (Todo' < Todo \/ (Todo' = Todo /\ Branches' < Branches))
  <2>1. <<<<Todo', Branches'>>, <<Todo, Branches>>>> \in PairsBelow
    BY <1>1, <1>2, <1>5, PairsIf DEF Measured
  <2> QED
    BY <1>3, <1>5, <2>1, BelowIf DEF ToGo
<1> QED
  BY <1>4, <1>5 DEF Falls

\* The steps that leave a place of the pipeline for good, or begin a step of the loop.
LEMMA AheadFalls ==
    ASSUME TypeOK, StepInv,
           \/ PipeStarts \/ FastTaskDone \/ FastSummarizes \/ StepBegins \/ OutOfSteps
           \/ PostEscapes \/ ModelSays \/ SerialThrows \/ FallsBack,
           inv'.pc # "none"
    PROVE  Ahead' < Ahead
<1>0. /\ Shape(inv) /\ Fields(inv) /\ RestType /\ inv.start \in Int /\ inv.step \in Int
      /\ session.step \in Int
  BY Types, Bounds, Room DEF Fields, RestType
<1> DEFINE steps == /\ inv.pc \notin {"none", "start"} =>
                          inv.start <= inv.step /\ inv.step <= inv.start + MaxSteps
<1>1. steps
  BY DEF StepInv
<1>2. ASSUME PipeStarts PROVE Distance(inv') < Distance(inv)
  <2>1. /\ inv.pc = "start" /\ inv'.pc \in {"head", "fast"} /\ inv'.start = session.step
        /\ inv'.step = session.step
    BY <1>2, PipeStartsMoves
  <2> QED
    BY <1>0, <2>1, Distances, Bounds
<1>3. ASSUME FastTaskDone PROVE Distance(inv') < Distance(inv)
  <2>1. /\ inv.pc = "fast" /\ inv'.pc \in {"summarize", "head"} /\ inv'.start = inv.start
        /\ inv'.step = inv.step
    BY <1>0, <1>3 DEF FastTaskDone, Goes, At, Shape
  <2> QED
    BY <1>0, <1>1, <2>1, Distances, Bounds
<1>4. ASSUME FastSummarizes PROVE Distance(inv') < Distance(inv)
  <2>1. /\ inv.pc = "summarize" /\ inv'.pc = "head" /\ inv'.start = inv.start
        /\ inv'.step = inv.step
    BY <1>0, <1>4, Ending DEF FastSummarizes, Goes, At, Shape
  <2> QED
    BY <1>0, <1>1, <2>1, Distances, Bounds
<1>5. ASSUME StepBegins PROVE Distance(inv') < Distance(inv)
  <2>1. /\ inv.pc = "head" /\ inv'.pc \in {"fallback", "ask"} /\ inv'.start = inv.start
        /\ inv'.step = inv.step + 1 /\ inv.step < inv.start + MaxSteps
    BY <1>5, StepBeginsMoves DEF Keeps, Names
  <2> QED
    BY <1>0, <2>1, Distances, Bounds
<1>6. ASSUME OutOfSteps \/ PostEscapes \/ ModelSays \/ SerialThrows PROVE Distance(inv') < Distance(inv)
  <2>1. inv.pc \in {"head", "ask", "serial"} /\ inv'.pc = "fallback"
    <3>1. ASSUME OutOfSteps PROVE inv.pc = "head" /\ inv'.pc = "fallback"
      BY <1>0, <3>1 DEF OutOfSteps, Goes, At, Shape
    <3>2. ASSUME PostEscapes \/ ModelSays PROVE inv.pc = "ask" /\ inv'.pc = "fallback"
      BY <3>2, OverMoves, Ending DEF Completes
    <3>3. ASSUME SerialThrows PROVE inv.pc = "serial" /\ inv'.pc = "fallback"
      BY <1>0, <3>3, Ending DEF SerialThrows, Goes, At, Shape, TurnOver
    <3> QED
      BY <1>6, <3>1, <3>2, <3>3
  <2> QED
    BY <1>0, <1>1, <2>1, Distances, Bounds DEF InTurn
<1>7. ASSUME FallsBack PROVE Distance(inv') < Distance(inv)
  <2>1. inv.pc = "fallback" /\ inv'.pc = "local"
    BY <1>0, <1>7, Ending DEF FallsBack, At, Shape
  <2> QED
    BY <2>1, Distances
<1> QED
  BY <1>2, <1>3, <1>4, <1>5, <1>6, <1>7 DEF Ahead

\* The steps that go on to the next place of a step of the loop.
LEMMA LevelFalls ==
    ASSUME TypeOK,
           \/ (\E t \in Turns : ModelCalls(t)) \/ SubsAnswered \/ TurnPlanned \/ GatherEnds
           \/ (SerialNext /\ inv'.pc = "answer") \/ TurnAnswered,
           inv'.pc # "none"
    PROVE  Ahead' = Ahead /\ Level' < Level
<1>0. Shape(inv)
  BY Types
<1> DEFINE loop == {"head", "ask", "subs", "plan", "gather", "serial", "answer"}
<1>1. ASSUME inv.pc \in loop, inv'.pc \in loop, inv'.start = inv.start, inv'.step = inv.step
      PROVE  Distance(inv') = Distance(inv)
  BY <1>1, Distances DEF InTurn
<1>2. ASSUME NEW t \in Turns, ModelCalls(t)
      PROVE  inv.pc = "ask" /\ inv'.pc \in {"subs", "plan"} /\ inv'.start = inv.start /\ inv'.step = inv.step
  BY <1>2, ModelCallsMoves, Ending DEF Keeps, Names
<1>3. ASSUME SubsAnswered
      PROVE  inv.pc = "subs" /\ inv'.pc \in {"head", "plan"} /\ inv'.start = inv.start /\ inv'.step = inv.step
  BY <1>3, SubsAnsweredMoves DEF Keeps, Names
<1>4. ASSUME TurnPlanned
      PROVE  inv.pc = "plan" /\ inv'.pc \in {"gather", "serial"} /\ inv'.start = inv.start /\ inv'.step = inv.step
  BY <1>4, TurnPlannedMoves DEF Keeps, Names
<1>5. ASSUME GatherEnds
      PROVE  inv.pc = "gather" /\ inv'.pc = "serial" /\ inv'.start = inv.start /\ inv'.step = inv.step
  BY <1>0, <1>5, Ending DEF GatherEnds, Goes, At, Shape
<1>6. ASSUME SerialNext
      PROVE  inv.pc = "serial" /\ inv'.start = inv.start /\ inv'.step = inv.step
  BY <1>0, <1>6 DEF SerialNext, At, Shape
<1>7. ASSUME TurnAnswered
      PROVE  inv.pc = "answer" /\ inv'.pc = "head" /\ inv'.start = inv.start /\ inv'.step = inv.step
  BY <1>7, TurnAnsweredMoves DEF Keeps, Names
<1>8. /\ inv.pc \in loop /\ inv'.pc \in loop /\ inv'.start = inv.start /\ inv'.step = inv.step
      /\ \/ inv.pc = "ask" /\ inv'.pc \in {"subs", "plan"}
         \/ inv.pc = "subs" /\ inv'.pc \in {"head", "plan"}
         \/ inv.pc = "plan" /\ inv'.pc \in {"gather", "serial"}
         \/ inv.pc = "gather" /\ inv'.pc = "serial"
         \/ inv.pc = "serial" /\ inv'.pc = "answer"
         \/ inv.pc = "answer" /\ inv'.pc = "head"
  BY <1>2, <1>3, <1>4, <1>5, <1>6, <1>7
<1>9. Depth(inv'.pc) < Depth(inv.pc)
  BY <1>8 DEF Depth
<1> QED
  BY <1>1, <1>8, <1>9 DEF Ahead, Level

LEMMA Shrinks ==
    ASSUME NEW S, NEW T, IsFiniteSet(S), T \subseteq S
    PROVE  /\ Cardinality(T) \in Nat /\ Cardinality(S) \in Nat /\ Cardinality(T) <= Cardinality(S)
           /\ T # S => Cardinality(T) < Cardinality(S)
<1>1. /\ IsFiniteSet(T) /\ Cardinality(T) <= Cardinality(S)
      /\ Cardinality(S) = Cardinality(T) => S = T
  BY FS_Subset
<1> QED
  BY <1>1, FS_CardinalityType

\* Where the invocation stays in its place, its distance and its level stay.
LEMMA PlaceStays ==
    ASSUME inv'.pc = inv.pc \/ (inv'.pc \in {"subs", "branches"} /\ inv.pc \in {"subs", "branches"}),
           inv'.start = inv.start, inv'.step = inv.step
    PROVE  Ahead' = Ahead /\ Level' = Level
<1>1. Depth(inv'.pc) = Depth(inv.pc)
  BY DEF Depth
<1>2. Distance(inv') = Distance(inv)
  BY DEF Distance
<1> QED
  BY <1>1, <1>2 DEF Ahead, Level

\* A post that fails and is repeated uses one of the posts of the turn.
LEMMA PostFalls ==
    ASSUME EndInv, NEW e \in PostError, PostFails(e), inv'.pc # "none"
    PROVE  Falls
<1>1. TypeOK /\ inv.question \in Question
  BY Types DEF EndInv, Inv, Fields
<1>2. inv.pc = "ask" /\ Keeps({"question"}) /\ inv'.question = Reposted(inv.question, e)
  BY <1>1, PostFailsMoves, Ending DEF Completes
<1>3. inv'.question.posts = inv.question.posts + 1 /\ inv.question.posts \in Nat
  <2>1. Reposted(inv.question, e).posts = inv.question.posts + 1
    BY <1>1, RepostedFields
  <2>2. inv.question.posts \in Nat
    BY <1>1 DEF Question
  <2> QED
    BY <1>2, <2>1, <2>2
<1>4. inv'.pc = "ask" /\ inv'.start = inv.start /\ inv'.step = inv.step
  BY <1>2 DEF Keeps, Names
<1>5. MostPosts \in Nat
  BY DEF MostPosts, MaxRetries
<1>6. Todo' = MostPosts - inv'.question.posts /\ Todo = MostPosts - inv.question.posts
  BY <1>2, <1>4 DEF Todo
<1>7. Todo' < Todo
  BY <1>3, <1>5, <1>6
<1>8. Ahead' = Ahead /\ Level' = Level
  BY <1>2, <1>4, PlaceStays
<1> QED
  BY <1>7, <1>8 DEF Falls

\* A subagent call that is begun is not begun again in its turn.
LEMMA SubFalls ==
    ASSUME EndInv, NEW stop \in BOOLEAN, SubBegins(stop)
    PROVE  Falls
<1>1. TypeOK /\ TurnInv /\ Shape(inv)
  BY Types DEF EndInv, Inv
<1>2. /\ inv.pc = "subs" /\ inv'.pc \in {"branches", "subs"} /\ Keeps({"pc", "group", "stop", "branch"})
      /\ SubsLeft # {}
  BY <1>1, SubBeginsMoves DEF SubBegins
<1> DEFINE first == Earliest(SubsLeft)
           sub == [inv EXCEPT !.group = first, !.stop = stop]
<1>3. inv'.group = first
  <2>1. \/ inv' = [[sub EXCEPT !.branch = [b \in Branch |-> "waiting"]] EXCEPT !.pc = "branches"]
        \/ inv' = [[sub EXCEPT !.branch = [b \in Branch |-> "none"]] EXCEPT !.pc = "subs"]
    BY DEF SubBegins, Goes
  <2>2. Shape(sub) /\ sub.group = first
    BY <1>1 DEF Shape
  <2> HIDE DEF sub, first
  <2> QED
    BY <2>1, <2>2 DEF Shape
<1>4. inv'.turn = inv.turn /\ inv'.step = inv.step /\ inv'.start = inv.start
  BY <1>2 DEF Keeps, Names
<1>5. /\ SubsLeft \subseteq Calls({"sub"})
      /\ \A c \in Calls({"sub"}) : c[1] = inv.step /\ c[2] \in Nat /\ inv.step >= 1
  BY <1>1, <1>2, CallsTypes, Bounds DEF SubsLeft, TurnInv, InTurn
<1>6. first \in SubsLeft
  BY <1>2, <1>5, EarliestOf
<1>7. first # NoCall /\ first[2] \in Nat
  BY <1>5, <1>6 DEF NoCall
<1>8. Calls({"sub"})' = Calls({"sub"})
  BY <1>4, SameCalls
<1> HIDE DEF first
<1>9. SubsLeft' = {c \in Calls({"sub"}) : c[2] > first[2]}
  BY <1>3, <1>7, <1>8 DEF SubsLeft
<1>10. inv.group = NoCall \/ (first[2] > inv.group[2] /\ inv.group[2] \in Nat)
  <2>1. inv.group \in Call \cup {NoCall}
    BY <1>1, Types DEF Fields
  <2> QED
    BY <1>6, <2>1, CallTypes DEF SubsLeft
<1>11. SubsLeft' \subseteq SubsLeft
  BY <1>5, <1>7, <1>9, <1>10 DEF SubsLeft
<1>12. first \notin SubsLeft'
  BY <1>7, <1>9
<1>13. Cardinality(SubsLeft') < Cardinality(SubsLeft)
  BY <1>6, <1>11, <1>12, TasksFinite, Shrinks
<1>14. Todo' = Cardinality(SubsLeft') /\ Todo = Cardinality(SubsLeft)
  BY <1>2 DEF Todo
<1>15. Ahead' = Ahead /\ Level' = Level
  BY <1>2, <1>4, PlaceStays
<1> QED
  BY <1>13, <1>14, <1>15 DEF Falls

\* What begins was pending, what ends no longer runs, and nothing else becomes pending.
LEMMA LaunchFalls ==
    ASSUME EndInv, NEW c \in Call, task[c] = "pending", running = {}, Launches({c}),
           inv.pc \in {"serial", "local"}, inv'.pc = inv.pc, inv'.start = inv.start, inv'.step = inv.step
    PROVE  Falls
<1>1. /\ running' = {c} /\ task' = [d \in Call |-> IF d \in {c} THEN "running" ELSE task[d]]
  BY DEF Launches
<1>2. Waiting' = Waiting \ {c} /\ c \in Waiting
  BY <1>1 DEF Waiting
<1>3. /\ Cardinality(Waiting') = Cardinality(Waiting) - 1 /\ Cardinality(Waiting) \in Nat
      /\ Cardinality(running') = 1 /\ Cardinality(running) = 0
  BY <1>1, <1>2, TasksFinite, FS_RemoveElement, FS_CardinalityType, FS_Singleton, FS_EmptySet
<1>4. TasksLeft' < TasksLeft
  BY <1>3 DEF TasksLeft
<1>5. Todo' = TasksLeft' /\ Todo = TasksLeft
  BY DEF Todo
<1>6. Ahead' = Ahead /\ Level' = Level
  BY PlaceStays
<1> QED
  BY <1>4, <1>5, <1>6 DEF Falls

LEMMA TaskFalls ==
    ASSUME EndInv, NEW c \in Call, NEW how \in Outcome, NEW asked \in BOOLEAN, TaskLeaves(c, how, asked),
           inv'.pc = inv.pc, inv'.start = inv.start, inv'.step = inv.step
    PROVE  Falls
<1>1. /\ RunningInv /\ task \in [Call -> {"none", "pending", "running"} \cup Ended]
  BY Types DEF EndInv, Inv, RestType
<1>2. inv.pc \in {"fast", "gather", "serial", "local"}
  BY <1>1 DEF RunningInv, TaskLeaves
<1>3. /\ c \in running /\ running' = running \ {c} /\ task' = [task EXCEPT ![c] = StatusOf(how)]
      /\ StatusOf(how) # "pending"
  BY DEF TaskLeaves, StatusOf
<1>4. Waiting' \subseteq Waiting
  BY <1>1, <1>3 DEF Waiting
<1>5. /\ Cardinality(Waiting') <= Cardinality(Waiting) /\ Cardinality(Waiting) \in Nat
      /\ Cardinality(Waiting') \in Nat
      /\ Cardinality(running') = Cardinality(running) - 1 /\ Cardinality(running) \in Nat
  BY <1>3, <1>4, TasksFinite, Shrinks, FS_RemoveElement, FS_CardinalityType
<1>6. TasksLeft' < TasksLeft
  BY <1>5 DEF TasksLeft
<1>7. Todo' = TasksLeft' /\ Todo = TasksLeft
  BY <1>2 DEF Todo
<1>8. Ahead' = Ahead /\ Level' = Level
  BY PlaceStays
<1> QED
  BY <1>6, <1>7, <1>8 DEF Falls

LEMMA SerialFalls ==
    ASSUME EndInv, SerialNext, inv'.pc # "answer"
    PROVE  Falls
<1> DEFINE left == {c \in Dependent : task[c] = "pending"}
<1>1. Shape(inv) /\ TypeOK /\ TurnInv
  BY Types DEF EndInv, Inv
<1>2. /\ inv.pc = "serial" /\ inv'.pc = "serial" /\ left # {} /\ running = {}
      /\ inv'.start = inv.start /\ inv'.step = inv.step /\ Launches({Earliest(left)})
  BY <1>1 DEF SerialNext, At, Shape
<1>3. \A c \in left : c[2] \in Nat /\ c \in Call /\ task[c] = "pending"
  BY <1>1, <1>2, CallsTypes DEF InTurn, Dependent, Planned
<1> HIDE DEF left
<1>4. Earliest(left) \in left
  BY <1>2, <1>3, EarliestOf
<1> QED
  BY <1>2, <1>3, <1>4, LaunchFalls

\* The branches of a call: each begins, ends or is cancelled once, and then the call is over.
LEMMA BranchFalls ==
    ASSUME EndInv, inv.pc = "branches", inv'.pc = "branches", Keeps({"branch"}),
           NotBegun' \subseteq NotBegun, NotEnded' \subseteq NotEnded,
           NotBegun' # NotBegun \/ NotEnded' # NotEnded
    PROVE  Falls
<1>1. inv'.turn = inv.turn /\ inv'.step = inv.step /\ inv'.start = inv.start /\ inv'.group = inv.group
  BY DEF Keeps, Names
<1>2. SubsLeft' = SubsLeft
  BY <1>1, SameCalls DEF SubsLeft
<1>3. Todo' = Todo
  BY <1>2 DEF Todo
<1>4. Cardinality(NotBegun') + Cardinality(NotEnded') < Cardinality(NotBegun) + Cardinality(NotEnded)
  <2>1. /\ Cardinality(NotBegun') \in Nat /\ Cardinality(NotBegun) \in Nat
        /\ Cardinality(NotBegun') <= Cardinality(NotBegun)
        /\ NotBegun' # NotBegun => Cardinality(NotBegun') < Cardinality(NotBegun)
    BY TasksFinite, Shrinks
  <2>2. /\ Cardinality(NotEnded') \in Nat /\ Cardinality(NotEnded) \in Nat
        /\ Cardinality(NotEnded') <= Cardinality(NotEnded)
        /\ NotEnded' # NotEnded => Cardinality(NotEnded') < Cardinality(NotEnded)
    BY TasksFinite, Shrinks
  <2> QED
    BY <2>1, <2>2
<1>5. /\ Cardinality(NotBegun') \in Nat /\ Cardinality(NotBegun) \in Nat
      /\ Cardinality(NotEnded') \in Nat /\ Cardinality(NotEnded) \in Nat
  BY TasksFinite, Shrinks
<1>6. /\ Branches' = 1 + Cardinality(NotBegun') + Cardinality(NotEnded')
      /\ Branches = 1 + Cardinality(NotBegun) + Cardinality(NotEnded)
  BY DEF Branches
<1>7. Branches' < Branches
  BY <1>4, <1>5, <1>6
<1>8. Ahead' = Ahead /\ Level' = Level
  BY <1>1, PlaceStays
<1> QED
  BY <1>3, <1>7, <1>8 DEF Falls

LEMMA BranchesFall ==
    ASSUME EndInv,
           (\E b \in Branch : BranchStarts(b) \/ BranchEnds(b)) \/ BranchesStop
    PROVE  Falls
<1>1. TypeOK /\ Shape(inv) /\ inv.branch \in [Branch -> BranchStatus]
  BY Types DEF EndInv, Inv, Fields
<1>2. ASSUME NEW b \in Branch, BranchStarts(b) \/ BranchEnds(b)
      PROVE  Falls
  <2>1. /\ inv.pc = "branches" /\ inv'.pc = "branches" /\ Keeps({"branch"})
    BY <1>1, <1>2, SetBranchMoves
  <2>2. PICK s \in BranchStatus :
             /\ SetBranch(b, s) /\ s # "waiting"
             /\ inv.branch[b] \in {"waiting", "asking"}
             /\ s = "asking" => inv.branch[b] = "waiting"
    BY <1>2 DEF BranchStarts, BranchEnds, BranchStatus
  <2>3. inv'.branch = [inv.branch EXCEPT ![b] = s]
    <3> DEFINE set == [inv EXCEPT !.branch[b] = s]
    <3>1. Shape(set) /\ set.branch = [inv.branch EXCEPT ![b] = s]
      BY <1>1 DEF Shape
    <3>2. inv' = [set EXCEPT !.pc = "branches"]
      BY <2>2 DEF SetBranch, Goes
    <3> HIDE DEF set
    <3> QED
      BY <3>1, <3>2 DEF Shape
  <2>4. /\ \A d \in Branch : d # b => inv'.branch[d] = inv.branch[d]
        /\ inv'.branch[b] = s
    BY <1>1, <2>3
  <2>5. NotBegun' \subseteq NotBegun /\ NotEnded' \subseteq NotEnded
    BY <2>2, <2>4 DEF NotBegun, NotEnded, Unfinished
  <2>6. NotBegun' # NotBegun \/ NotEnded' # NotEnded
    BY <2>2, <2>4 DEF NotBegun, NotEnded, Unfinished
  <2> QED
    BY <2>1, <2>5, <2>6, BranchFalls
<1>3. ASSUME BranchesStop
      PROVE  Falls
  <2> DEFINE over == [b \in Branch |-> IF Unfinished(b) THEN "cancelled" ELSE inv.branch[b]]
             stopped == [inv EXCEPT !.branch = over]
  <2>1. inv.pc = "branches" /\ inv' = [stopped EXCEPT !.pc = "branches"] /\ \E b \in Branch : Unfinished(b)
    BY <1>3 DEF BranchesStop, Goes, At
  <2>2. Shape(stopped) /\ stopped.branch = over /\ \A f \in Names \ {"branch"} : stopped[f] = inv[f]
    BY <1>1 DEF Shape, Names
  <2> HIDE DEF stopped, over
  <2>3. /\ inv'.pc = "branches" /\ Keeps({"branch"}) /\ inv'.branch = over
    BY <2>1, <2>2 DEF Shape, Keeps, Names
  <2>4. \A b \in Branch : inv'.branch[b] = IF Unfinished(b) THEN "cancelled" ELSE inv.branch[b]
    BY <2>3 DEF over
  <2>5. NotBegun' \subseteq NotBegun /\ NotEnded' = {} /\ NotEnded # {}
    BY <2>1, <2>4 DEF NotBegun, NotEnded, Unfinished
  <2> QED
    BY <2>1, <2>3, <2>5, BranchFalls
<1> QED
  BY <1>2, <1>3

LEMMA SubEndFalls ==
    ASSUME EndInv, SubEnds
    PROVE  Falls
<1>1. Shape(inv)
  BY Types DEF EndInv, Inv
<1>2. /\ inv.pc = "branches" /\ inv'.pc = "subs" /\ inv'.turn = inv.turn /\ inv'.step = inv.step
      /\ inv'.start = inv.start /\ inv'.group = inv.group
  BY <1>1 DEF SubEnds, Goes, At, Shape
<1>3. SubsLeft' = SubsLeft
  BY <1>2, SameCalls DEF SubsLeft
<1>4. Todo' = Todo
  BY <1>2, <1>3 DEF Todo
<1>5. Branches' < Branches
  <2>1. Cardinality(NotBegun) \in Nat /\ Cardinality(NotEnded) \in Nat
    BY TasksFinite, FS_CardinalityType
  <2> QED
    BY <1>2, <2>1 DEF Branches
<1>6. Ahead' = Ahead /\ Level' = Level
  BY <1>2, PlaceStays
<1> QED
  BY <1>4, <1>5, <1>6 DEF Falls

\* A client's call leaves the place of an invocation that is under way, and makes nothing pending.
LEMMA ClientsRaiseNothing ==
    ASSUME EndInv, CancelRun \/ Reply \/ Resume, inv.pc # "none"
    PROVE  Falls \/ UNCHANGED ToGo
<1>1. UNCHANGED <<inv, running>>
  BY DEF CancelRun, Reply, Resume
<1>2. Ahead' = Ahead /\ Level' = Level /\ SubsLeft' = SubsLeft /\ Branches' = Branches
  BY <1>1 DEF Ahead, Level, SubsLeft, Calls, AtCall, Branches, NotBegun, NotEnded, Unfinished
<1>3. task \in [Call -> {"none", "pending", "running"} \cup Ended]
  BY Types DEF EndInv, Inv, RestType
<1>4. Waiting' \subseteq Waiting
  BY <1>3 DEF CancelRun, Reply, Resume, Waiting
<1>5. /\ Cardinality(Waiting') \in Nat /\ Cardinality(Waiting) \in Nat /\ Cardinality(running) \in Nat
      /\ Cardinality(Waiting') <= Cardinality(Waiting)
  BY <1>4, TasksFinite, Shrinks, FS_CardinalityType
<1>6. TasksLeft' = TasksLeft \/ TasksLeft' < TasksLeft
  BY <1>1, <1>5 DEF TasksLeft
<1>7. Todo' = Todo \/ Todo' < Todo
  BY <1>1, <1>2, <1>6 DEF Todo
<1> QED
  BY <1>2, <1>7 DEF Falls, ToGo

LEMMA PipelineFalls ==
    ASSUME EndInv, PipeStep, inv.pc # "none", inv'.pc # "none"
    PROVE  Falls
<1>1. TypeOK /\ StepInv /\ Shape(inv)
  BY Types DEF EndInv, Inv
<1>2. CASE \/ PipeStarts \/ FastTaskDone \/ FastSummarizes \/ StepBegins \/ OutOfSteps
           \/ PostEscapes \/ ModelSays \/ SerialThrows \/ FallsBack
  BY <1>1, <1>2, AheadFalls DEF Falls
<1>3. CASE \/ (\E t \in Turns : ModelCalls(t)) \/ SubsAnswered \/ TurnPlanned \/ GatherEnds
           \/ (SerialNext /\ inv'.pc = "answer") \/ TurnAnswered
  BY <1>1, <1>3, LevelFalls DEF Falls
<1>4. CASE \E e \in PostError : PostFails(e)
  BY <1>4, PostFalls
<1>5. CASE \E stop \in BOOLEAN : SubBegins(stop)
  BY <1>5, SubFalls
<1>6. CASE SerialNext /\ inv'.pc # "answer"
  BY <1>6, SerialFalls
<1>7. CASE (\E b \in Branch : BranchStarts(b) \/ BranchEnds(b)) \/ BranchesStop
  BY <1>7, BranchesFall
<1>8. CASE SubEnds
  BY <1>8, SubEndFalls
<1>9. ASSUME NEW c \in Call, NEW how \in Outcome, NEW asked \in BOOLEAN,
             TaskEnds(c, how, asked) \/ LocalTaskEnds(c, how, asked)
      PROVE  Falls
  <2>1. /\ TaskLeaves(c, how, asked) /\ inv'.pc = inv.pc /\ inv'.start = inv.start
        /\ inv'.step = inv.step
    <3>1. CASE TaskEnds(c, how, asked)
      BY <1>1, <3>1 DEF TaskEnds, Shape
    <3>2. CASE LocalTaskEnds(c, how, asked)
      BY <1>1, <3>2, Ending DEF LocalTaskEnds
    <3> QED
      BY <1>9, <3>1, <3>2
  <2> QED
    BY <2>1, TaskFalls
<1>10. ASSUME NEW c \in Call, LocalLaunches(c)
       PROVE  Falls
  <2>1. /\ task[c] = "pending" /\ running = {} /\ Launches({c}) /\ inv.pc = "local" /\ UNCHANGED inv
    BY <1>10 DEF LocalLaunches, Runnable, At
  <2> QED
    BY <2>1, LaunchFalls
<1>11. CASE OverBudget \/ LocalEnds \/ PipeCancelled
  BY <1>11, Ending DEF OverBudget, LocalEnds, PipeCancelled, Completes
<1> QED
  BY <1>2, <1>3, <1>4, <1>5, <1>6, <1>7, <1>8, <1>9, <1>10, <1>11 DEF PipeStep

\* What DescentCorrect says of a step.
Descends ==
    [][(inv.pc # "none" /\ inv'.pc # "none") =>
          /\ PipeStep => <<ToGo', ToGo>> \in Below
          /\ <<ToGo', ToGo>> \in Below \/ UNCHANGED ToGo]_vars

\* Each step of AgenticLoop.run and of the pipeline around it either ends the invocation or brings its
\* end nearer, and what the clients call in between does not put it off: with BelowIsWellFounded
\* no invocation takes steps without end, however many calls the turns have, whatever fails, and
\* whoever replies, resumes or cancels.
THEOREM DescentCorrect == Spec => Descends
<1>1. EndInv /\ EndInv' /\ [Next]_vars =>
         [(inv.pc # "none" /\ inv'.pc # "none") =>
             /\ PipeStep => <<ToGo', ToGo>> \in Below
             /\ <<ToGo', ToGo>> \in Below \/ UNCHANGED ToGo]_vars
  <2> SUFFICES ASSUME EndInv, EndInv', Next, inv.pc # "none", inv'.pc # "none"
               PROVE  /\ PipeStep => <<ToGo', ToGo>> \in Below
                      /\ <<ToGo', ToGo>> \in Below \/ UNCHANGED ToGo
    OBVIOUS
  <2>1. PipeStep => Falls
    BY PipelineFalls
  <2>2. Falls => <<ToGo', ToGo>> \in Below
    BY FallsBelow
  <2>3. CancelRun \/ Reply \/ Resume => Falls \/ UNCHANGED ToGo
    BY ClientsRaiseNothing
  <2> QED
    BY <2>1, <2>2, <2>3 DEF Next
<1> QED
  BY <1>1, EndInvCorrect, PTL DEF Spec, Descends

----------------------------------------------------------------------------
(* The cause of a fallback *)

\* Once the loop has begun a step, the model has been asked; before that there is nothing to fall back
\* from, unless working out the complexity raises.
CauseInv ==
    "raises" \notin Complexity =>
        /\ inv.pc \in {"ask", "fallback"} \cup InTurn => inv.question.posts > 0
        /\ inv.pc = "head" /\ inv.step > inv.start => inv.question.posts > 0
        /\ inv.pc \in {"fast", "summarize"} => inv.step = inv.start

\* The steps after which the question and the steps are as they were, or the invocation is over.
LEMMA CauseStays ==
    ASSUME CauseInv, inv'.question = inv.question, inv'.start = inv.start, inv'.step = inv.step,
           \/ inv'.pc = inv.pc
           \/ /\ inv.pc \in {"ask", "fallback"} \cup InTurn
              /\ inv'.pc \notin {"fast", "summarize"}
    PROVE  CauseInv'
  BY DEF CauseInv

LEMMA CauseStep == ASSUME TypeOK, StepInv, CauseInv, Next PROVE CauseInv'
<1>0. /\ Shape(inv) /\ Fields(inv) /\ inv.question \in Question /\ Asked(inv.question).posts = 1
      /\ inv.start \in Int /\ inv.step \in Int /\ session.step \in Int
  <2>1. Shape(inv) /\ Fields(inv) /\ RestType /\ inv.question \in Question
    BY Types DEF Fields
  <2>2. inv.start \in Int /\ inv.step \in Int /\ session.step \in Int
    BY <2>1, Bounds, Room DEF Fields, RestType
  <2> QED
    BY <2>1, <2>2, AskedType
<1>1. ASSUME inv'.pc \in {"none", "start", "local"} PROVE CauseInv'
  BY <1>1 DEF CauseInv, InTurn
<1>2. CASE PipeStarts
  BY <1>0, <1>2, PipeStartsMoves DEF CauseInv, InTurn
<1>3. CASE FastTaskDone \/ FastSummarizes
  <2>1. /\ inv.pc \in {"fast", "summarize"} /\ inv'.pc \in {"summarize", "head", "none"}
        /\ inv'.pc # "none" => inv'.start = inv.start /\ inv'.step = inv.step
    BY <1>0, <1>3, Ending DEF FastTaskDone, FastSummarizes, Goes, At, Shape
  <2> QED
    BY <1>0, <1>1, <2>1 DEF CauseInv, InTurn
<1>4. CASE StepBegins
  <2>1. /\ inv'.pc \in {"fallback", "ask"}
        /\ inv'.pc = "fallback" => "raises" \in Complexity
        /\ inv'.pc = "ask" => inv'.question = Asked(inv.question)
    <3> DEFINE next == [inv EXCEPT !.step = @ + 1]
               asked == [next EXCEPT !.question = Asked(@)]
    <3>1. /\ Shape(next) /\ Shape(asked) /\ next.question = inv.question
          /\ asked.question = Asked(inv.question)
      BY <1>0 DEF Shape
    <3>2. \/ "raises" \in Complexity /\ inv' = [next EXCEPT !.pc = "fallback"]
          \/ inv' = [asked EXCEPT !.pc = "ask"]
      BY <1>4 DEF StepBegins, Goes
    <3> HIDE DEF next, asked
    <3> QED
      BY <3>1, <3>2 DEF Shape
  <2> QED
    BY <1>0, <2>1 DEF CauseInv, InTurn
<1>5. CASE OverBudget \/ LocalEnds \/ PipeCancelled
  BY <1>1, <1>5, Ending DEF OverBudget, LocalEnds, PipeCancelled, Completes
<1>6. CASE OutOfSteps
  <2>1. /\ inv.pc = "head" /\ inv'.pc = "fallback" /\ inv.step = inv.start + MaxSteps
        /\ inv'.question = inv.question
    BY <1>0, <1>6 DEF OutOfSteps, Goes, At, Shape
  <2> QED
    BY <1>0, <2>1, Bounds DEF CauseInv, InTurn
<1>7. ASSUME NEW e \in PostError, PostFails(e) PROVE CauseInv'
  <2>1. CASE Completes
    BY <1>1, <2>1, Ending DEF Completes
  <2>2. CASE ~Completes
    <3>1. /\ inv.pc = "ask" /\ inv'.pc = "ask" /\ inv'.question = Reposted(inv.question, e)
      BY <1>7, <2>2, PostFailsMoves DEF Keeps, Names
    <3>2. Reposted(inv.question, e).posts = inv.question.posts + 1 /\ inv.question.posts \in Nat
      <4>1. Reposted(inv.question, e).posts = inv.question.posts + 1
        BY <1>0, RepostedFields
      <4>2. inv.question.posts \in Nat
        BY <1>0 DEF Question
      <4> QED
        BY <4>1, <4>2
    <3> QED
      BY <3>1, <3>2 DEF CauseInv, InTurn
  <2> QED
    BY <2>1, <2>2
<1>8. CASE PostEscapes \/ ModelSays
  <2>1. inv'.pc = "none" \/ (inv'.pc = "fallback" /\ inv'.question = Over(inv.question))
    BY <1>8, OverMoves, Ending DEF Completes
  <2> QED
    BY <1>0, <1>1, <2>1 DEF CauseInv, InTurn, Over
<1>9. ASSUME NEW t \in Turns, ModelCalls(t) PROVE CauseInv'
  <2>1. inv'.pc = "none" \/ (inv'.pc \in {"subs", "plan"} /\ inv'.question = Over(inv.question))
    BY <1>9, ModelCallsMoves, Ending
  <2> QED
    BY <1>0, <1>1, <2>1 DEF CauseInv, InTurn, Over
<1>10. ASSUME NEW stop \in BOOLEAN, SubBegins(stop) PROVE CauseInv'
  BY <1>10, SubBeginsMoves, CauseStays DEF Keeps, Names, InTurn
<1>11. CASE \E b \in Branch : BranchStarts(b) \/ BranchEnds(b)
  BY <1>11, SetBranchMoves, CauseStays DEF Keeps, Names, InTurn
<1>12. CASE BranchesStop \/ SubEnds
  <2>1. inv.pc \in InTurn /\ inv'.pc \in InTurn /\ inv'.question = inv.question /\ inv'.start = inv.start /\ inv'.step = inv.step
    BY <1>0, <1>12 DEF BranchesStop, SubEnds, Goes, At, Shape, InTurn
  <2> QED
    BY <2>1, CauseStays DEF InTurn
<1>13. CASE SubsAnswered
  BY <1>13, SubsAnsweredMoves, CauseStays DEF Keeps, Names, InTurn
<1>14. CASE TurnPlanned
  BY <1>14, TurnPlannedMoves, CauseStays DEF Keeps, Names, InTurn
<1>15. CASE TurnAnswered
  BY <1>15, TurnAnsweredMoves, CauseStays DEF Keeps, Names, InTurn
<1>16. CASE GatherEnds \/ SerialNext \/ SerialThrows
  <2>1. CASE inv'.pc = "none"
    BY <1>1, <2>1
  <2>2. CASE inv'.pc # "none"
    <3>1. /\ inv.pc \in {"gather", "serial"} /\ inv'.pc \in {"serial", "answer", "fallback"}
          /\ inv'.question = inv.question /\ inv'.start = inv.start /\ inv'.step = inv.step
      BY <1>0, <1>16, <2>2, Ending DEF GatherEnds, SerialNext, SerialThrows, Goes, At, Shape, TurnOver
    <3> QED
      BY <3>1, CauseStays DEF InTurn
  <2> QED
    BY <2>1, <2>2
<1>17. ASSUME NEW c \in Call, NEW how \in Outcome, NEW asked \in BOOLEAN,
              TaskEnds(c, how, asked) \/ LocalTaskEnds(c, how, asked)
       PROVE  CauseInv'
  <2>1. CASE TaskEnds(c, how, asked)
    <3>1. inv'.pc = inv.pc /\ inv'.question = inv.question /\ inv'.start = inv.start /\ inv'.step = inv.step
      BY <1>0, <2>1 DEF TaskEnds, Shape
    <3> QED
      BY <3>1, CauseStays
  <2>2. CASE LocalTaskEnds(c, how, asked)
    BY <1>1, <2>2, Ending DEF LocalTaskEnds, At
  <2> QED
    BY <1>17, <2>1, <2>2
<1>18. CASE FallsBack
  BY <1>0, <1>1, <1>18, Ending DEF FallsBack, Shape
<1>19. CASE (\E c \in Call : LocalLaunches(c)) \/ CancelRun \/ Reply
  BY <1>19, CauseStays DEF LocalLaunches, CancelRun, Reply
<1>20. CASE Resume
  <2>1. inv' = inv \/ inv'.pc = "start"
    BY <1>0, <1>20 DEF Resume, Shape
  <2> QED
    BY <1>1, <2>1, CauseStays
<1> QED
  BY <1>2, <1>3, <1>4, <1>5, <1>6, <1>7, <1>8, <1>9, <1>10, <1>11, <1>12, <1>13, <1>14, <1>15, <1>16,
     <1>17, <1>18, <1>19, <1>20 DEF Next, PipeStep

\* README.md:103 - where working out the complexity does not raise, no fallback of AgenticLoop.run
\* comes before the model was asked: the exception is the one cause of an unasked fallback.
THEOREM FallbackCorrect == Spec => []("raises" \notin Complexity => FallbackHasCause)
<1>1. Init => CauseInv
  <2> SUFFICES ASSUME Init PROVE CauseInv
    OBVIOUS
  <2>1. inv.pc = "start"
    BY NoInvocationType, InvocationRecord DEF Init, Shape
  <2> QED
    BY <2>1 DEF CauseInv, InTurn
<1>2. Inv /\ CauseInv /\ [Next]_vars => CauseInv'
  <2> SUFFICES ASSUME Inv, CauseInv, [Next]_vars PROVE CauseInv'
    OBVIOUS
  <2>1. CASE Next
    BY <2>1, CauseStep DEF Inv
  <2>2. CASE UNCHANGED vars
    BY <2>2, CauseStays DEF vars
  <2> QED
    BY <2>1, <2>2
<1>3. CauseInv => ("raises" \notin Complexity => FallbackHasCause)
  BY DEF CauseInv, FallbackHasCause
<1> QED
  BY <1>1, <1>2, <1>3, InvCorrect, PTL DEF Spec
=============================================================================
