------------------------- MODULE RunLifecycleProofs -------------------------
(***************************************************************************)
(* Theorems about RunLifecycle, for any number of approvals, tool starts,  *)
(* attempts, client calls and restarts.                                    *)
(***************************************************************************)
EXTENDS RunLifecycle, FiniteSetTheorems, WellFoundedInduction, TLAPS

LEMMA NotASnapshot == NotSaving \notin Snapshot
BY DEF NotSaving, Snapshot, Status, Terminal

\* The statuses that say that a pipeline works on the run.
Working == {"planning", "running", "resuming", "recovering"}

\* resolve_approval holds an approval that it has answered.
AnswerGiven == resolving # 0 => mem.approval[resolving] \in {"approved", "rejected"}

\* Approvals are created one after the other, so that the next one is never one that was answered.
InOrder(snapshot) ==
    \E n \in 0 .. MaxAsked : {a \in Approval : snapshot.approval[a] # "none"} = 1 .. n

OrderInv ==
    /\ AnswerGiven
    /\ InOrder(mem) /\ InOrder(saved)
    /\ \A s \in Saver : Saving(s) => InOrder(unsaved[s])

----------------------------------------------------------------------------
(* Types *)

\* A save changes the memory and the one write under way of its actor.
LEMMA SetType ==
    ASSUME TypeOK, NEW s \in Saver, NEW snapshot \in Snapshot, Set(s, snapshot)
    PROVE  /\ mem' = snapshot /\ mem' \in Snapshot
           /\ unsaved' = [unsaved EXCEPT ![s] = snapshot]
           /\ unsaved' \in [Saver -> Snapshot \cup {NotSaving}]
BY DEF TypeOK, Set

LEMMA StatusType ==
    ASSUME TypeOK, NEW s \in Saver, NEW status \in Status, SetStatus(s, status)
    PROVE  /\ mem'.status = status /\ mem'.handoff = mem.handoff /\ mem'.approval = mem.approval
           /\ mem' \in Snapshot
           /\ unsaved' = [unsaved EXCEPT ![s] = mem']
           /\ unsaved' \in [Saver -> Snapshot \cup {NotSaving}]
<1>1. [mem EXCEPT !.status = status] \in Snapshot
  BY DEF TypeOK, Snapshot
<1>2. mem' = [mem EXCEPT !.status = status]
  BY DEF SetStatus, Set
<1>3. mem'.status = status /\ mem'.handoff = mem.handoff /\ mem'.approval = mem.approval
  BY <1>2 DEF TypeOK, Snapshot
<1> QED
  BY <1>1, <1>2, <1>3, SetType DEF SetStatus, Set

LEMMA TypeInit == Init => TypeOK
<1> SUFFICES ASSUME Init PROVE TypeOK
  OBVIOUS
<1>1. mem \in Snapshot
  BY DEF Init, Snapshot, Status
<1>2. unsaved \in [Saver -> Snapshot \cup {NotSaving}]
  BY DEF Init
<1>3. resolving \in 0 .. MaxAsked
  BY BoundsAssumption DEF Init
<1> QED
  BY <1>1, <1>2, <1>3 DEF Init, TypeOK, PipePC

LEMMA AskType ==
    ASSUME TypeOK, Asks
    PROVE  /\ mem'.status = "awaiting_input" /\ mem'.handoff = "pending"
           /\ mem'.approval = mem.approval /\ mem' \in Snapshot
           /\ unsaved' = [unsaved EXCEPT !["pipeline"] = mem']
           /\ unsaved' \in [Saver -> Snapshot \cup {NotSaving}]
<1> DEFINE asked == [mem EXCEPT !.status = "awaiting_input", !.handoff = "pending"]
<1>1. /\ asked \in Snapshot /\ asked.status = "awaiting_input" /\ asked.handoff = "pending"
      /\ asked.approval = mem.approval
  BY DEF TypeOK, Snapshot, Status
<1>2. Set("pipeline", asked)
  BY DEF Asks
<1> HIDE DEF asked
<1> QED
  BY <1>1, <1>2, SetType DEF Saver

\* The pipeline keeps its types: one case for each place where it may stand.
LEMMA PipeType == ASSUME TypeOK, PipeStep PROVE TypeOK'
<1> USE StatusType DEF PipePC, Saver
<1>1. CASE PipeStarts
  BY <1>1 DEF PipeStarts, TypeOK, Status, others
<1>2. CASE PipeEntersTask
  BY <1>2 DEF PipeEntersTask, Stops, TypeOK, Status, Terminal, others
<1>3. CASE PipePolicy
  BY <1>3 DEF PipePolicy, Refused, TypeOK, Status, Terminal, others
<1>4. CASE PipeAsks
  <2> DEFINE a == Cardinality(Asked) + 1
             asked == [mem EXCEPT !.approval[a] = "pending"]
  <2>1. asked \in Snapshot
    BY DEF TypeOK, Snapshot
  <2>2. /\ Set("pipeline", asked) /\ waiter' = [waiter EXCEPT ![a] = "open"]
        /\ pipe' = "waiting" /\ UNCHANGED <<saved, stop, checkpoint, attempt, others>>
    BY <1>4 DEF PipeAsks
  <2> HIDE DEF asked, a
  <2> QED
    BY <2>1, <2>2, SetType DEF TypeOK, others
<1>5. CASE PipeWaits
  <2> PICK a \in Asked : waiter' = [waiter EXCEPT ![a] = "open"]
    BY <1>5 DEF PipeWaits
  <2>1. waiter' \in [Approval -> {"none", "open", "approved", "rejected", "cancelled"}]
    BY DEF TypeOK
  <2> QED
    BY <1>5, <2>1 DEF PipeWaits, TypeOK, others
<1>6. CASE PipeWakes
  BY <1>6 DEF PipeWakes, Refused, Stops, TypeOK, Status, Terminal, others
<1>7. CASE PipeLaunches
  BY <1>7 DEF PipeLaunches, Stops, TypeOK, Status, Terminal, others
<1>8. CASE ToolReturns
  <2>1. mem.status \in Status
    BY DEF TypeOK, Snapshot
  <2> QED
    BY <1>8, <2>1 DEF ToolReturns, TypeOK, others
<1>9. CASE PipeCheckpoints
  BY <1>9 DEF PipeCheckpoints, TypeOK, others
<1>10. CASE PipeDecides
  BY <1>10, AskType DEF PipeDecides, Retries, TypeOK, Status, Terminal, others
<1>11. CASE PipeCatchesPause
  BY <1>11, AskType DEF PipeCatchesPause, Retries, TypeOK, Status, Terminal, others
<1>12. CASE PipeUnasked
  BY <1>12 DEF PipeUnasked, TypeOK, Status, Terminal, others
<1>13. CASE PipeRetries
  BY <1>13 DEF PipeRetries, TypeOK, others
<1>14. CASE PipeFell
  BY <1>14 DEF PipeFell, TypeOK, Status, Terminal, others
<1>15. CASE PipeEnds
  BY <1>15 DEF PipeEnds, TypeOK, others
<1> QED
  BY <1>1, <1>2, <1>3, <1>4, <1>5, <1>6, <1>7, <1>8, <1>9, <1>10, <1>11, <1>12, <1>13, <1>14,
     <1>15 DEF PipeStep

LEMMA DecidesType ==
    ASSUME TypeOK, ResumeDecides
    PROVE  /\ mem'.status \in {mem.status, "awaiting_approval"}
           /\ mem'.handoff = mem.handoff /\ mem'.approval = mem.approval
           /\ mem' \in Snapshot
           /\ unsaved' \in [Saver -> Snapshot \cup {NotSaving}]
           /\ unsaved' = unsaved \/ unsaved' = [unsaved EXCEPT !["resume"] = mem']
           /\ \/ pipe' = pipe
              \/ pipe = "none" /\ pipe' = "restart"
           /\ cancelled' \in {cancelled, Undone}
<1>1. CASE SetStatus("resume", "awaiting_approval")
  BY <1>1, StatusType DEF ResumeDecides, Saver, Status
<1>2. CASE UNCHANGED <<mem, unsaved>>
  BY <1>2 DEF ResumeDecides, TypeOK
<1> QED
  BY <1>1, <1>2 DEF ResumeDecides

LEMMA ReplyType ==
    ASSUME TypeOK, ReplyCall
    PROVE  /\ mem'.status = "paused" /\ mem'.handoff = "answered"
           /\ mem'.approval = mem.approval /\ mem' \in Snapshot
           /\ unsaved' = [unsaved EXCEPT !["reply"] = mem']
           /\ unsaved' \in [Saver -> Snapshot \cup {NotSaving}]
<1> DEFINE replied == [mem EXCEPT !.status = "paused", !.handoff = "answered"]
<1>1. /\ replied \in Snapshot /\ replied.status = "paused" /\ replied.handoff = "answered"
      /\ replied.approval = mem.approval
  BY DEF TypeOK, Snapshot, Status
<1>2. Set("reply", replied)
  BY DEF ReplyCall
<1> HIDE DEF replied
<1> QED
  BY <1>1, <1>2, SetType DEF Saver

LEMMA ResumeType ==
    ASSUME TypeOK, ResumeCall, mem.handoff = "answered"
    PROVE  /\ mem'.status = mem.status /\ mem'.handoff = "none"
           /\ mem'.approval = mem.approval /\ mem' \in Snapshot
           /\ unsaved' = [unsaved EXCEPT !["resume"] = mem']
           /\ unsaved' \in [Saver -> Snapshot \cup {NotSaving}]
           /\ client' = [client EXCEPT !["resume"] = "decide"]
           /\ UNCHANGED <<pipe, cancelled>>
<1> DEFINE applied == [mem EXCEPT !.handoff = "none"]
<1>1. /\ applied \in Snapshot /\ applied.status = mem.status /\ applied.handoff = "none"
      /\ applied.approval = mem.approval
  BY DEF TypeOK, Snapshot
<1>2. Set("resume", applied) /\ UNCHANGED <<pipe, cancelled>>
      /\ client' = [client EXCEPT !["resume"] = "decide"]
  BY DEF ResumeCall
<1> HIDE DEF applied
<1> QED
  BY <1>1, <1>2, SetType DEF Saver

LEMMA ResolveType ==
    ASSUME TypeOK, NEW a \in Approval, NEW answer \in {"approved", "rejected"},
           ResolveCall(a, answer)
    PROVE  /\ mem'.status = mem.status /\ mem'.handoff = mem.handoff
           /\ mem'.approval = [mem.approval EXCEPT ![a] = answer]
           /\ mem' \in Snapshot
           /\ unsaved' = [unsaved EXCEPT !["resolve"] = mem']
           /\ unsaved' \in [Saver -> Snapshot \cup {NotSaving}]
<1> DEFINE resolved == [mem EXCEPT !.approval[a] = answer]
<1>1. /\ resolved \in Snapshot /\ resolved.status = mem.status /\ resolved.handoff = mem.handoff
      /\ resolved.approval = [mem.approval EXCEPT ![a] = answer]
  BY DEF TypeOK, Snapshot
<1>2. Set("resolve", resolved)
  BY DEF ResolveCall
<1> HIDE DEF resolved
<1> QED
  BY <1>1, <1>2, SetType DEF Saver

LEMMA RehydratedType ==
    ASSUME NEW snapshot \in Snapshot
    PROVE  /\ Rehydrated(snapshot) \in Snapshot
           /\ Rehydrated(snapshot).status \notin Working
           /\ Rehydrated(snapshot).handoff = snapshot.handoff
           /\ Rehydrated(snapshot).approval = snapshot.approval
<1> DEFINE woken == Rehydrated(snapshot).status
<1>1. snapshot.status \in Status
  BY DEF Snapshot
<1>2. /\ Rehydrated(snapshot) = [snapshot EXCEPT !.status = woken]
      /\ woken = CASE snapshot.status \in Terminal -> snapshot.status
                   [] /\ snapshot.status \notin Terminal
                      /\ snapshot.handoff = "pending" -> "awaiting_input"
                   [] /\ snapshot.status \notin Terminal /\ snapshot.handoff # "pending"
                      /\ \E a \in Approval : snapshot.approval[a] = "pending"
                        -> "awaiting_approval"
                   [] OTHER -> IF snapshot.status \in {"planning", "running", "resuming",
                                                       "recovering", "cancelling", "queued"}
                               THEN "paused" ELSE snapshot.status
  BY DEF Rehydrated, Snapshot
<1>3. woken \in Status /\ woken \notin Working
  BY <1>1, <1>2 DEF Status, Terminal, Working
<1> HIDE DEF woken
<1>4. /\ [snapshot EXCEPT !.status = woken] \in Snapshot
      /\ [snapshot EXCEPT !.status = woken].status = woken
      /\ [snapshot EXCEPT !.status = woken].handoff = snapshot.handoff
      /\ [snapshot EXCEPT !.status = woken].approval = snapshot.approval
  BY <1>3 DEF Snapshot
<1> QED
  BY <1>2, <1>3, <1>4

\* The client calls, the daemon and the restart.
LEMMA OtherType ==
    ASSUME TypeOK, AnswerGiven, Next, ~PipeStep
    PROVE  TypeOK'
<1> USE DEF Saver
<1>1. CASE SomeSaveLands
  <2> PICK s \in Saver : SaveLands(s)
    BY <1>1 DEF SomeSaveLands
  <2>1. unsaved[s] \in Snapshot
    BY DEF SaveLands, Saving, TypeOK
  <2> QED
    BY <2>1 DEF SaveLands, TypeOK, others
<1>2. CASE CancelCall
  BY <1>2, StatusType DEF CancelCall, Goes, CallBegins, TypeOK, Caller, Status
<1>3. CASE ReplyCall
  BY <1>3, ReplyType DEF ReplyCall, CallBegins, Undone, TypeOK
<1>4. CASE ResumeCall
  <2>1. CASE mem.handoff = "answered"
    BY <1>4, <2>1, ResumeType DEF ResumeCall, CallBegins, TypeOK, Caller
  <2>2. CASE mem.handoff # "answered"
    BY <1>4, <2>2, DecidesType DEF ResumeCall, CallBegins, Undone, TypeOK, PipePC
  <2> QED
    BY <2>1, <2>2
<1>5. CASE \E a \in Approval, answer \in {"approved", "rejected"} : ResolveCall(a, answer)
  <2> PICK a \in Approval, answer \in {"approved", "rejected"} : ResolveCall(a, answer)
    BY <1>5
  <2>1. resolving' \in 0 .. MaxAsked
    BY BoundsAssumption DEF ResolveCall, Approval
  <2>2. assent' \in BOOLEAN
    BY DEF ResolveCall
  <2>3. calls' \in Nat
    BY DEF ResolveCall, CallBegins, TypeOK
  <2> QED
    BY <2>1, <2>2, <2>3, ResolveType DEF ResolveCall, TypeOK
<1>6. CASE CallStep
  <2>1. CASE CancelDelivers
    <3>1. mem' \in Snapshot /\ unsaved' \in [Saver -> Snapshot \cup {NotSaving}]
          /\ pipe' \in PipePC /\ stop' \in BOOLEAN
      <4>1. CASE pipe \in {"none", "restart", "stopping"}
        <5>1. /\ UNCHANGED mem /\ pipe' = "none" /\ stop' \in {stop, FALSE}
              /\ \/ UNCHANGED unsaved
                 \/ unsaved' = [unsaved EXCEPT !["pipeline"] = NotSaving]
          BY <2>1, <4>1 DEF CancelDelivers
        <5>2. mem' \in Snapshot /\ unsaved' \in [Saver -> Snapshot \cup {NotSaving}]
          BY <5>1 DEF TypeOK
        <5>3. stop' \in BOOLEAN
          <6>1. stop \in BOOLEAN
            BY DEF TypeOK
          <6> QED
            BY <5>1, <6>1
        <5> QED
          BY <5>1, <5>2, <5>3 DEF PipePC
      <4>2. CASE pipe \notin {"none", "restart", "stopping"}
        BY <2>1, <4>2, StatusType DEF CancelDelivers, Stops, TypeOK, PipePC, Status, Terminal
      <4> QED
        BY <4>1, <4>2
    <3>2. /\ waiter' \in [Approval -> {"none", "open", "approved", "rejected", "cancelled"}]
          /\ client' \in [Caller -> {"idle", "deliver", "decide", "listed", "delete"}]
      BY <2>1 DEF CancelDelivers, Goes, TypeOK, Caller
    <3> QED
      BY <2>1, <3>1, <3>2 DEF CancelDelivers, TypeOK
  <2>2. CASE ResumeGoesOn
    BY <1>6, <2>2, DecidesType DEF ResumeGoesOn, Goes, Undone, TypeOK, Caller, PipePC
  <2>3. CASE ResolveWakes
    <3>1. PICK a \in Approval : a = resolving
      BY <2>3, BoundsAssumption DEF ResolveWakes, TypeOK, Approval
    <3>2. mem.approval[a] \in {"approved", "rejected"}
      BY <2>3, <3>1 DEF ResolveWakes, AnswerGiven
    <3> DEFINE result == IF ~Holds(a) THEN "none"
                         ELSE IF waiter[a] = "open" THEN mem.approval[a] ELSE waiter[a]
    <3>3. waiter' = [waiter EXCEPT ![a] = result]
      BY <2>3, <3>1 DEF ResolveWakes
    <3>4. result \in {"none", "open", "approved", "rejected", "cancelled"}
      BY <3>1, <3>2 DEF TypeOK
    <3> HIDE DEF result
    <3>5. waiter' \in [Approval -> {"none", "open", "approved", "rejected", "cancelled"}]
      BY <3>3, <3>4 DEF TypeOK
    <3> QED
      BY <2>3, <3>5, BoundsAssumption DEF ResolveWakes, TypeOK
  <2> QED
    BY <1>6, <2>1, <2>2, <2>3 DEF CallStep
<1>7. CASE DaemonStep
  <2>1. CASE DaemonLists
    BY <2>1 DEF DaemonLists, Goes, TypeOK, Caller
  <2>2. CASE DaemonDecides
    BY <2>2 DEF DaemonDecides, TypeOK, Caller, PipePC
  <2>3. CASE DaemonDeletes
    BY <2>3 DEF DaemonDeletes, Goes, TypeOK, Caller
  <2> QED
    BY <1>7, <2>1, <2>2, <2>3 DEF DaemonStep
<1>8. CASE Crash
  <2>1. mem' \in Snapshot
    BY <1>8, RehydratedType DEF Crash, TypeOK
  <2>2. /\ unsaved' \in [Saver -> Snapshot \cup {NotSaving}]
        /\ waiter' \in [Approval -> {"none", "open", "approved", "rejected", "cancelled"}]
        /\ client' \in [Caller -> {"idle", "deliver", "decide", "listed", "delete"}]
    BY <1>8 DEF Crash
  <2>3. resolving' \in 0 .. MaxAsked /\ pipe' \in PipePC /\ crashes' \in Nat
        /\ cancelled' \in {"no", "stands", "undone"}
    BY <1>8, BoundsAssumption DEF Crash, Undone, TypeOK, PipePC
  <2> QED
    BY <1>8, <2>1, <2>2, <2>3 DEF Crash, TypeOK
<1> QED
  BY <1>1, <1>2, <1>3, <1>4, <1>5, <1>6, <1>7, <1>8 DEF Next

----------------------------------------------------------------------------
(* The order of the approvals *)

LEMMA SameOrder ==
    ASSUME NEW before \in Snapshot, NEW after \in Snapshot, InOrder(before),
           \A a \in Approval : after.approval[a] = "none" <=> before.approval[a] = "none"
    PROVE  InOrder(after)
BY DEF InOrder

\* _create_runtime_approval: the next approval is the first that was not asked for.
LEMMA AsksInOrder ==
    ASSUME TypeOK, OrderInv, PipeAsks
    PROVE  /\ InOrder(mem') /\ mem' \in Snapshot
           /\ mem'.status = mem.status /\ mem'.handoff = mem.handoff
           /\ unsaved' = [unsaved EXCEPT !["pipeline"] = mem']
           /\ \A a \in Approval : mem'.approval[a] \in {mem.approval[a], "pending"}
           /\ \A a \in Approval : mem.approval[a] # "none" => mem'.approval[a] = mem.approval[a]
<1>1. PICK n \in 0 .. MaxAsked : Asked = 1 .. n
  BY DEF OrderInv, InOrder, Asked
<1>2. Cardinality(Asked) = n
  BY <1>1, FS_Interval
<1> DEFINE asked == [mem EXCEPT !.approval[n + 1] = "pending"]
<1>3. Set("pipeline", asked)
  BY <1>2 DEF PipeAsks
<1>4. /\ asked \in Snapshot /\ asked.status = mem.status /\ asked.handoff = mem.handoff
      /\ \A a \in Approval : asked.approval[a] = IF a = n + 1 THEN "pending" ELSE mem.approval[a]
  BY DEF TypeOK, Snapshot
<1>5. mem.approval \in [Approval -> {"none", "pending", "approved", "rejected"}]
  BY DEF TypeOK, Snapshot
<1> HIDE DEF asked
<1>6. mem' = asked /\ unsaved' = [unsaved EXCEPT !["pipeline"] = mem']
  BY <1>3 DEF Set
<1>7. InOrder(asked)
  <2>1. CASE n < MaxAsked
    <3>1. n + 1 \in 0 .. MaxAsked
      BY <2>1, BoundsAssumption
    <3>2. {a \in Approval : asked.approval[a] # "none"} = 1 .. (n + 1)
      BY <1>1, <1>4, <2>1, BoundsAssumption DEF Asked, Approval
    <3> QED
      BY <3>1, <3>2 DEF InOrder
  <2>2. CASE n = MaxAsked
    BY <1>1, <1>4, <2>2, BoundsAssumption DEF Asked, Approval, InOrder
  <2> QED
    BY <2>1, <2>2, BoundsAssumption
<1>8. \A a \in Approval : mem.approval[a] # "none" => a # n + 1
  BY <1>1, BoundsAssumption DEF Asked, Approval
<1> QED
  BY <1>4, <1>6, <1>7, <1>8

\* What all steps but four do to the snapshots: the approvals stay, and a write under way is
\* started with the memory, given up or left alone.
Keeps ==
    /\ mem' \in Snapshot /\ mem'.approval = mem.approval
    /\ UNCHANGED saved
    /\ \/ UNCHANGED unsaved
       \/ \E s \in Saver, w \in {mem', NotSaving} : unsaved' = [unsaved EXCEPT ![s] = w]

LEMMA PipeKeeps == ASSUME TypeOK, PipeStep, ~PipeAsks PROVE Keeps
<1> USE StatusType DEF Saver, Keeps
<1>0. mem \in Snapshot /\ mem.status \in Status
  BY DEF TypeOK, Snapshot
<1>1. CASE PipeStarts
  BY <1>1 DEF PipeStarts, Status
<1>2. CASE PipeEntersTask
  BY <1>2 DEF PipeEntersTask, Stops, Status, Terminal
<1>3. CASE PipePolicy
  BY <1>3 DEF PipePolicy, Refused, Status, Terminal
<1>4. CASE PipeWaits \/ PipeCheckpoints \/ PipeRetries \/ PipeEnds
  BY <1>0, <1>4 DEF PipeWaits, PipeCheckpoints, PipeRetries, PipeEnds
<1>5. CASE PipeWakes
  BY <1>5 DEF PipeWakes, Refused, Stops, Status, Terminal
<1>6. CASE PipeLaunches
  BY <1>0, <1>6 DEF PipeLaunches, Stops, Status, Terminal
<1>7. CASE ToolReturns
  BY <1>0, <1>7 DEF ToolReturns
<1>8. CASE PipeDecides
  BY <1>8, AskType DEF PipeDecides, Retries, Status, Terminal
<1>9. CASE PipeCatchesPause
  BY <1>9, AskType DEF PipeCatchesPause, Retries, Status, Terminal
<1>10. CASE PipeUnasked
  BY <1>10 DEF PipeUnasked, Status, Terminal
<1>11. CASE PipeFell
  BY <1>0, <1>11 DEF PipeFell, Status, Terminal
<1> QED
  BY <1>1, <1>2, <1>3, <1>4, <1>5, <1>6, <1>7, <1>8, <1>9, <1>10, <1>11 DEF PipeStep

LEMMA CallsKeep ==
    ASSUME TypeOK, CancelCall \/ ReplyCall \/ ResumeCall \/ CallStep \/ DaemonStep
    PROVE  Keeps
<1> USE DEF Saver, Keeps
<1>0. mem \in Snapshot
  BY DEF TypeOK
<1>1. CASE CancelCall
  BY <1>1, StatusType DEF CancelCall, Status
<1>2. CASE ReplyCall
  BY <1>2, ReplyType DEF ReplyCall
<1>3. CASE ResumeCall
  <2>1. CASE mem.handoff = "answered"
    BY <1>3, <2>1, ResumeType DEF ResumeCall
  <2>2. CASE mem.handoff # "answered"
    BY <1>3, <2>2, DecidesType DEF ResumeCall
  <2> QED
    BY <2>1, <2>2
<1>4. CASE CancelDelivers
  BY <1>0, <1>4, StatusType DEF CancelDelivers, Stops, Status, Terminal
<1>5. CASE ResumeGoesOn
  BY <1>5, DecidesType DEF ResumeGoesOn
<1>6. CASE ResolveWakes \/ DaemonStep
  BY <1>0, <1>6 DEF ResolveWakes, DaemonStep, DaemonLists, DaemonDecides, DaemonDeletes
<1> QED
  BY <1>1, <1>2, <1>3, <1>4, <1>5, <1>6 DEF CallStep

LEMMA KeepsOrder ==
    ASSUME TypeOK, OrderInv, Keeps
    PROVE  /\ InOrder(mem') /\ InOrder(saved')
           /\ \A s \in Saver : Saving(s)' => InOrder(unsaved[s]')
<1>1. InOrder(mem')
  BY DEF OrderInv, Keeps, InOrder
<1>2. \A t \in Saver : unsaved'[t] \in {unsaved[t], mem', NotSaving}
  BY DEF Keeps, TypeOK
<1> QED
  BY <1>1, <1>2 DEF OrderInv, Keeps, Saving

\* The four steps that do not keep the snapshots as they are.
LEMMA StepKinds ==
    ASSUME TypeOK, Next, ~Keeps
    PROVE  \/ PipeAsks
           \/ \E a \in Approval, answer \in {"approved", "rejected"} : ResolveCall(a, answer)
           \/ SomeSaveLands
           \/ Crash
BY PipeKeeps, CallsKeep DEF Next

LEMMA LandsType ==
    ASSUME TypeOK, NEW s \in Saver, SaveLands(s)
    PROVE  /\ UNCHANGED mem /\ saved' = unsaved[s] /\ Saving(s)
           /\ \A t \in Saver : unsaved'[t] \in {unsaved[t], NotSaving}
BY DEF SaveLands, TypeOK

LEMMA PipeOthers == ASSUME PipeStep PROVE UNCHANGED <<saved, others>>
BY DEF PipeStep, PipeStarts, PipeEntersTask, PipePolicy, PipeAsks, PipeWaits, PipeWakes,
       PipeLaunches, ToolReturns, PipeCheckpoints, PipeDecides, PipeCatchesPause, PipeUnasked,
       PipeRetries, PipeFell, PipeEnds

LEMMA AnswerStep == ASSUME TypeOK, OrderInv, Next PROVE AnswerGiven'
<1>0. resolving # 0 => resolving \in Approval
  BY BoundsAssumption DEF TypeOK, Approval
<1>1. CASE PipeStep
  <2>1. UNCHANGED resolving
    BY <1>1, PipeOthers DEF others
  <2>2. CASE PipeAsks
    BY <1>0, <2>1, <2>2, AsksInOrder DEF OrderInv, AnswerGiven
  <2>3. CASE Keeps
    BY <2>1, <2>3 DEF OrderInv, AnswerGiven, Keeps
  <2> QED
    BY <1>1, <2>2, <2>3, PipeKeeps
<1>2. CASE CancelCall \/ ReplyCall \/ ResumeCall \/ CallStep \/ DaemonStep
  <2>1. resolving' \in {resolving, 0}
    BY <1>2 DEF CancelCall, ReplyCall, ResumeCall, CallStep, CancelDelivers, ResumeGoesOn,
                ResolveWakes, DaemonStep, DaemonLists, DaemonDecides, DaemonDeletes
  <2> QED
    BY <1>2, <2>1, CallsKeep DEF OrderInv, AnswerGiven, Keeps
<1>3. CASE \E a \in Approval, answer \in {"approved", "rejected"} : ResolveCall(a, answer)
  <2>1. PICK a \in Approval, answer \in {"approved", "rejected"} : ResolveCall(a, answer)
    BY <1>3
  <2>2. mem.approval \in [Approval -> {"none", "pending", "approved", "rejected"}]
    BY DEF TypeOK, Snapshot
  <2>3. mem'.approval = [mem.approval EXCEPT ![a] = answer]
    BY <2>1, ResolveType
  <2>4. mem'.approval[a] = answer /\ resolving' = a
    BY <2>1, <2>2, <2>3 DEF ResolveCall
  <2> QED
    BY <2>4 DEF AnswerGiven
<1>4. CASE SomeSaveLands
  BY <1>4 DEF SomeSaveLands, SaveLands, others, OrderInv, AnswerGiven
<1>5. CASE Crash
  BY <1>5 DEF Crash, AnswerGiven
<1> QED
  BY <1>1, <1>2, <1>3, <1>4, <1>5 DEF Next

LEMMA OrderStep == ASSUME TypeOK, OrderInv, Next PROVE OrderInv'
<1>1. CASE Keeps
  BY <1>1, KeepsOrder, AnswerStep DEF OrderInv
<1>2. CASE PipeAsks
  <2>1. \A t \in Saver : unsaved'[t] \in {unsaved[t], mem'}
    BY <1>2, AsksInOrder DEF TypeOK
  <2>2. UNCHANGED saved
    BY <1>2 DEF PipeAsks
  <2> QED
    BY <1>2, <2>1, <2>2, AsksInOrder, AnswerStep DEF OrderInv, Saving
<1>3. CASE \E a \in Approval, answer \in {"approved", "rejected"} : ResolveCall(a, answer)
  <2>1. PICK a \in Approval, answer \in {"approved", "rejected"} : ResolveCall(a, answer)
    BY <1>3
  <2>2. /\ mem.approval[a] # "none" /\ UNCHANGED saved
        /\ mem.approval \in [Approval -> {"none", "pending", "approved", "rejected"}]
    BY <2>1 DEF ResolveCall, Asked, TypeOK, Snapshot
  <2>3. \A b \in Approval : mem'.approval[b] = "none" <=> mem.approval[b] = "none"
    <3>1. mem'.approval = [mem.approval EXCEPT ![a] = answer]
      BY <2>1, ResolveType
    <3> QED
      BY <2>2, <3>1
  <2>4. InOrder(mem')
    <3>1. mem \in Snapshot /\ mem' \in Snapshot /\ InOrder(mem)
      BY <2>1, ResolveType DEF TypeOK, OrderInv
    <3> QED
      BY <2>3, <3>1, SameOrder
  <2>5. \A t \in Saver : unsaved'[t] \in {unsaved[t], mem'}
    BY <2>1, ResolveType DEF TypeOK
  <2> QED
    BY <2>2, <2>4, <2>5, AnswerStep DEF OrderInv, Saving
<1>4. CASE SomeSaveLands
  <2>1. PICK s \in Saver : SaveLands(s)
    BY <1>4 DEF SomeSaveLands
  <2> QED
    BY <2>1, LandsType, AnswerStep DEF OrderInv, Saving
<1>5. CASE Crash
  <2>1. InOrder(mem')
    BY <1>5, RehydratedType DEF Crash, TypeOK, OrderInv, InOrder
  <2>2. saved' = mem' /\ \A s \in Saver : ~Saving(s)'
    BY <1>5 DEF Crash, Saving
  <2> QED
    BY <2>1, <2>2, AnswerStep DEF OrderInv
<1> QED
  BY <1>1, <1>2, <1>3, <1>4, <1>5, StepKinds

LEMMA OrderInit == Init => OrderInv
<1> SUFFICES ASSUME Init PROVE OrderInv
  OBVIOUS
<1>1. {a \in Approval : mem.approval[a] # "none"} = 1 .. 0
  BY BoundsAssumption DEF Init, Approval
<1>2. InOrder(mem) /\ InOrder(saved)
  BY <1>1, BoundsAssumption DEF Init, InOrder
<1> QED
  BY <1>2 DEF Init, OrderInv, AnswerGiven, Saving

----------------------------------------------------------------------------
(* The approval gate *)

\* The policy never lets the task through without asking.
Guarded == "allow" \notin Verdicts

Approved(snapshot) == \E a \in Approval : snapshot.approval[a] = "approved"

\* Before the user's first assent nothing in memory, in the database or on its way there says
\* approved, and the tool is not about to start.
GateInv ==
    ~assent => /\ pipe \notin {"launch", "tool"}
               /\ ~Approved(mem) /\ ~Approved(saved)
               /\ \A s \in Saver : Saving(s) => ~Approved(unsaved[s])
               /\ \A a \in Approval : waiter[a] # "approved"

LEMMA LeastNumber ==
    ASSUME NEW T, T \subseteq Nat, T # {}
    PROVE  \E x \in T : \A y \in T : x <= y
<1>1. \E x \in T : \A y \in T : <<y, x>> \notin OpToRel(<, Nat)
  BY NatLessThanWellFounded, WFMin, Zenon
<1>2. PICK x \in T : \A y \in T : <<y, x>> \notin OpToRel(<, Nat)
  BY <1>1, Zenon
<1>3. \A y \in T : ~(y < x)
  BY <1>2 DEF OpToRel
<1> QED
  BY <1>3

\* What _resolved_approval_status answers is the status of an approval of the task.
LEMMA ResolvedIsAnswer == ASSUME Resolved = "approved" PROVE Approved(mem)
<1>1. Answered # {} /\ Answered \subseteq Approval
  BY DEF Resolved, Answered
<1>2. Answered \subseteq Nat
  BY <1>1 DEF Approval
<1>3. \E a \in Answered : \A b \in Answered : a <= b
  BY <1>1, <1>2, LeastNumber
<1> DEFINE first == CHOOSE a \in Answered : \A b \in Answered : a <= b
<1>4. first \in Answered
  BY <1>3
<1>5. mem.approval[first] = "approved"
  BY <1>1 DEF Resolved
<1> QED
  BY <1>1, <1>4, <1>5 DEF Approved

LEMMA AssentStays ==
    ASSUME Next, ~assent'
    PROVE  ~assent
<1>1. CASE PipeStep
  BY <1>1, PipeOthers DEF others
<1>2. CASE SomeSaveLands \/ CancelCall \/ ReplyCall \/ ResumeCall \/ CallStep \/ DaemonStep \/ Crash
  BY <1>2 DEF SomeSaveLands, SaveLands, others, CancelCall, ReplyCall, ResumeCall, CallStep,
              CancelDelivers, ResumeGoesOn, ResolveWakes, DaemonStep, DaemonLists, DaemonDecides,
              DaemonDeletes, Crash
<1>3. CASE \E a \in Approval, answer \in {"approved", "rejected"} : ResolveCall(a, answer)
  BY <1>3 DEF ResolveCall
<1> QED
  BY <1>1, <1>2, <1>3 DEF Next

LEMMA GateSnapshots ==
    ASSUME TypeOK, OrderInv, GateInv, Next, ~assent'
    PROVE  /\ ~Approved(mem') /\ ~Approved(saved')
           /\ \A s \in Saver : Saving(s)' => ~Approved(unsaved[s]')
<1>0. /\ ~Approved(mem) /\ ~Approved(saved)
      /\ \A s \in Saver : Saving(s) => ~Approved(unsaved[s])
  BY AssentStays DEF GateInv
<1>1. CASE Keeps
  <2>1. ~Approved(mem') /\ ~Approved(saved')
    BY <1>0, <1>1 DEF Keeps, Approved
  <2>2. \A t \in Saver : unsaved'[t] \in {unsaved[t], mem', NotSaving}
    BY <1>1 DEF Keeps, TypeOK
  <2> QED
    BY <1>0, <2>1, <2>2 DEF Saving
<1>2. CASE PipeAsks
  <2>1. ~Approved(mem') /\ \A t \in Saver : unsaved'[t] \in {unsaved[t], mem'}
    BY <1>0, <1>2, AsksInOrder DEF TypeOK, Approved
  <2>2. UNCHANGED saved
    BY <1>2 DEF PipeAsks
  <2> QED
    BY <1>0, <2>1, <2>2 DEF Saving
<1>3. CASE \E a \in Approval, answer \in {"approved", "rejected"} : ResolveCall(a, answer)
  <2>1. PICK a \in Approval, answer \in {"approved", "rejected"} : ResolveCall(a, answer)
    BY <1>3
  <2>2. answer = "rejected" /\ UNCHANGED saved
    BY <2>1 DEF ResolveCall
  <2>3. mem.approval \in [Approval -> {"none", "pending", "approved", "rejected"}]
    BY DEF TypeOK, Snapshot
  <2>4. mem'.approval = [mem.approval EXCEPT ![a] = "rejected"]
    BY <2>1, <2>2, ResolveType
  <2>5. ~Approved(mem')
    BY <1>0, <2>3, <2>4 DEF Approved
  <2>6. \A t \in Saver : unsaved'[t] \in {unsaved[t], mem'}
    BY <2>1, ResolveType DEF TypeOK
  <2> QED
    BY <1>0, <2>2, <2>5, <2>6 DEF Saving
<1>4. CASE SomeSaveLands
  <2>1. PICK s \in Saver : SaveLands(s)
    BY <1>4 DEF SomeSaveLands
  <2> QED
    BY <1>0, <2>1, LandsType DEF Saving
<1>5. CASE Crash
  <2>1. ~Approved(mem')
    BY <1>0, <1>5, RehydratedType DEF Crash, TypeOK, Approved
  <2>2. saved' = mem' /\ \A s \in Saver : ~Saving(s)'
    BY <1>5 DEF Crash, Saving
  <2> QED
    BY <2>1, <2>2
<1> QED
  BY <1>1, <1>2, <1>3, <1>4, <1>5, StepKinds

\* Nobody hears an approval, and the pipeline does not go to the tool, before the assent.
LEMMA GateActors ==
    ASSUME Guarded, TypeOK, OrderInv, GateInv, Next, ~assent'
    PROVE  pipe' \notin {"launch", "tool"} /\ \A a \in Approval : waiter'[a] # "approved"
<1>0. /\ pipe \notin {"launch", "tool"} /\ ~Approved(mem)
      /\ \A a \in Approval : waiter[a] # "approved"
  BY AssentStays DEF GateInv
<1>1. CASE PipePolicy
  <2>1. Resolved # "approved"
    BY <1>0, ResolvedIsAnswer
  <2> QED
    BY <1>0, <1>1, <2>1 DEF PipePolicy, Refused, Guarded
<1>2. CASE PipeWakes
  BY <1>0, <1>2 DEF PipeWakes, Refused, Stops, Asked
<1>3. CASE PipeLaunches
  BY <1>0, <1>3 DEF PipeLaunches, PipeAt
<1>4. CASE PipeAsks \/ PipeWaits
  BY <1>0, <1>4 DEF PipeAsks, PipeWaits, TypeOK
<1>5. CASE PipeStarts \/ PipeEntersTask \/ ToolReturns \/ PipeCheckpoints \/ PipeDecides
           \/ PipeCatchesPause \/ PipeUnasked \/ PipeRetries \/ PipeFell \/ PipeEnds
  BY <1>0, <1>5 DEF PipeStarts, PipeEntersTask, Stops, ToolReturns, PipeCheckpoints, PipeDecides,
                    Asks, Retries, PipeCatchesPause, PipeUnasked, PipeRetries, PipeFell, PipeEnds
<1>6. CASE SomeSaveLands \/ CancelCall \/ ReplyCall \/ ResumeCall \/ ResumeGoesOn \/ DaemonStep
  BY <1>0, <1>6 DEF SomeSaveLands, SaveLands, CancelCall, ReplyCall, ResumeCall, ResumeGoesOn,
                    ResumeDecides, DaemonStep, DaemonLists, DaemonDecides, DaemonDeletes
<1>7. CASE \E a \in Approval, answer \in {"approved", "rejected"} : ResolveCall(a, answer)
  BY <1>0, <1>7 DEF ResolveCall
<1>8. CASE CancelDelivers
  BY <1>0, <1>8 DEF CancelDelivers, Stops
<1>9. CASE ResolveWakes
  <2>1. PICK a \in Approval : a = resolving
    BY <1>9, BoundsAssumption DEF ResolveWakes, TypeOK, Approval
  <2> DEFINE result == IF ~Holds(a) THEN "none"
                       ELSE IF waiter[a] = "open" THEN mem.approval[a] ELSE waiter[a]
  <2>2. waiter' = [waiter EXCEPT ![a] = result] /\ UNCHANGED pipe
    BY <1>9, <2>1 DEF ResolveWakes
  <2>3. result # "approved"
    BY <1>0, <2>1 DEF Approved
  <2> HIDE DEF result
  <2> QED
    BY <1>0, <2>2, <2>3 DEF TypeOK
<1>10. CASE Crash
  BY <1>10 DEF Crash
<1> QED
  BY <1>1, <1>2, <1>3, <1>4, <1>5, <1>6, <1>7, <1>8, <1>9, <1>10 DEF Next, PipeStep, CallStep

----------------------------------------------------------------------------
(* What a status and an accepted cancel mean *)

\* Where the pipeline stands while the status says that it works on the run.
WorkInv ==
    mem.status \in Working =>
        pipe \in {"head", "policy", "launch", "tool", "observe", "decide", "backoff", "fallback"}

\* An accepted cancel stands as long as the event is set, or the run is over.
StopInv == cancelled = "stands" => stop \/ (pipe = "none" /\ mem.status \in Terminal)

LEMMA WorkStep == ASSUME TypeOK, OrderInv, WorkInv, Next PROVE WorkInv'
<1> USE StatusType DEF Saver, WorkInv, Working
<1>0. mem.status \in Status
  BY DEF TypeOK, Snapshot
<1>1. CASE PipeStarts \/ PipeEntersTask
  BY <1>1 DEF PipeStarts, PipeEntersTask, Stops, Status, Terminal
<1>2. CASE PipePolicy
  BY <1>2 DEF PipePolicy, Refused, Status, Terminal
<1>3. CASE PipeAsks
  BY <1>3, AsksInOrder DEF PipeAsks, PipeAt
<1>4. CASE PipeWaits \/ PipeCheckpoints \/ PipeRetries \/ PipeEnds
  BY <1>4 DEF PipeWaits, PipeCheckpoints, PipeRetries, PipeEnds, PipeAt
<1>5. CASE PipeWakes
  BY <1>5 DEF PipeWakes, Refused, Stops, Status, Terminal
<1>6. CASE PipeLaunches
  BY <1>6 DEF PipeLaunches, Stops, Status, Terminal
<1>7. CASE ToolReturns
  BY <1>0, <1>7 DEF ToolReturns
<1>8. CASE PipeDecides
  BY <1>8, AskType DEF PipeDecides, Retries, Status, Terminal
<1>9. CASE PipeCatchesPause
  BY <1>9, AskType DEF PipeCatchesPause, Retries, Status, Terminal
<1>10. CASE PipeUnasked \/ PipeFell
  BY <1>10 DEF PipeUnasked, PipeFell, PipeAt, Status, Terminal
<1>11. CASE SomeSaveLands
  BY <1>11 DEF SomeSaveLands, SaveLands
<1>12. CASE CancelCall
  BY <1>12 DEF CancelCall, Status
<1>12a. CASE CancelDelivers
  <2>1. CASE pipe \in {"none", "restart", "stopping"}
    BY <1>12a, <2>1 DEF CancelDelivers
  <2>2. CASE pipe \notin {"none", "restart", "stopping"}
    <3>1. SetStatus("pipeline", "cancelled")
      BY <1>12a, <2>2 DEF CancelDelivers, Stops
    <3>2. mem'.status = "cancelled"
      BY <3>1 DEF Status, Terminal
    <3> QED
      BY <3>2
  <2> QED
    BY <2>1, <2>2
<1>13. CASE ReplyCall
  BY <1>13, ReplyType
<1>14. CASE ResumeCall \/ ResumeGoesOn
  BY <1>14, ResumeType, DecidesType DEF ResumeCall, ResumeGoesOn
<1>15. CASE \E a \in Approval, answer \in {"approved", "rejected"} : ResolveCall(a, answer)
  BY <1>15, ResolveType DEF ResolveCall
<1>16. CASE ResolveWakes \/ DaemonStep
  BY <1>16 DEF ResolveWakes, DaemonStep, DaemonLists, DaemonDecides, DaemonDeletes
<1>17. CASE Crash
  BY <1>17, RehydratedType DEF Crash, TypeOK
<1> QED
  BY <1>1, <1>2, <1>3, <1>4, <1>5, <1>6, <1>7, <1>8, <1>9, <1>10, <1>11, <1>12, <1>13, <1>14,
     <1>15, <1>16, <1>17, <1>12a DEF Next, PipeStep, CallStep

LEMMA StopStep == ASSUME TypeOK, OrderInv, StopInv, Next PROVE StopInv'
<1> USE StatusType DEF Saver, StopInv
<1>0. mem.status \in Status /\ Terminal \subseteq Status
  BY DEF TypeOK, Snapshot, Status
<1>1. CASE PipeEnds
  BY <1>1, PipeOthers DEF PipeEnds, others
<1>2. CASE PipeStep /\ ~PipeEnds
  <2>1. UNCHANGED <<stop, cancelled>> /\ pipe # "none"
    BY <1>2, PipeOthers DEF PipeStep, PipeStarts, PipeEntersTask, PipePolicy, PipeAsks, PipeWaits,
       PipeWakes, PipeLaunches, ToolReturns, PipeCheckpoints, PipeDecides, PipeCatchesPause,
       PipeUnasked, PipeRetries, PipeFell, PipeAt, Holds, others
  <2> QED
    BY <2>1
<1>3. CASE SomeSaveLands
  BY <1>3 DEF SomeSaveLands, SaveLands, others
<1>4. CASE CancelCall
  BY <1>4 DEF CancelCall
<1>5. CASE CancelDelivers
  <2>1. CASE pipe = "stopping"
    <3>1. cancelled' = cancelled /\ mem' = mem /\ pipe' = "none"
          /\ stop' = IF mem.status \in Terminal THEN FALSE ELSE stop
      BY <1>5, <2>1 DEF CancelDelivers
    <3> QED
      BY <2>1, <3>1
  <2>2. CASE pipe # "stopping"
    <3>1. UNCHANGED <<cancelled, stop>> /\ (pipe = "none" => pipe' = "none" /\ mem' = mem)
      BY <1>5, <2>2 DEF CancelDelivers
    <3> QED
      BY <3>1
  <2> QED
    BY <2>1, <2>2
<1>6. CASE ReplyCall
  BY <1>6 DEF ReplyCall, Undone
<1>7. CASE ResumeCall
  <2>1. CASE mem.handoff = "answered"
    BY <1>7, <2>1, ResumeType DEF ResumeCall
  <2>2. CASE mem.handoff # "answered"
    BY <1>7, <2>2, DecidesType DEF ResumeCall, ResumeDecides, Undone
  <2> QED
    BY <2>1, <2>2
<1>8. CASE ResumeGoesOn
  BY <1>8, DecidesType DEF ResumeGoesOn, ResumeDecides, Undone
<1>9. CASE \E a \in Approval, answer \in {"approved", "rejected"} : ResolveCall(a, answer)
  <2>1. UNCHANGED <<cancelled, stop, pipe>> /\ mem'.status = mem.status
    BY <1>9, ResolveType DEF ResolveCall
  <2> QED
    BY <2>1
<1>10. CASE ResolveWakes
  BY <1>10 DEF ResolveWakes
<1>11. CASE DaemonStep
  BY <1>11 DEF DaemonStep, DaemonLists, DaemonDecides, DaemonDeletes
<1>12. CASE Crash
  BY <1>12 DEF Crash, Undone
<1> QED
  BY <1>1, <1>2, <1>3, <1>4, <1>5, <1>6, <1>7, <1>8, <1>9, <1>10, <1>11, <1>12 DEF Next, CallStep

----------------------------------------------------------------------------
(* The theorems *)

RunInv == TypeOK /\ OrderInv /\ WorkInv /\ StopInv

LEMMA RunInit == Init => RunInv
<1>1. Init => WorkInv /\ StopInv
  BY DEF Init, WorkInv, Working, StopInv
<1> QED
  BY <1>1, TypeInit, OrderInit DEF RunInv

LEMMA RunStep == RunInv /\ [Next]_vars => RunInv'
<1> SUFFICES ASSUME RunInv, [Next]_vars PROVE RunInv'
  OBVIOUS
<1>1. CASE Next
  <2>1. TypeOK'
    BY <1>1, PipeType, OtherType DEF RunInv, OrderInv
  <2> QED
    BY <1>1, <2>1, OrderStep, WorkStep, StopStep DEF RunInv
<1>2. CASE UNCHANGED vars
  BY <1>2 DEF vars, RunInv, TypeOK, OrderInv, AnswerGiven, InOrder, Saving, WorkInv, StopInv
<1> QED
  BY <1>1, <1>2

LEMMA RunInvariant == Spec => []RunInv
BY RunInit, RunStep, PTL DEF Spec

\* The memory, the database, the writes under way and every actor keep the shape the code gives
\* them, whatever answers, cancels, resumes and restarts come in between.
THEOREM TypeCorrect == Spec => []TypeOK
<1>1. RunInv => TypeOK
  BY DEF RunInv
<1> QED
  BY RunInvariant, <1>1, PTL

\* runtime_manager.py:188 - whoever ends a pipeline, and whatever a restart finds in the database,
\* the status never says that work is going on where none is.
THEOREM NoZombieCorrect == Spec => []NoZombie
<1>1. RunInv => NoZombie
  BY DEF RunInv, WorkInv, NoZombie, Working
<1> QED
  BY RunInvariant, <1>1, PTL

\* runtime_manager.py:700 - where the policy never lets the task through without asking, the tool
\* runs only if the user has said yes at some time: no answer to another approval, no save that
\* lands late and no restart makes up an assent.
THEOREM GateCorrect == Spec => [](Guarded => ApprovalGate)
<1>1. Init => (Guarded => GateInv)
  BY DEF Init, GateInv, Approved, Saving
<1>2. RunInv /\ (Guarded => GateInv) /\ [Next]_vars => (Guarded => GateInv)'
  <2> SUFFICES ASSUME RunInv, Guarded, GateInv, [Next]_vars PROVE GateInv'
    BY DEF Guarded
  <2>1. CASE Next
    BY <2>1, GateSnapshots, GateActors DEF RunInv, GateInv
  <2>2. CASE UNCHANGED vars
    BY <2>2 DEF vars, GateInv, Approved, Saving
  <2> QED
    BY <2>1, <2>2
<1>3. GateInv => ApprovalGate
  BY DEF GateInv, ApprovalGate
<1>4. (Guarded => GateInv) => (Guarded => ApprovalGate)
  BY <1>3
<1> QED
  BY RunInvariant, <1>1, <1>2, <1>4, PTL DEF Spec

\* runtime_manager.py:573 - no step of the pipeline starts a tool while an accepted cancel stands:
\* the event is cleared only when the run is over and nothing takes it up again.
THEOREM CancelCorrect == Spec => CancelHolds
<1>1. RunInv /\ [Next]_vars => [pipe' = "tool" /\ pipe # "tool" => cancelled # "stands"]_vars
  <2> SUFFICES ASSUME RunInv, Next, pipe' = "tool", pipe # "tool" PROVE cancelled # "stands"
    BY DEF vars
  <2>1. PipeLaunches
    <3>1. CASE PipeStep
      BY <3>1 DEF PipeStep, PipeStarts, PipeEntersTask, PipePolicy, PipeAsks, PipeWaits, PipeWakes,
         ToolReturns, PipeCheckpoints, PipeDecides, PipeCatchesPause, PipeUnasked, PipeRetries,
         PipeFell, PipeEnds, Refused, Stops, Retries
    <3>2. CASE ~PipeStep
      BY <3>2 DEF Next, SomeSaveLands, SaveLands, CancelCall, ReplyCall, ResumeCall,
         ResumeDecides, ResolveCall, CallStep, CancelDelivers, Stops, ResumeGoesOn, ResolveWakes,
         DaemonStep, DaemonLists, DaemonDecides, DaemonDeletes, Crash
    <3> QED
      BY <3>1, <3>2
  <2>2. ~stop /\ pipe # "none"
    BY <2>1 DEF PipeLaunches, Stops, PipeAt
  <2> QED
    BY <2>2 DEF RunInv, StopInv
<1> QED
  BY RunInvariant, <1>1, PTL DEF Spec, CancelHolds

\* runtime_manager.py:385 - what takes a question away is an answer: the daemon, a cancel, a second
\* resume and a restart that finds the question in the database leave it.
THEOREM QuestionCorrect == Spec => QuestionKept
<1>1. RunInv /\ [Next]_vars
        => [mem.handoff = "pending" /\ saved.handoff = "pending"
              => mem'.handoff \in {"pending", "answered"}]_vars
  <2> SUFFICES ASSUME RunInv, Next, mem.handoff = "pending", saved.handoff = "pending"
               PROVE  mem'.handoff \in {"pending", "answered"}
    BY DEF vars
  <2> USE StatusType DEF Saver
  <2>0. TypeOK /\ OrderInv /\ mem.status \in Status
    BY DEF RunInv, TypeOK, Snapshot
  <2>1. CASE PipeStarts \/ PipeEntersTask \/ ToolReturns
    BY <2>0, <2>1 DEF PipeStarts, PipeEntersTask, Stops, ToolReturns, Status, Terminal
  <2>2. CASE PipePolicy
    BY <2>0, <2>2 DEF PipePolicy, Refused, Status, Terminal
  <2>3. CASE PipeAsks
    BY <2>0, <2>3, AsksInOrder
  <2>4. CASE PipeWakes
    BY <2>0, <2>4 DEF PipeWakes, Refused, Stops, Status, Terminal
  <2>5. CASE PipeLaunches
    BY <2>0, <2>5 DEF PipeLaunches, Stops, Status, Terminal
  <2>6. CASE PipeDecides \/ PipeCatchesPause
    BY <2>0, <2>6, AskType DEF PipeDecides, PipeCatchesPause, Retries, Status, Terminal
  <2>7. CASE PipeUnasked \/ PipeFell
    BY <2>0, <2>7 DEF PipeUnasked, PipeFell, Status, Terminal
  <2>8. CASE UNCHANGED mem
    BY <2>8
  <2>9. CASE CancelCall \/ CancelDelivers
    BY <2>0, <2>9 DEF CancelCall, CancelDelivers, Stops, Status, Terminal
  <2>10. CASE ReplyCall
    BY <2>0, <2>10, ReplyType
  <2>11. CASE ResumeCall \/ ResumeGoesOn
    BY <2>0, <2>11, DecidesType DEF ResumeCall, ResumeGoesOn
  <2>12. CASE \E a \in Approval, answer \in {"approved", "rejected"} : ResolveCall(a, answer)
    BY <2>0, <2>12, ResolveType
  <2>13. CASE Crash
    BY <2>0, <2>13, RehydratedType DEF Crash, TypeOK
  <2> QED
    BY <2>1, <2>2, <2>3, <2>4, <2>5, <2>6, <2>7, <2>8, <2>9, <2>10, <2>11, <2>12, <2>13
       DEF Next, PipeStep, PipeWaits, PipeCheckpoints, PipeRetries, PipeEnds, SomeSaveLands,
           SaveLands, CallStep, ResolveWakes, DaemonStep, DaemonLists, DaemonDecides, DaemonDeletes
<1> QED
  BY RunInvariant, <1>1, PTL DEF Spec, QuestionKept

----------------------------------------------------------------------------
(* The end of a cancelled run *)

\* How far a place of the pipeline is from its end, once the event is set.
Depth(pc) ==
    CASE pc = "start" -> 15
      [] pc = "tool" -> 14
      [] pc = "observe" -> 13
      [] pc = "decide" -> 12
      [] pc \in {"caught", "unasked"} -> 11
      [] pc \in {"backoff", "policy"} -> 10
      [] pc = "asking" -> 9
      [] pc \in {"waiting", "launch"} -> 8
      [] pc = "head" -> 7
      [] pc = "fell" -> 6
      [] pc = "fallback" -> 5
      [] pc \in {"settle", "pausing"} -> 4
      [] pc = "stopping" -> 3
      [] OTHER -> 0

\* A save under way, and a future that _wait_for_approval has still to make, count too.
FutureMissing == \E a \in Asked : a = Cardinality(Asked) /\ waiter[a] = "none"
Count(b) == IF b THEN 1 ELSE 0
Left == 3 * Depth(pipe) + Count(Saving("pipeline"))
          + Count(pipe = "waiting" /\ (Saving("pipeline") \/ FutureMissing))

Alive == pipe \notin {"none", "restart"}
Cancelling == cancelled = "stands" /\ Alive

LEMMA Depths == \A pc : Depth(pc) \in 0 .. 15
  BY DEF Depth

LEMMA LeftType ==
    /\ Left \in Nat /\ Left' \in Nat
    /\ Left >= 3 * Depth(pipe) /\ Left' <= 3 * Depth(pipe') + 2
<1>1. Depth(pipe) \in 0 .. 15 /\ Depth(pipe') \in 0 .. 15
  BY Depths
<1>2. \A b : Count(b) \in {0, 1}
  BY DEF Count
<1> HIDE DEF Depth, Count
<1> QED
  BY <1>1, <1>2 DEF Left

\* With the event set the pipeline goes on to its end without a loop.
LEMMA PipeGoesDown ==
    ASSUME stop, Alive, PipeStep, pipe' # "none", ~PipeWaits
    PROVE  Depth(pipe') < Depth(pipe)
<1>1. CASE PipeStarts
  BY <1>1 DEF PipeStarts, PipeAt, Depth, Alive
<1>2. CASE PipeEntersTask
  BY <1>2 DEF PipeEntersTask, Stops, PipeAt, Depth
<1>3. CASE PipePolicy
  BY <1>3 DEF PipePolicy, Refused, PipeAt, Depth
<1>4. CASE PipeAsks
  BY <1>4 DEF PipeAsks, PipeAt, Depth
<1>5. CASE PipeWakes
  BY <1>5 DEF PipeWakes, Holds, Stops, PipeAt, Depth
<1>6. CASE PipeLaunches
  BY <1>6 DEF PipeLaunches, Stops, PipeAt, Depth
<1>7. CASE ToolReturns \/ PipeCheckpoints \/ PipeRetries
  <2>1. \/ pipe = "tool" /\ pipe' = "observe"
        \/ pipe = "observe" /\ pipe' = "decide"
        \/ pipe = "backoff" /\ pipe' = "head"
    BY <1>7 DEF ToolReturns, PipeCheckpoints, PipeRetries, PipeAt
  <2> QED
    BY <2>1 DEF Depth
<1>8. CASE PipeDecides
  BY <1>8 DEF PipeDecides, Retries, PipeAt, Depth
<1>9. CASE PipeCatchesPause
  BY <1>9 DEF PipeCatchesPause, Retries, PipeAt, Depth
<1>10. CASE PipeUnasked
  BY <1>10 DEF PipeUnasked, PipeAt, Depth
<1>11. CASE PipeFell
  BY <1>11 DEF PipeFell, PipeAt, Depth
<1>12. CASE PipeEnds
  BY <1>12 DEF PipeEnds
<1> QED
  BY <1>1, <1>2, <1>3, <1>4, <1>5, <1>6, <1>7, <1>8, <1>9, <1>10, <1>11, <1>12 DEF PipeStep

\* What brings the end of a cancelled pipeline nearer: its own steps, its saves, and the cancel that
\* strikes it.
LEMMA CancelNearer ==
    ASSUME TypeOK, StopInv, Cancelling, Alive', PipeStep \/ SaveLands("pipeline") \/ CancelDelivers
    PROVE  Left' < Left
<1>1. stop
  BY DEF StopInv, Cancelling, Alive
<1>2. ASSUME Depth(pipe') < Depth(pipe)
      PROVE  Left' < Left
  BY <1>2, LeftType, Depths
<1>3. CASE PipeWaits
  <2>1. PICK a \in Asked : /\ Holds(a) /\ waiter[a] = "none" /\ waiter' = [waiter EXCEPT ![a] = "open"]
                           /\ UNCHANGED <<mem, unsaved, pipe>>
    BY <1>3 DEF PipeWaits
  <2>2. pipe = "waiting" /\ ~Saving("pipeline") /\ FutureMissing
    BY <2>1 DEF Holds, PipeAt, FutureMissing
  <2>3. a \in Approval /\ waiter'[a] = "open"
    BY <2>1 DEF Asked, TypeOK
  <2>4. Asked' = Asked /\ ~Saving("pipeline")'
    BY <2>1, <2>2 DEF Asked, Saving
  <2>5. ~FutureMissing'
    BY <2>1, <2>3, <2>4 DEF FutureMissing, Holds
  <2>6. Left = 3 * Depth(pipe) + 0 + 1 /\ Left' = 3 * Depth(pipe) + 0 + 0
    BY <2>1, <2>2, <2>4, <2>5 DEF Left, Count
  <2> QED
    BY <2>6, Depths
<1>4. CASE PipeStep /\ ~PipeWaits
  BY <1>1, <1>2, <1>4, PipeGoesDown DEF Alive, Cancelling
<1>5. CASE SaveLands("pipeline")
  <2>1. /\ Saving("pipeline") /\ unsaved' = [unsaved EXCEPT !["pipeline"] = NotSaving]
        /\ UNCHANGED pipe
    BY <1>5 DEF SaveLands
  <2>2. ~Saving("pipeline")'
    BY <2>1 DEF Saving, Saver, TypeOK
  <2>3. Left = 3 * Depth(pipe) + 1 + Count(pipe = "waiting")
    BY <2>1 DEF Left, Count
  <2>4. Left' = 3 * Depth(pipe) + 0 + Count(pipe = "waiting" /\ FutureMissing')
    BY <2>1, <2>2 DEF Left, Count
  <2>5. Count(pipe = "waiting" /\ FutureMissing') <= Count(pipe = "waiting") /\ \A b : Count(b) \in {0, 1}
    BY DEF Count
  <2> QED
    BY <2>3, <2>4, <2>5, Depths
<1>6. CASE CancelDelivers
  <2>1. pipe' = "stopping" /\ pipe \notin {"none", "restart", "stopping"} /\ pipe \in PipePC
    BY <1>6 DEF CancelDelivers, Stops, Alive, TypeOK
  <2>2. Depth(pipe') < Depth(pipe)
    BY <2>1 DEF Depth, PipePC
  <2> QED
    BY <1>2, <2>2
<1> QED
  BY <1>3, <1>4, <1>5, <1>6

\* Nothing else puts it off while the cancel stands: not another call, the daemon, or another save.
LEMMA NothingPutsItOff ==
    ASSUME TypeOK, OrderInv, Next, Cancelling, Cancelling', ~PipeStep, ~SaveLands("pipeline"), ~CancelDelivers
    PROVE  Left' = Left \/ Left' < Left
<1>1. pipe' = pipe /\ unsaved'["pipeline"] = unsaved["pipeline"] /\ Asked' = Asked
  <2>1. CASE SomeSaveLands
    BY <2>1 DEF SomeSaveLands, SaveLands, others, Saver, Asked, TypeOK
  <2>2. CASE CancelCall
    BY <2>2, StatusType DEF CancelCall, Asked, Saver, TypeOK, Status
  <2>3. CASE ReplyCall \/ Crash
    BY <2>3 DEF ReplyCall, Crash, Undone, Cancelling
  <2>4. CASE ResumeCall
    <3>1. CASE mem.handoff = "answered"
      BY <2>4, <3>1, ResumeType DEF ResumeCall, Asked, Saver, TypeOK
    <3>2. CASE mem.handoff # "answered"
      BY <2>4, <3>2, DecidesType DEF ResumeCall, ResumeDecides, Asked, Saver, TypeOK, Cancelling, Alive
    <3> QED
      BY <3>1, <3>2
  <2>5. CASE ResumeGoesOn
    BY <2>5, DecidesType DEF ResumeGoesOn, ResumeDecides, Asked, Saver, TypeOK, Cancelling, Alive
  <2>6. ASSUME NEW a \in Approval, NEW answer \in {"approved", "rejected"}, ResolveCall(a, answer)
        PROVE  pipe' = pipe /\ unsaved'["pipeline"] = unsaved["pipeline"] /\ Asked' = Asked
    BY <2>6 DEF ResolveCall, Set, Asked, Saver, TypeOK, Snapshot
  <2>7. CASE ResolveWakes
    BY <2>7 DEF ResolveWakes, Asked
  <2>8. CASE DaemonStep
    BY <2>8 DEF DaemonStep, DaemonLists, DaemonDecides, DaemonDeletes, Asked, Cancelling, Alive
  <2> QED
    BY <2>1, <2>2, <2>3, <2>4, <2>5, <2>6, <2>7, <2>8 DEF Next, CallStep
<1>2. Saving("pipeline")' = Saving("pipeline")
  BY <1>1 DEF Saving
<1>3. ASSUME pipe = "waiting", ~Saving("pipeline"), FutureMissing'
      PROVE  FutureMissing
  <2>1. PICK a \in Asked : a = Cardinality(Asked) /\ waiter'[a] = "none"
    BY <1>1, <1>3 DEF FutureMissing
  <2>2. Holds(a)
    BY <1>3, <2>1 DEF Holds, PipeAt
  <2>3. CASE ResolveWakes /\ resolving = a
    <3>1. waiter'[a] \in {waiter[a], mem.approval[a]} /\ mem.approval[a] \in {"approved", "rejected"}
      <4>1. a \in Approval /\ resolving # 0
        BY <2>1, <2>3 DEF Asked, ResolveWakes
      <4>2. waiter' = [waiter EXCEPT ![a] = IF @ = "open" THEN mem.approval[a] ELSE @]
        BY <2>2, <2>3 DEF ResolveWakes
      <4> QED
        BY <2>3, <4>1, <4>2 DEF TypeOK, OrderInv, AnswerGiven
    <3> QED
      BY <2>1, <3>1 DEF FutureMissing
  <2>4. CASE ResolveWakes /\ resolving # a
    BY <2>1, <2>4 DEF ResolveWakes, FutureMissing
  <2>5. CASE ~ResolveWakes
    <3>1. UNCHANGED waiter
      BY <2>5 DEF Next, SomeSaveLands, SaveLands, others, CancelCall, ReplyCall, ResumeCall, ResolveCall,
         CallStep, ResumeGoesOn, DaemonStep, DaemonLists, DaemonDecides, DaemonDeletes, Crash, Undone,
         Cancelling
    <3> QED
      BY <2>1, <3>1 DEF FutureMissing
  <2> QED
    BY <2>3, <2>4, <2>5
<1>4. /\ Count(pipe' = "waiting" /\ (Saving("pipeline")' \/ FutureMissing'))
           <= Count(pipe = "waiting" /\ (Saving("pipeline") \/ FutureMissing))
      /\ Count(Saving("pipeline")') = Count(Saving("pipeline"))
  BY <1>1, <1>2, <1>3 DEF Count
<1>5. Depth(pipe') = Depth(pipe) /\ \A b : Count(b) \in {0, 1}
  BY <1>1 DEF Count
<1> HIDE DEF Count, Depth
<1> QED
  BY <1>4, <1>5, Depths DEF Left

\* What CancelDescends says of a step.
Descends ==
    [][(Cancelling /\ Cancelling') =>
          /\ PipeStep \/ SaveLands("pipeline") \/ CancelDelivers => Left' < Left
          /\ Left' = Left \/ Left' < Left]_vars

\* runtime_manager.py:573 - a pipeline that a cancel has struck comes to its end: every step of it, every
\* save it waits for and the delivery of the cancel bring the end nearer, at most 47 times, and
\* no other call, pass of the daemon or save puts it off while the cancel stands.
THEOREM CancelDescends == Spec => [](Left \in 0 .. 47) /\ Descends
<1>1. Left \in 0 .. 47
  <2>1. \A b : Count(b) \in {0, 1}
    BY DEF Count
  <2> QED
    BY <2>1, Depths DEF Left
<1>2. RunInv /\ [Next]_vars =>
         [(Cancelling /\ Cancelling') =>
             /\ PipeStep \/ SaveLands("pipeline") \/ CancelDelivers => Left' < Left
             /\ Left' = Left \/ Left' < Left]_vars
  <2> SUFFICES ASSUME RunInv, Next, Cancelling, Cancelling'
               PROVE  /\ PipeStep \/ SaveLands("pipeline") \/ CancelDelivers => Left' < Left
                      /\ Left' = Left \/ Left' < Left
    OBVIOUS
  <2>1. TypeOK /\ OrderInv /\ StopInv /\ Alive'
    BY DEF RunInv, Cancelling
  <2> QED
    BY <2>1, CancelNearer, NothingPutsItOff
<1> QED
  BY <1>1, <1>2, RunInvariant, PTL DEF Spec, Descends
=============================================================================
