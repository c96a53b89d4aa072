---------------------------- MODULE UIToolsProofs ----------------------------
(***************************************************************************)
(* Theorems about UITools and ProcessWatchdog, for any sets of processes,  *)
(* calls and checks, any limit of recoveries and any number of freezes.    *)
(***************************************************************************)
EXTENDS UITools, SequenceTheorems, TLAPS

CallTypes ==
    /\ call \in [Call -> CallRecord]
    /\ thread \in [Call -> {"none", "running", "returned"}]
    /\ context \in Proc \cup {NoProc}

LEMMA LockingCalls == Locking \subseteq Call /\ NoCall \notin Locking
BY UIToolsAssumption

LEMMA Moves ==
    ASSUME call \in [Call -> CallRecord], NEW c \in Call,
           NEW pc \in {"idle", "waiting", "operating", "reaping", "killing"}, Goes(c, pc)
    PROVE  /\ call' \in [Call -> CallRecord]
           /\ call'[c].pc = pc /\ call'[c].victim = call[c].victim
           /\ \A d \in Call \ {c} : call'[d] = call[d]
<1>1. call[c] \in CallRecord
  OBVIOUS
<1>2. [call[c] EXCEPT !.pc = pc] \in CallRecord
  BY <1>1 DEF CallRecord
<1>3. call'[c] = [call[c] EXCEPT !.pc = pc] /\ \A d \in Call \ {c} : call'[d] = call[d]
  BY DEF Goes
<1> QED
  BY <1>1, <1>2, <1>3 DEF Goes, CallRecord

LEMMA Becomes ==
    ASSUME call \in [Call -> CallRecord], NEW c \in Call, NEW record \in CallRecord,
           call' = [call EXCEPT ![c] = record]
    PROVE  /\ call' \in [Call -> CallRecord]
           /\ call'[c] = record /\ \A d \in Call \ {c} : call'[d] = call[d]
OBVIOUS

LEMMA IdleRecord ==
    /\ [pc |-> "idle", victim |-> NoProc] \in CallRecord
    /\ [pc |-> "idle", victim |-> NoProc].pc = "idle"
BY DEF CallRecord

\* What each step of a call makes of it.
LEMMA Beginning ==
    ASSUME CallTypes, NEW c \in Call, CallBegins(c)
    PROVE  /\ CallTypes' /\ \A d \in Call \ {c} : call'[d] = call[d]
           /\ \/ c \in Locking /\ call'[c].pc = "waiting" /\ holder' = holder
              \/ /\ call'[c].pc = "operating"
                 /\ IF c \in Locking THEN holder = NoCall /\ holder' = c ELSE holder' = holder
<1>1. context' \in Proc \cup {NoProc}
  BY UIToolsAssumption DEF CallBegins, SetContext
<1>2. CASE c \in Locking /\ ~Free
  <2>1. Goes(c, "waiting") /\ UNCHANGED <<thread, holder>>
    BY <1>2 DEF CallBegins
  <2> QED
    BY <1>1, <1>2, <2>1, Moves DEF CallTypes
<1>3. CASE ~(c \in Locking /\ ~Free)
  <2>1. Goes(c, "operating") /\ thread' = [thread EXCEPT ![c] = "running"]
    BY <1>3 DEF CallBegins, Starts
  <2>2. IF c \in Locking THEN holder = NoCall /\ holder' = c ELSE holder' = holder
    BY <1>3 DEF CallBegins, Free
  <2>3. thread' \in [Call -> {"none", "running", "returned"}]
    BY <2>1 DEF CallTypes
  <2> QED
    BY <1>1, <2>1, <2>2, <2>3, Moves DEF CallTypes
<1> QED
  BY <1>2, <1>3

LEMMA Granting ==
    ASSUME CallTypes, NEW c \in Call, LockGranted(c)
    PROVE  /\ CallTypes' /\ \A d \in Call \ {c} : call'[d] = call[d]
           /\ call[c].pc = "waiting" /\ call'[c].pc = "operating"
           /\ holder = NoCall /\ holder' = c
<1>1. Goes(c, "operating") /\ thread' = [thread EXCEPT ![c] = "running"] /\ UNCHANGED context
  BY DEF LockGranted, Starts
<1>2. thread' \in [Call -> {"none", "running", "returned"}]
  BY <1>1 DEF CallTypes
<1> QED
  BY <1>1, <1>2, Moves DEF CallTypes, LockGranted

LEMMA Ending ==
    ASSUME CallTypes, NEW c \in Call, CallEnds(c)
    PROVE  /\ CallTypes' /\ \A d \in Call \ {c} : call'[d] = call[d]
           /\ call'[c].pc = "idle"
BY IdleRecord, Becomes DEF CallEnds, Ends, CallTypes

LEMMA TimingOut ==
    ASSUME CallTypes, NEW c \in Call, CallTimesOut(c)
    PROVE  /\ CallTypes' /\ \A d \in Call \ {c} : call'[d] = call[d]
           /\ \/ call'[c].pc = "idle"
              \/ call'[c] = [pc |-> "reaping", victim |-> context] /\ swapped' = swapped
<1>1. UNCHANGED context /\ thread' \in [Call -> {"none", "running", "returned"}]
  BY DEF CallTimesOut, CallTypes
<1>2. CASE context = NoProc
  BY <1>1, <1>2, IdleRecord, Becomes DEF CallTimesOut, Ends, CallTypes
<1>3. CASE context # NoProc
  <2>1. [pc |-> "reaping", victim |-> context] \in CallRecord
    BY DEF CallTypes, CallRecord
  <2> QED
    BY <1>1, <1>3, <2>1, Becomes DEF CallTimesOut, Victim, CallTypes
<1> QED
  BY <1>2, <1>3

LEMMA Looking ==
    ASSUME CallTypes, NEW c \in Call, ReaperLooks(c)
    PROVE  /\ CallTypes' /\ UNCHANGED holder /\ \A d \in Call \ {c} : call'[d] = call[d]
           /\ \/ ReapEnds(c) /\ call'[c].pc = "idle"
              \/ /\ call'[c].pc = "killing" /\ call'[c].victim = call[c].victim
                 /\ UNCHANGED <<context, swapped>>
<1>1. CASE proc[call[c].victim] = "frozen"
  BY <1>1, Moves DEF ReaperLooks, CallTypes
<1>2. CASE proc[call[c].victim] # "frozen"
  BY <1>2, IdleRecord, Becomes DEF ReaperLooks, ReapEnds, CallTypes
<1> QED
  BY <1>1, <1>2

LEMMA Killing ==
    ASSUME CallTypes, NEW c \in Call, ReaperKills(c)
    PROVE  /\ CallTypes' /\ UNCHANGED holder /\ \A d \in Call \ {c} : call'[d] = call[d]
           /\ call'[c].pc = "idle"
BY IdleRecord, Becomes DEF ReaperKills, ReapEnds, CallTypes

LEMMA Returning ==
    ASSUME CallTypes, NEW c \in Call, ThreadReturns(c)
    PROVE  CallTypes' /\ UNCHANGED <<call, holder, context, swapped, reaped>>
BY DEF ThreadReturns, CallTypes

----------------------------------------------------------------------------
(* OneInControl: only calls that take the lock wait for it, and those that operate hold it.       *)

Locked ==
    /\ \A c \in Call : call[c].pc = "waiting" => c \in Locking
    /\ \A c \in Locking : call[c].pc = "operating" => holder = c

LockInv == CallTypes /\ Locked

LEMMA LockInit == Init => LockInv
BY UIToolsAssumption DEF Init, LockInv, CallTypes, Locked, CallRecord

LEMMA LockLeft ==
    ASSUME LockInv, CallTypes', NEW c \in Call, LeavesLock(c),
           call'[c].pc \notin {"waiting", "operating"},
           \A d \in Call \ {c} : call'[d] = call[d]
    PROVE  LockInv'
BY LockingCalls DEF LockInv, Locked, LeavesLock

LEMMA LockStep == LockInv /\ [Next]_vars => LockInv'
<1> SUFFICES ASSUME LockInv, [Next]_vars PROVE LockInv'
  OBVIOUS
<1>1. CallTypes
  BY DEF LockInv
<1>2. CASE UNCHANGED vars \/ (WatchNext /\ UNCHANGED uiVars)
  BY <1>2 DEF vars, uiVars, LockInv, CallTypes, Locked
<1>3. ASSUME NEW c \in Call, CallBegins(c)
      PROVE  LockInv'
  BY <1>1, <1>3, Beginning, LockingCalls DEF LockInv, Locked
<1>4. ASSUME NEW c \in Call, LockGranted(c)
      PROVE  LockInv'
  BY <1>1, <1>4, Granting, LockingCalls DEF LockInv, Locked
<1>5. ASSUME NEW c \in Call, ThreadReturns(c)
      PROVE  LockInv'
  BY <1>1, <1>5, Returning DEF LockInv, Locked
<1>6. ASSUME NEW c \in Call, CallEnds(c)
      PROVE  LockInv'
  <2>1. LeavesLock(c)
    BY <1>6 DEF CallEnds
  <2> QED
    BY <1>1, <1>6, <2>1, Ending, LockLeft
<1>7. ASSUME NEW c \in Call, CallTimesOut(c)
      PROVE  LockInv'
  <2>1. LeavesLock(c)
    BY <1>7 DEF CallTimesOut
  <2>2. call'[c].pc \in {"idle", "reaping"}
    BY <1>1, <1>7, TimingOut
  <2> QED
    BY <1>1, <1>7, <2>1, <2>2, TimingOut, LockLeft
<1>8. ASSUME NEW c \in Call, ReaperLooks(c)
      PROVE  LockInv'
  BY <1>1, <1>8, Looking, LockingCalls DEF LockInv, Locked
<1>9. ASSUME NEW c \in Call, ReaperKills(c)
      PROVE  LockInv'
  BY <1>1, <1>9, Killing, LockingCalls DEF LockInv, Locked
<1> QED
  BY <1>2, <1>3, <1>4, <1>5, <1>6, <1>7, <1>8, <1>9 DEF Next, UINext

\* ui_lock.py:349 - whatever times out, waits or is cancelled: of two threads that work on the
\* desktop under the lock, one belongs to a call that is over.
THEOREM ControlCorrect == Spec => []OneInControl
<1>1. LockInv => OneInControl
  BY LockingCalls DEF LockInv, Locked, OneInControl
<1> QED
  BY LockInit, LockStep, <1>1, PTL DEF Spec
----------------------------------------------------------------------------
(* ReapsOwnTarget: as long as no other call has touched the context, it is the target of the call *)
(* under way, and so is the process the reaper has taken from it.                                 *)

OwnContext ==
    \A c \in Call \ swapped :
        /\ call[c].pc \in {"waiting", "operating"} => context = Target[c]
        /\ call[c].pc \in {"reaping", "killing"} => call[c].victim = Target[c]

ReapInv == CallTypes /\ OwnContext /\ ReapsOwnTarget

LEMMA ReapInit == Init => ReapInv
BY UIToolsAssumption DEF Init, ReapInv, CallTypes, OwnContext, ReapsOwnTarget, CallRecord

\* A step that goes on with the target of its call, or ends the call, and leaves the context.
LEMMA ReapFrame ==
    ASSUME ReapInv, CallTypes', UNCHANGED <<context, reaped>>, NEW c \in Call,
           \A d \in Call \ {c} : call'[d] = call[d] /\ (d \in swapped => d \in swapped'),
           \/ call'[c].pc = "idle"
           \/ /\ c \in swapped => c \in swapped'
              /\ call'[c].pc \in {"waiting", "operating"} => call[c].pc \in {"waiting", "operating"}
              /\ call'[c].pc \in {"reaping", "killing"} =>
                    \/ call[c].pc \in {"waiting", "operating"} /\ call'[c].victim = context
                    \/ call[c].pc \in {"reaping", "killing"} /\ call'[c].victim = call[c].victim
    PROVE  ReapInv'
<1>1. OwnContext'
  BY DEF ReapInv, OwnContext
<1> QED
  BY <1>1 DEF ReapInv, ReapsOwnTarget

\* The other calls under way no longer count on the context.
LEMMA OthersSwapped ==
    ASSUME CallTypes, CallTypes', NEW c \in Call, \A d \in Call \ {c} : call'[d] = call[d],
           {d \in Call \ {c} : Underway(d)} \subseteq swapped'
    PROVE  \A d \in Call \ {c} : d \notin swapped' => call'[d].pc = "idle"
BY DEF Underway

LEMMA ReapStep == ReapInv /\ [Next]_vars => ReapInv'
<1> SUFFICES ASSUME ReapInv, [Next]_vars PROVE ReapInv'
  OBVIOUS
<1>1. CallTypes
  BY DEF ReapInv
<1>2. CASE UNCHANGED vars \/ (WatchNext /\ UNCHANGED uiVars)
  BY <1>2 DEF vars, uiVars, ReapInv, CallTypes, OwnContext, ReapsOwnTarget
<1>3. ASSUME NEW c \in Call, CallBegins(c)
      PROVE  ReapInv'
  <2>1. {d \in Call \ {c} : Underway(d)} \subseteq swapped' /\ context' = Target[c] /\ UNCHANGED reaped
    BY <1>3 DEF CallBegins, SetContext
  <2>2. CallTypes' /\ (\A d \in Call \ {c} : call'[d] = call[d])
        /\ call'[c].pc \in {"waiting", "operating"}
    BY <1>1, <1>3, Beginning
  <2>3. \A d \in Call \ {c} : d \notin swapped' => call'[d].pc = "idle"
    BY <1>1, <2>1, <2>2, OthersSwapped
  <2>4. OwnContext'
    BY <2>1, <2>2, <2>3 DEF OwnContext
  <2> QED
    BY <2>1, <2>2, <2>4 DEF ReapInv, ReapsOwnTarget
<1>4. ASSUME NEW c \in Call, LockGranted(c)
      PROVE  ReapInv'
  <2>1. UNCHANGED <<context, swapped, reaped>>
    BY <1>4 DEF LockGranted
  <2> QED
    BY <1>1, <1>4, <2>1, Granting, ReapFrame
<1>5. ASSUME NEW c \in Call, ThreadReturns(c)
      PROVE  ReapInv'
  BY <1>1, <1>5, Returning DEF ReapInv, OwnContext, ReapsOwnTarget
<1>6. ASSUME NEW c \in Call, CallEnds(c)
      PROVE  ReapInv'
  <2>1. UNCHANGED <<context, reaped>> /\ swapped' = swapped \ {c}
    BY <1>6 DEF CallEnds, Ends
  <2> QED
    BY <1>1, <1>6, <2>1, Ending, ReapFrame
<1>7. ASSUME NEW c \in Call, CallTimesOut(c)
      PROVE  ReapInv'
  <2>1. /\ UNCHANGED <<context, reaped>> /\ (\A d \in Call \ {c} : d \in swapped => d \in swapped')
        /\ call[c].pc \in {"waiting", "operating"}
    BY <1>7 DEF CallTimesOut, Ends
  <2>2. /\ CallTypes' /\ \A d \in Call \ {c} : call'[d] = call[d]
        /\ \/ call'[c].pc = "idle"
           \/ call'[c].pc = "reaping" /\ call'[c].victim = context /\ swapped' = swapped
    BY <1>1, <1>7, TimingOut
  <2> QED
    BY <2>1, <2>2, ReapFrame
<1>8. ASSUME NEW c \in Call, ReaperLooks(c)
      PROVE  ReapInv'
  <2>1. UNCHANGED reaped /\ call[c].pc = "reaping"
    BY <1>8 DEF ReaperLooks
  <2>2. CallTypes' /\ \A d \in Call \ {c} : call'[d] = call[d]
    BY <1>1, <1>8, Looking
  <2>3. CASE ReapEnds(c) /\ call'[c].pc = "idle"
    <3>1. swapped' = {d \in Call \ {c} : Underway(d)}
      BY <2>3 DEF ReapEnds
    <3>2. \A d \in Call \ {c} : d \notin swapped' => call'[d].pc = "idle"
      BY <1>1, <2>2, <3>1, OthersSwapped
    <3>3. OwnContext'
      BY <2>3, <3>2 DEF OwnContext
    <3> QED
      BY <2>1, <2>2, <3>3 DEF ReapInv, ReapsOwnTarget
  <2>4. CASE call'[c].pc = "killing" /\ call'[c].victim = call[c].victim /\ UNCHANGED <<context, swapped>>
    BY <2>1, <2>2, <2>4, ReapFrame
  <2> QED
    BY <1>1, <1>8, <2>3, <2>4, Looking
<1>9. ASSUME NEW c \in Call, ReaperKills(c)
      PROVE  ReapInv'
  <2>1. CallTypes' /\ (\A d \in Call \ {c} : call'[d] = call[d]) /\ call'[c].pc = "idle"
    BY <1>1, <1>9, Killing
  <2>2. swapped' = {d \in Call \ {c} : Underway(d)}
    BY <1>9 DEF ReaperKills, ReapEnds
  <2>3. \A d \in Call \ {c} : d \notin swapped' => call'[d].pc = "idle"
    BY <1>1, <2>1, <2>2, OthersSwapped
  <2>4. OwnContext'
    BY <2>1, <2>3 DEF OwnContext
  <2>5. c \notin swapped => call[c].victim = Target[c]
    BY <1>9 DEF ReaperKills, ReapInv, OwnContext
  <2>6. reaped' = IF c \in swapped THEN reaped ELSE reaped \cup {<<c, call[c].victim>>}
    BY <1>9 DEF ReaperKills
  <2>7. ReapsOwnTarget'
    BY <2>5, <2>6 DEF ReapInv, ReapsOwnTarget
  <2> QED
    BY <2>1, <2>4, <2>7 DEF ReapInv
<1> QED
  BY <1>2, <1>3, <1>4, <1>5, <1>6, <1>7, <1>8, <1>9 DEF Next, UINext

\* tool_base.py:99 - the reaper of a call that has timed out kills only what that call was working
\* on, unless another call of the tool has set or cleared the one context they share.
THEOREM ReapsCorrect == Spec => []ReapsOwnTarget
<1>1. ReapInv => ReapsOwnTarget
  BY DEF ReapInv
<1> QED
  BY ReapInit, ReapStep, <1>1, PTL DEF Spec

----------------------------------------------------------------------------
(* KillComesLast: of the checks of a target at most one recovers it, unless they have raced, and  *)
(* what it does is what the actions recorded so far lead to.                                      *)

WatchTypes ==
    /\ added \in [Watched -> 0 .. MaxAdds]
    /\ watch \in [Status -> [frozen : BOOLEAN, taken : Seq(Recovery)]]
    /\ checker \in [Checker -> CheckRecord]
    /\ tried \in [Watched -> SUBSET Recovery]
    /\ raced \in [Watched -> BOOLEAN]

Recovering(k, p) == checker[k].pc = "recover" /\ CheckedProc(k) = p
OneRecovers(p) == \A j, k \in Checker : (Recovering(j, p) /\ Recovering(k, p)) => j = k
Follows(taken, done) ==
    /\ Len(taken) >= 1 => "retry_message" \in done
    /\ Len(taken) >= 2 => "close_graceful" \in done
Leads(taken, action) ==
    /\ action = "retry_message" => Len(taken) = 0
    /\ action = "close_graceful" => Len(taken) = 1
    /\ action \in {"kill", "restart"} => Len(taken) >= 2
Ladder(p) ==
    /\ OneRecovers(p)
    /\ \A n \in 0 .. MaxAdds : Follows(watch[<<p, n>>].taken, tried[p])
    /\ \A k \in Checker : Recovering(k, p) => Leads(Checked(k).taken, checker[k].action)
    /\ "kill" \in tried[p] => {"retry_message", "close_graceful"} \subseteq tried[p]

LadderInv == WatchTypes /\ \A p \in Watched : ~raced[p] => Ladder(p)

LEMMA IdleCheck == Idle \in CheckRecord /\ Idle.pc = "idle"
<1>1. (CHOOSE p \in Watched : TRUE) \in Watched
  BY WatchdogAssumption
<1> DEFINE any == CHOOSE p \in Watched : TRUE
<1>2. 0 \in 0 .. MaxAdds
  BY WatchdogAssumption
<1>3. <<any, 0>> \in Status
  BY <1>1, <1>2 DEF Status
<1> HIDE DEF any
<1>4. Checking(any, 0) \in CheckRecord
  BY <1>3 DEF Checking, CheckRecord, Recovery
<1>5. [Checking(any, 0) EXCEPT !.pc = "idle"] \in CheckRecord
      /\ [Checking(any, 0) EXCEPT !.pc = "idle"].pc = "idle"
  BY <1>4 DEF CheckRecord
<1> QED
  BY <1>5 DEF Idle, any

LEMMA LadderInit == Init => LadderInv
<1> SUFFICES ASSUME Init PROVE LadderInv
  OBVIOUS
<1>1. WatchTypes
  <2>1. <<>> \in Seq(Recovery) /\ 0 \in 0 .. MaxAdds
    BY WatchdogAssumption
  <2>2. [frozen |-> FALSE, taken |-> <<>>] \in [frozen : BOOLEAN, taken : Seq(Recovery)]
    BY <2>1
  <2> QED
    BY <2>1, <2>2, IdleCheck DEF Init, WatchInit, WatchTypes
<1>2. ASSUME NEW p \in Watched PROVE Ladder(p)
  <2>1. \A k \in Checker : ~Recovering(k, p)
    BY IdleCheck DEF Init, WatchInit, Recovering
  <2>2. \A n \in 0 .. MaxAdds : watch[<<p, n>>].taken = <<>> /\ Len(watch[<<p, n>>].taken) = 0
    BY DEF Init, WatchInit, Status
  <2>3. tried[p] = {}
    BY DEF Init, WatchInit
  <2> QED
    BY <2>1, <2>2, <2>3 DEF Ladder, OneRecovers, Follows
<1> QED
  BY <1>1, <1>2 DEF LadderInv

LEMMA NextLeads ==
    ASSUME NEW taken \in Seq(Recovery)
    PROVE  NextRecovery(taken) \in Recovery \ {"restart"} /\ Leads(taken, NextRecovery(taken))
<1>1. Len(taken) \in Nat /\ DOMAIN RecoverySequence = 1 .. 3
  BY DEF RecoverySequence
<1>2. CASE Len(taken) = 0
  BY <1>1, <1>2 DEF NextRecovery, RecoverySequence, Recovery, Leads
<1>3. CASE Len(taken) = 1
  BY <1>1, <1>3 DEF NextRecovery, RecoverySequence, Recovery, Leads
<1>4. CASE Len(taken) = 2
  BY <1>1, <1>4 DEF NextRecovery, RecoverySequence, Recovery, Leads
<1>5. CASE Len(taken) > 2
  BY <1>1, <1>5 DEF NextRecovery, Recovery, Leads
<1>6. Len(taken) = 0 \/ Len(taken) = 1 \/ Len(taken) = 2 \/ Len(taken) > 2
  <2> DEFINE n == Len(taken)
  <2>1. n \in Nat
    OBVIOUS
  <2> HIDE DEF n
  <2>2. n = 0 \/ n = 1 \/ n = 2 \/ n > 2
    BY <2>1
  <2> QED
    BY <2>2 DEF n
<1> QED
  BY <1>2, <1>3, <1>4, <1>5, <1>6

\* What an action adds to the record follows again.
LEMMA AppendFollows ==
    ASSUME NEW taken \in Seq(Recovery), NEW done \in SUBSET Recovery, NEW action \in Recovery,
           Follows(taken, done), Leads(taken, action)
    PROVE  /\ Append(taken, action) \in Seq(Recovery)
           /\ Follows(Append(taken, action), done \cup {action})
           /\ action \in {"kill", "restart"} =>
                /\ {"retry_message", "close_graceful"} \subseteq done
                /\ Leads(Append(taken, action), "restart")
<1>1. Append(taken, action) \in Seq(Recovery) /\ Len(Append(taken, action)) = Len(taken) + 1
      /\ Len(taken) \in Nat
  OBVIOUS
<1> QED
  BY <1>1 DEF Follows, Leads, Recovery

\* A step that begins no recovery, records none and undoes none.
LEMMA LadderFrame ==
    ASSUME LadderInv, WatchTypes', UNCHANGED <<tried, raced>>,
           \A s \in Status : watch'[s].taken = watch[s].taken,
           \A k \in Checker : checker'[k] = checker[k] \/ checker'[k].pc # "recover"
    PROVE  LadderInv'
<1> SUFFICES ASSUME NEW p \in Watched, ~raced'[p]
             PROVE  Ladder(p)'
  BY DEF LadderInv
<1>1. Ladder(p) /\ WatchTypes
  BY DEF LadderInv
<1>2. \A k \in Checker : Recovering(k, p)' => (Recovering(k, p) /\ checker'[k] = checker[k])
  BY DEF Recovering, CheckedProc
<1>3. \A n \in 0 .. MaxAdds : watch'[<<p, n>>].taken = watch[<<p, n>>].taken
  BY DEF Status
<1>4. \A k \in Checker : checker[k].status \in Status
  BY <1>1 DEF WatchTypes, CheckRecord
<1>5. OneRecovers(p)'
  BY <1>1, <1>2 DEF Ladder, OneRecovers
<1>6. \A n \in 0 .. MaxAdds : Follows(watch[<<p, n>>].taken, tried[p])'
  BY <1>1, <1>3 DEF Ladder
<1>7. \A k \in Checker : Recovering(k, p)' => Leads(Checked(k).taken, checker[k].action)'
  BY <1>1, <1>2, <1>4 DEF Ladder, Checked
<1> QED
  BY <1>1, <1>5, <1>6, <1>7 DEF Ladder

\* The types a step of a check keeps.
LEMMA CheckIdles ==
    ASSUME WatchTypes, NEW k \in Checker, CheckEnds(k)
    PROVE  /\ checker' \in [Checker -> CheckRecord]
           /\ checker'[k].pc = "idle" /\ \A j \in Checker \ {k} : checker'[j] = checker[j]
BY IdleCheck DEF WatchTypes, CheckEnds

LEMMA FrozenMarked ==
    ASSUME WatchTypes, NEW k \in Checker, NEW b \in BOOLEAN,
           watch' = [watch EXCEPT ![checker[k].status].frozen = b]
    PROVE  /\ watch' \in [Status -> [frozen : BOOLEAN, taken : Seq(Recovery)]]
           /\ \A s \in Status : watch'[s].taken = watch[s].taken
<1>1. checker[k].status \in Status
  BY DEF WatchTypes, CheckRecord
<1> QED
  BY <1>1 DEF WatchTypes


LEMMA StatusTypes ==
    ASSUME WatchTypes, NEW k \in Checker
    PROVE  /\ checker[k] \in CheckRecord /\ checker[k].status \in Status
           /\ CheckedProc(k) \in Watched /\ checker[k].action \in Recovery
           /\ Checked(k).taken \in Seq(Recovery)
           /\ \E n \in 0 .. MaxAdds : checker[k].status = <<CheckedProc(k), n>>
<1>1. checker[k] \in CheckRecord /\ checker[k].status \in Status /\ checker[k].action \in Recovery
  BY DEF WatchTypes, CheckRecord
<1>2. PICK p \in Watched, n \in 0 .. MaxAdds : checker[k].status = <<p, n>>
  BY <1>1 DEF Status
<1>3. CheckedProc(k) = p
  BY <1>2 DEF CheckedProc
<1>4. watch[checker[k].status] \in [frozen : BOOLEAN, taken : Seq(Recovery)]
  BY <1>1 DEF WatchTypes
<1>5. Checked(k).taken \in Seq(Recovery)
  BY <1>4 DEF Checked
<1> QED
  BY <1>1, <1>2, <1>3, <1>5

LEMMA BeginLadder == ASSUME LadderInv, NEW k \in Checker, RecoveryBegins(k) PROVE LadderInv'
<1> DEFINE q == CheckedProc(k)
           next == NextRecovery(Checked(k).taken)
<1>1. WatchTypes
  BY DEF LadderInv
<1>2. next \in Recovery \ {"restart"} /\ Leads(Checked(k).taken, next)
  BY <1>1, StatusTypes, NextLeads
<1>3. UNCHANGED <<added, watch, tried>>
      /\ checker' = [checker EXCEPT ![k].pc = "recover", ![k].action = next]
  BY DEF RecoveryBegins
<1>4. /\ raced' \in [Watched -> BOOLEAN]
      /\ \A p \in Watched \ {q} : raced'[p] = raced[p]
      /\ ~raced'[q] => (~raced[q] /\ \A j \in Checker \ {k} : ~Recovering(j, q))
  <2>1. q \in Watched
    BY <1>1, StatusTypes
  <2>2. raced' = [raced EXCEPT ![q] = @ \/ \E j \in Checker \ {k} :
                                               checker[j].pc = "recover" /\ CheckedProc(j) = q]
    BY DEF RecoveryBegins
  <2> QED
    BY <1>1, <2>1, <2>2 DEF WatchTypes, Recovering
<1> HIDE DEF next
<1>5. /\ checker' \in [Checker -> CheckRecord]
      /\ checker'[k].action = next /\ checker'[k].status = checker[k].status
      /\ \A j \in Checker \ {k} : checker'[j] = checker[j]
  <2>1. [[checker[k] EXCEPT !.pc = "recover"] EXCEPT !.action = next] \in CheckRecord
    BY <1>1, <1>2, StatusTypes DEF CheckRecord
  <2> QED
    BY <1>1, <1>3, <2>1, StatusTypes DEF WatchTypes, CheckRecord
<1>6. WatchTypes'
  BY <1>1, <1>3, <1>4, <1>5 DEF WatchTypes
<1>7. ASSUME NEW p \in Watched, ~raced'[p]
      PROVE  Ladder(p)'
  <2>1. Ladder(p)
    BY <1>4, <1>7 DEF LadderInv
  <2>2. \A j \in Checker : Recovering(j, p)' =>
            \/ j # k /\ Recovering(j, p) /\ p # q
            \/ j = k /\ p = q
    BY <1>4, <1>5, <1>7 DEF Recovering, CheckedProc
  <2>3. OneRecovers(p)'
    BY <2>1, <2>2 DEF Ladder, OneRecovers
  <2>4. \A j \in Checker : Recovering(j, p)' => Leads(Checked(j).taken, checker[j].action)'
    BY <1>2, <1>3, <1>5, <2>1, <2>2 DEF Ladder, Checked
  <2>5. \A n \in 0 .. MaxAdds : Follows(watch[<<p, n>>].taken, tried[p])'
    BY <1>3, <2>1 DEF Ladder
  <2> QED
    BY <1>3, <2>1, <2>3, <2>4, <2>5 DEF Ladder
<1> QED
  BY <1>6, <1>7 DEF LadderInv

\* The action under way is done: what was recorded led to it.
LEMMA Done ==
    ASSUME LadderInv, NEW k \in Checker, checker[k].pc = "recover", Executed(k)
    PROVE  /\ tried' \in [Watched -> SUBSET Recovery]
           /\ tried'[CheckedProc(k)] = tried[CheckedProc(k)] \cup {checker[k].action}
           /\ \A p \in Watched \ {CheckedProc(k)} : tried'[p] = tried[p]
           /\ ~raced[CheckedProc(k)] => Leads(Checked(k).taken, checker[k].action)
<1>1. WatchTypes
  BY DEF LadderInv
<1>2. CheckedProc(k) \in Watched /\ checker[k].action \in Recovery
  BY <1>1, StatusTypes
<1>3. tried' = [tried EXCEPT ![CheckedProc(k)] = @ \cup {checker[k].action}]
  BY DEF Executed
<1> QED
  BY <1>1, <1>2, <1>3 DEF WatchTypes, LadderInv, Ladder, Recovering

LEMMA CancelLadder == ASSUME LadderInv, NEW k \in Checker, CheckCancelled(k) PROVE LadderInv'
<1>1. WatchTypes
  BY DEF LadderInv
<1>2. UNCHANGED <<added, watch, raced>> /\ CheckEnds(k)
  BY DEF CheckCancelled
<1>3. /\ checker' \in [Checker -> CheckRecord]
      /\ checker'[k].pc = "idle" /\ \A j \in Checker \ {k} : checker'[j] = checker[j]
  BY <1>1, <1>2, CheckIdles
<1>4. CASE checker[k].pc # "recover"
  <2>1. WatchTypes' /\ UNCHANGED <<tried, raced>>
    BY <1>1, <1>2, <1>3, <1>4 DEF CheckCancelled, WatchTypes
  <2> QED
    BY <1>2, <1>3, <2>1, LadderFrame
<1>5. CASE checker[k].pc = "recover"
  <2> DEFINE q == CheckedProc(k)
             a == checker[k].action
  <2>1. Executed(k)
    BY <1>5 DEF CheckCancelled
  <2>2. q \in Watched /\ a \in Recovery
        /\ \E n \in 0 .. MaxAdds : checker[k].status = <<q, n>>
    BY <1>1, StatusTypes
  <2>3. /\ tried' \in [Watched -> SUBSET Recovery]
        /\ tried'[q] = tried[q] \cup {a}
        /\ \A p \in Watched \ {q} : tried'[p] = tried[p]
        /\ ~raced[q] => Leads(Checked(k).taken, a)
    BY <1>5, <2>1, Done
  <2>4. WatchTypes'
    BY <1>1, <1>2, <1>3, <2>3 DEF WatchTypes
  <2>5. ASSUME NEW p \in Watched, ~raced[p]
        PROVE  Ladder(p)'
    <3>1. Ladder(p)
      BY <2>5 DEF LadderInv
    <3>2. \A j \in Checker : Recovering(j, p)' => (Recovering(j, p) /\ checker'[j] = checker[j])
      BY <1>3 DEF Recovering, CheckedProc
    <3>3. OneRecovers(p)'
      BY <3>1, <3>2 DEF Ladder, OneRecovers
    <3>4. \A j \in Checker : Recovering(j, p)' => Leads(Checked(j).taken, checker[j].action)'
      BY <1>2, <3>1, <3>2 DEF Ladder, Checked
    <3>5. \A n \in 0 .. MaxAdds : Follows(watch[<<p, n>>].taken, tried[p])'
      <4>1. tried[p] \subseteq tried'[p]
        BY <2>2, <2>3
      <4> QED
        BY <1>2, <3>1, <4>1 DEF Ladder, Follows
    <3>6. "kill" \in tried'[p] => {"retry_message", "close_graceful"} \subseteq tried'[p]
      <4>1. CASE p # q
        BY <2>3, <3>1, <4>1 DEF Ladder
      <4>2. CASE p = q
        <5>1. Follows(Checked(k).taken, tried[p]) /\ Leads(Checked(k).taken, a)
          BY <2>2, <2>3, <2>5, <3>1, <4>2 DEF Ladder, Checked
        <5>2. a = "kill" => {"retry_message", "close_graceful"} \subseteq tried[p]
          <6>1. Checked(k).taken \in Seq(Recovery) /\ tried[p] \in SUBSET Recovery
            BY <1>1, StatusTypes DEF WatchTypes
          <6> HIDE DEF a
          <6> QED
            BY <2>2, <5>1, <6>1, AppendFollows
        <5> QED
          BY <2>3, <3>1, <4>2, <5>2 DEF Ladder
      <4> QED
        BY <4>1, <4>2
    <3> QED
      BY <3>3, <3>4, <3>5, <3>6 DEF Ladder
  <2> QED
    BY <1>2, <2>4, <2>5 DEF LadderInv
<1> QED
  BY <1>4, <1>5


\* Recording the action of a check, for the status it works on.
LEMMA Recorded ==
    ASSUME WatchTypes, NEW k \in Checker, RecoveryEnds(k)
    PROVE  LET s == checker[k].status
           IN  /\ watch' \in [Status -> [frozen : BOOLEAN, taken : Seq(Recovery)]]
               /\ watch'[s].taken = Append(Checked(k).taken, checker[k].action)
               /\ \A t \in Status \ {s} : watch'[t] = watch[t]
<1> DEFINE s == checker[k].status
           taken == Append(Checked(k).taken, checker[k].action)
<1>1. s \in Status /\ checker[k].action \in Recovery /\ Checked(k).taken \in Seq(Recovery)
  BY StatusTypes
<1>2. taken \in Seq(Recovery)
  BY <1>1
<1>3. PICK b : b \in BOOLEAN /\ watch' = [watch EXCEPT ![s] = [frozen |-> b, taken |-> taken]]
  <2> DEFINE b == watch[s].frozen /\ ~Succeeds(checker[k].action, CheckedProc(k))
  <2>1. watch' = [watch EXCEPT ![s] = [frozen |-> b, taken |-> taken]]
    BY DEF RecoveryEnds, Checked
  <2>2. b \in BOOLEAN
    OBVIOUS
  <2> QED
    BY <2>1, <2>2
<1> HIDE DEF taken
<1>4. [frozen |-> b, taken |-> taken] \in [frozen : BOOLEAN, taken : Seq(Recovery)]
  BY <1>2, <1>3
<1>5. /\ watch' \in [Status -> [frozen : BOOLEAN, taken : Seq(Recovery)]]
      /\ watch'[s].taken = taken /\ \A t \in Status \ {s} : watch'[t] = watch[t]
  BY <1>1, <1>3, <1>4 DEF WatchTypes
<1> QED
  BY <1>5 DEF taken

\* After it the check is over, or goes on with the restart of what it has killed.
LEMMA GoesOn ==
    ASSUME WatchTypes, NEW k \in Checker, RecoveryEnds(k)
    PROVE  /\ checker' \in [Checker -> CheckRecord]
           /\ \A j \in Checker \ {k} : checker'[j] = checker[j]
           /\ checker'[k].pc = "recover" =>
                 /\ checker'[k].status = checker[k].status
                 /\ checker'[k].action = "restart" /\ checker[k].action = "kill"
<1>1. checker[k] \in CheckRecord
  BY StatusTypes
<1>2. CASE checker[k].action = "kill" /\ AutoRestart
  <2>1. checker' = [checker EXCEPT ![k].action = "restart"]
    BY <1>2 DEF RecoveryEnds
  <2>2. [checker[k] EXCEPT !.action = "restart"] \in CheckRecord
        /\ [checker[k] EXCEPT !.action = "restart"].status = checker[k].status
        /\ [checker[k] EXCEPT !.action = "restart"].action = "restart"
    BY <1>1 DEF CheckRecord, Recovery
  <2>3. checker'[k] = [checker[k] EXCEPT !.action = "restart"]
    BY <2>1 DEF WatchTypes
  <2> QED
    BY <1>2, <2>1, <2>2, <2>3 DEF WatchTypes
<1>3. CASE ~(checker[k].action = "kill" /\ AutoRestart)
  BY <1>3, CheckIdles DEF RecoveryEnds
<1> QED
  BY <1>2, <1>3

LEMMA EndLadder == ASSUME LadderInv, NEW k \in Checker, RecoveryEnds(k) PROVE LadderInv'
<1> DEFINE q == CheckedProc(k)
           a == checker[k].action
           s == checker[k].status
<1>1. WatchTypes
  BY DEF LadderInv
<1>2. /\ q \in Watched /\ a \in Recovery /\ s \in Status /\ Checked(k).taken \in Seq(Recovery)
      /\ \E n \in 0 .. MaxAdds : s = <<q, n>>
  BY <1>1, StatusTypes
<1>3. checker[k].pc = "recover" /\ Executed(k) /\ UNCHANGED <<added, raced>>
  BY DEF RecoveryEnds
<1>4. /\ tried' \in [Watched -> SUBSET Recovery]
      /\ tried'[q] = tried[q] \cup {a}
      /\ \A p \in Watched \ {q} : tried'[p] = tried[p]
      /\ ~raced[q] => Leads(Checked(k).taken, a)
  BY <1>3, Done
<1>5. /\ watch' \in [Status -> [frozen : BOOLEAN, taken : Seq(Recovery)]]
      /\ watch'[s].taken = Append(Checked(k).taken, a)
      /\ \A t \in Status \ {s} : watch'[t] = watch[t]
  BY <1>1, Recorded
<1>6. /\ checker' \in [Checker -> CheckRecord]
      /\ \A j \in Checker \ {k} : checker'[j] = checker[j]
      /\ checker'[k].pc = "recover" =>
            checker'[k].status = s /\ checker'[k].action = "restart" /\ a = "kill"
  BY <1>1, GoesOn
<1>7. WatchTypes'
  BY <1>1, <1>3, <1>4, <1>5, <1>6 DEF WatchTypes
<1>8. \A p \in Watched, j \in Checker : Recovering(j, p)' => Recovering(j, p)
  BY <1>3, <1>6 DEF Recovering, CheckedProc
<1>9. ASSUME NEW p \in Watched, ~raced[p], p # q
      PROVE  Ladder(p)'
  <2>1. Ladder(p) /\ tried'[p] = tried[p]
    BY <1>4, <1>9 DEF LadderInv
  <2>2. \A n \in 0 .. MaxAdds : watch'[<<p, n>>] = watch[<<p, n>>]
    BY <1>2, <1>5, <1>9 DEF Status
  <2>3. \A j \in Checker : Recovering(j, p)' => checker'[j] = checker[j] /\ Checked(j)' = Checked(j)
    <3> SUFFICES ASSUME NEW j \in Checker, Recovering(j, p)'
                 PROVE  checker'[j] = checker[j] /\ Checked(j)' = Checked(j)
      OBVIOUS
    <3>1. Recovering(j, p)
      BY <1>8
    <3>2. j # k /\ checker'[j] = checker[j]
      BY <1>6, <1>9, <3>1 DEF Recovering
    <3>3. checker[j].status \in Status /\ checker[j].status # s
      BY <1>1, <1>9, <3>1, StatusTypes DEF Recovering, CheckedProc
    <3> QED
      BY <1>5, <3>2, <3>3 DEF Checked
  <2>4. OneRecovers(p)'
    BY <1>8, <2>1 DEF Ladder, OneRecovers
  <2>5. \A j \in Checker : Recovering(j, p)' => Leads(Checked(j).taken, checker[j].action)'
    BY <1>8, <2>1, <2>3 DEF Ladder
  <2>6. \A n \in 0 .. MaxAdds : Follows(watch[<<p, n>>].taken, tried[p])'
    BY <2>1, <2>2 DEF Ladder
  <2> QED
    BY <2>1, <2>4, <2>5, <2>6 DEF Ladder
<1>10. ASSUME NEW p \in Watched, ~raced[p], p = q
       PROVE  Ladder(p)'
  <2>1. Ladder(p) /\ Leads(Checked(k).taken, a)
    BY <1>2, <1>4, <1>10 DEF LadderInv
  <2>2. Follows(Checked(k).taken, tried[p]) /\ tried[p] \in SUBSET Recovery
    BY <1>1, <1>2, <1>10, <2>1 DEF Ladder, Checked, WatchTypes
  <2>3. /\ Follows(Append(Checked(k).taken, a), tried[p] \cup {a})
        /\ a \in {"kill", "restart"} =>
              /\ {"retry_message", "close_graceful"} \subseteq tried[p]
              /\ Leads(Append(Checked(k).taken, a), "restart")
    <3> HIDE DEF a
    <3> QED
      BY <1>2, <2>1, <2>2, AppendFollows
  <2>4. OneRecovers(p)'
    BY <1>8, <2>1 DEF Ladder, OneRecovers
  <2>5. \A j \in Checker : Recovering(j, p)' => Leads(Checked(j).taken, checker[j].action)'
    <3> SUFFICES ASSUME NEW j \in Checker, Recovering(j, p)'
                 PROVE  Leads(Checked(j).taken, checker[j].action)'
      OBVIOUS
    <3>1. j = k
      BY <1>2, <1>3, <1>8, <1>10, <2>1 DEF Ladder, OneRecovers, Recovering
    <3>2. checker'[k].pc = "recover"
      BY <3>1 DEF Recovering
    <3> QED
      BY <1>5, <1>6, <2>3, <3>1, <3>2 DEF Checked
  <2>6. \A n \in 0 .. MaxAdds : Follows(watch[<<p, n>>].taken, tried[p])'
    <3> SUFFICES ASSUME NEW n \in 0 .. MaxAdds
                 PROVE  Follows(watch'[<<p, n>>].taken, tried'[p])
      OBVIOUS
    <3>1. CASE <<p, n>> = s
      BY <1>4, <1>5, <1>10, <2>3, <3>1
    <3>2. CASE <<p, n>> # s
      <4>1. watch'[<<p, n>>] = watch[<<p, n>>]
        BY <1>5, <3>2 DEF Status
      <4> QED
        BY <1>4, <2>1, <4>1 DEF Ladder, Follows
    <3> QED
      BY <3>1, <3>2
  <2>7. "kill" \in tried'[p] => {"retry_message", "close_graceful"} \subseteq tried'[p]
    BY <1>4, <1>10, <2>1, <2>3 DEF Ladder
  <2> QED
    BY <2>4, <2>5, <2>6, <2>7 DEF Ladder
<1>11. \A p \in Watched : ~raced'[p] => Ladder(p)'
  <2> SUFFICES ASSUME NEW p \in Watched, ~raced'[p]
               PROVE  Ladder(p)'
    OBVIOUS
  <2>1. ~raced[p]
    BY <1>3
  <2>2. CASE p # q
    BY <1>9, <2>1, <2>2
  <2>3. CASE p = q
    BY <1>10, <2>1, <2>3
  <2> QED
    BY <2>2, <2>3
<1> QED
  BY <1>7, <1>11 DEF LadderInv

LEMMA LadderStep == LadderInv /\ [Next]_vars => LadderInv'
<1> SUFFICES ASSUME LadderInv, [Next]_vars PROVE LadderInv'
  OBVIOUS
<1>1. WatchTypes
  BY DEF LadderInv
<1>2. ASSUME UNCHANGED <<added, watch, checker, tried, raced>>
      PROVE  LadderInv'
  BY <1>1, <1>2, LadderFrame DEF WatchTypes
<1>3. CASE UNCHANGED vars
  BY <1>2, <1>3 DEF vars, watchVars
<1>4. CASE UINext
  BY <1>2, <1>4 DEF UINext, watchVars, CallBegins, LockGranted, ThreadReturns, CallEnds,
                    CallTimesOut, ReaperLooks, ReaperKills
<1>5. ASSUME NEW p \in Proc, Freezes(p) \/ Thaws(p)
      PROVE  LadderInv'
  BY <1>2, <1>5 DEF Freezes, Thaws
<1>6. ASSUME NEW p \in Watched, AddTarget(p)
      PROVE  LadderInv'
  <2>1. added' \in [Watched -> 0 .. MaxAdds]
    BY <1>1, <1>6, WatchdogAssumption DEF WatchTypes, AddTarget
  <2> QED
    BY <1>1, <1>6, <2>1, LadderFrame DEF WatchTypes, AddTarget
<1>7. ASSUME NEW k \in Checker, NEW p \in Watched, CheckBegins(k, p)
      PROVE  LadderInv'
  <2>1. Checking(p, added[p]) \in CheckRecord /\ Checking(p, added[p]).pc = "ask"
    BY <1>1 DEF WatchTypes, Checking, CheckRecord, Status, Recovery
  <2>2. UNCHANGED <<added, watch, tried, raced>>
        /\ checker' = [checker EXCEPT ![k] = Checking(p, added[p])]
    BY <1>7 DEF CheckBegins
  <2>3. WatchTypes'
    BY <1>1, <2>1, <2>2 DEF WatchTypes
  <2>4. \A j \in Checker : checker'[j] = checker[j] \/ checker'[j].pc # "recover"
    BY <1>1, <2>1, <2>2 DEF WatchTypes
  <2> QED
    BY <2>2, <2>3, <2>4, LadderFrame
<1>8. ASSUME NEW k \in Checker, FoundWell(k) \/ FoundFrozen(k)
      PROVE  LadderInv'
  <2>1. PICK b \in BOOLEAN : watch' = [watch EXCEPT ![checker[k].status].frozen = b]
    BY <1>8 DEF FoundWell, FoundFrozen
  <2>2. UNCHANGED <<added, tried, raced>> /\ CheckEnds(k)
    BY <1>8 DEF FoundWell, FoundFrozen
  <2>3. /\ watch' \in [Status -> [frozen : BOOLEAN, taken : Seq(Recovery)]]
        /\ \A s \in Status : watch'[s].taken = watch[s].taken
    BY <1>1, <2>1, FrozenMarked
  <2>4. /\ checker' \in [Checker -> CheckRecord]
        /\ checker'[k].pc = "idle" /\ \A j \in Checker \ {k} : checker'[j] = checker[j]
    BY <1>1, <2>2, CheckIdles
  <2>5. WatchTypes'
    BY <1>1, <2>2, <2>3, <2>4 DEF WatchTypes
  <2>6. \A j \in Checker : checker'[j] = checker[j] \/ checker'[j].pc # "recover"
    BY <2>4
  <2> QED
    BY <2>2, <2>3, <2>5, <2>6, LadderFrame
<1> QED
  BY <1>3, <1>4, <1>5, <1>6, <1>7, <1>8, BeginLadder, EndLadder, CancelLadder DEF Next, WatchNext

\* process_watchdog.py:490 - the watchdog kills a process only after a message and the closing of
\* its window were tried, unless two checks have recovered it at once.
THEOREM KillsLast == Spec => []KillComesLast
<1>1. LadderInv => KillComesLast
  BY DEF LadderInv, Ladder, KillComesLast
<1> QED
  BY LadderInit, LadderStep, <1>1, PTL DEF Spec

----------------------------------------------------------------------------
(* The queue of the lock: exactly the calls that wait, each once, in the order in which they came. *)

Waits(queue, c) == \E i \in DOMAIN queue : queue[i] = c
Distinct(queue) == \A i, j \in DOMAIN queue : queue[i] = queue[j] => i = j

\* Who gives up its place is gone from the queue, and nobody else is.
LEMMA Removal ==
    ASSUME NEW S, NEW queue \in Seq(S), NEW c, Distinct(queue)
    PROVE  /\ Without(queue, c) \in Seq(S) /\ Distinct(Without(queue, c))
           /\ \A d : Waits(Without(queue, c), d) <=> (Waits(queue, d) /\ d # c)
<1>1. Len(queue) \in Nat /\ DOMAIN queue = 1 .. Len(queue) /\ \A i \in 1 .. Len(queue) : queue[i] \in S
  BY LenProperties, ElementOfSeq
<1>2. CASE ~Waits(queue, c)
  BY <1>2 DEF Without, Waits
<1>3. CASE Waits(queue, c)
  <2> DEFINE n == Len(queue)
             k == CHOOSE j \in DOMAIN queue : queue[j] = c
             before == SubSeq(queue, 1, k - 1)
             after == SubSeq(queue, k + 1, n)
             rest == before \o after
  <2>1. k \in 1 .. n /\ queue[k] = c
    BY <1>1, <1>3 DEF Waits
  <2>2. Without(queue, c) = rest
    BY <1>3 DEF Without, Waits
  <2> HIDE DEF k
  <2>3. /\ before \in Seq(S) /\ Len(before) = k - 1
        /\ \A i \in 1 .. k - 1 : before[i] = queue[i]
    <3>1. \A i \in 1 .. k - 1 : queue[i] \in S
      BY <1>1, <2>1
    <3>2. k - 1 \in Int /\ 1 \in Int
      BY <2>1
    <3>3. /\ before \in Seq(S) /\ Len(before) = IF 1 <= k - 1 THEN k - 1 - 1 + 1 ELSE 0
          /\ \A i \in 1 .. k - 1 - 1 + 1 : before[i] = queue[1 + i - 1]
      BY <3>1, <3>2, SubSeqProperties
    <3> QED
      BY <1>1, <2>1, <3>3
  <2>4. /\ after \in Seq(S) /\ Len(after) = n - k
        /\ \A i \in 1 .. n - k : after[i] = queue[k + i]
    <3>1. \A i \in k + 1 .. n : queue[i] \in S
      BY <1>1, <2>1
    <3>2. k + 1 \in Int /\ n \in Int /\ k \in Int
      BY <1>1, <2>1
    <3>3. /\ after \in Seq(S) /\ Len(after) = IF k + 1 <= n THEN n - (k + 1) + 1 ELSE 0
          /\ \A i \in 1 .. n - (k + 1) + 1 : after[i] = queue[k + 1 + i - 1]
      BY <3>1, <3>2, SubSeqProperties
    <3> HIDE DEF after, n
    <3>4. k <= n
      BY <1>1, <2>1 DEF n
    <3>5. Len(after) = n - k /\ n - (k + 1) + 1 = n - k
      BY <3>2, <3>3, <3>4
    <3>6. ASSUME NEW i \in 1 .. n - k PROVE after[i] = queue[k + i]
      <4>1. k + 1 + i - 1 = k + i
        BY <3>2
      <4> QED
        BY <3>3, <3>5, <4>1
    <3> QED
      BY <3>3, <3>5, <3>6
  <2> HIDE DEF before, after
  <2>5. /\ rest \in Seq(S) /\ Len(rest) = n - 1
        /\ \A i \in 1 .. n - 1 : rest[i] = IF i < k THEN queue[i] ELSE queue[i + 1]
    <3>1. /\ rest \in Seq(S) /\ Len(rest) = Len(before) + Len(after)
          /\ \A i \in 1 .. Len(before) + Len(after) :
                rest[i] = IF i <= Len(before) THEN before[i] ELSE after[i - Len(before)]
      BY <2>3, <2>4, ConcatProperties
    <3>2. Len(before) + Len(after) = n - 1
      BY <1>1, <2>1, <2>3, <2>4
    <3>3. ASSUME NEW i \in 1 .. n - 1
          PROVE  rest[i] = IF i < k THEN queue[i] ELSE queue[i + 1]
      <4>1. rest[i] = IF i <= k - 1 THEN before[i] ELSE after[i - (k - 1)]
        BY <2>3, <3>1, <3>2
      <4>2. CASE i < k
        BY <1>1, <2>1, <2>3, <4>1, <4>2
      <4>3. CASE ~(i < k)
        <5>1. i - (k - 1) \in 1 .. n - k /\ k + (i - (k - 1)) = i + 1
          BY <1>1, <2>1, <4>3
        <5>2. rest[i] = after[i - (k - 1)]
          BY <1>1, <2>1, <4>1, <4>3
        <5> QED
          BY <2>4, <4>3, <5>1, <5>2
      <4> QED
        BY <4>2, <4>3
    <3> QED
      BY <3>1, <3>2, <3>3
  <2> HIDE DEF rest, n
  <2>6. DOMAIN rest = 1 .. n - 1 /\ n \in Nat
    BY <1>1, <2>5, LenProperties DEF n
  <2>7. Distinct(rest)
    <3> SUFFICES ASSUME NEW i \in 1 .. n - 1, NEW j \in 1 .. n - 1, rest[i] = rest[j]
                 PROVE  i = j
      BY <2>6 DEF Distinct
    <3> DEFINE place(m) == IF m < k THEN m ELSE m + 1
    <3>1. /\ place(i) \in DOMAIN queue /\ place(j) \in DOMAIN queue
          /\ queue[place(i)] = rest[i] /\ queue[place(j)] = rest[j]
      BY <1>1, <2>1, <2>5, <2>6 DEF n
    <3>2. place(i) = place(j)
      BY <3>1 DEF Distinct
    <3> QED
      BY <2>1, <2>6, <3>2
  <2>8. ASSUME NEW d
        PROVE  Waits(rest, d) <=> (Waits(queue, d) /\ d # c)
    <3>1. ASSUME Waits(rest, d)
          PROVE  Waits(queue, d) /\ d # c
      <4>1. PICK i \in 1 .. n - 1 : rest[i] = d
        BY <2>6, <3>1 DEF Waits
      <4>2. PICK m \in 1 .. n : m # k /\ queue[m] = d
        <5>1. CASE i < k
          BY <2>1, <2>5, <2>6, <4>1, <5>1
        <5>2. CASE ~(i < k)
          BY <2>1, <2>5, <2>6, <4>1, <5>2
        <5> QED
          BY <5>1, <5>2
      <4> QED
        BY <1>1, <2>1, <4>2 DEF Waits, Distinct, n
    <3>2. ASSUME Waits(queue, d), d # c
          PROVE  Waits(rest, d)
      <4>1. PICK m \in 1 .. n : queue[m] = d
        BY <1>1, <3>2 DEF Waits, n
      <4>2. m # k
        BY <2>1, <3>2, <4>1
      <4>3. CASE m < k
        <5>1. m \in 1 .. n - 1 /\ rest[m] = d
          BY <2>1, <2>5, <2>6, <4>1, <4>3
        <5> QED
          BY <2>6, <5>1 DEF Waits
      <4>4. CASE m > k
        <5>1. m - 1 \in 1 .. n - 1 /\ ~(m - 1 < k) /\ (m - 1) + 1 = m
          BY <2>1, <2>6, <4>4
        <5>2. rest[m - 1] = d
          BY <2>5, <4>1, <5>1
        <5> QED
          BY <2>6, <5>1, <5>2 DEF Waits
      <4> QED
        BY <2>1, <4>2, <4>3, <4>4, <2>6
    <3> QED
      BY <3>1, <3>2
  <2> QED
    BY <2>2, <2>5, <2>7, <2>8
<1> QED
  BY <1>2, <1>3

LEMMA Joining ==
    ASSUME NEW S, NEW queue \in Seq(S), NEW c \in S, Distinct(queue), ~Waits(queue, c)
    PROVE  /\ Append(queue, c) \in Seq(S) /\ Distinct(Append(queue, c))
           /\ \A d : Waits(Append(queue, c), d) <=> (Waits(queue, d) \/ d = c)
<1> DEFINE n == Len(queue)
           longer == Append(queue, c)
<1>1. n \in Nat /\ DOMAIN queue = 1 .. n
  BY LenProperties
<1>2. /\ longer \in Seq(S) /\ Len(longer) = n + 1 /\ longer[n + 1] = c
      /\ \A i \in 1 .. n : longer[i] = queue[i]
  BY AppendProperties
<1>3. DOMAIN longer = 1 .. n + 1
  BY <1>2, LenProperties
<1> HIDE DEF n, longer
<1>4. Distinct(longer)
  BY <1>1, <1>2, <1>3 DEF Distinct, Waits
<1>5. ASSUME NEW d PROVE Waits(longer, d) <=> (Waits(queue, d) \/ d = c)
  <2>1. ASSUME Waits(longer, d) PROVE Waits(queue, d) \/ d = c
    <3>1. PICK i \in 1 .. n + 1 : longer[i] = d
      BY <1>3, <2>1 DEF Waits
    <3>2. i = n + 1 \/ i \in 1 .. n
      BY <1>1
    <3> QED
      BY <1>1, <1>2, <3>1, <3>2 DEF Waits
  <2>2. ASSUME Waits(queue, d) PROVE Waits(longer, d)
    <3>1. PICK i \in 1 .. n : queue[i] = d
      BY <1>1, <2>2 DEF Waits
    <3>2. i \in 1 .. n + 1
      BY <1>1
    <3> QED
      BY <1>2, <1>3, <3>1, <3>2 DEF Waits
  <2>3. ASSUME d = c PROVE Waits(longer, d)
    <3>1. n + 1 \in 1 .. n + 1
      BY <1>1
    <3> QED
      BY <1>2, <1>3, <2>3, <3>1 DEF Waits
  <2> QED
    BY <2>1, <2>2, <2>3
<1> QED
  BY <1>2, <1>4, <1>5 DEF longer

LEMMA Serving ==
    ASSUME NEW S, NEW queue \in Seq(S), Distinct(queue), queue # <<>>
    PROVE  /\ Tail(queue) \in Seq(S) /\ Distinct(Tail(queue))
           /\ \A d : Waits(Tail(queue), d) <=> (Waits(queue, d) /\ d # Head(queue))
<1> DEFINE n == Len(queue)
           rest == Tail(queue)
<1>1. n \in Nat \ {0} /\ DOMAIN queue = 1 .. n /\ Head(queue) = queue[1]
  BY LenProperties, EmptySeq
<1>2. rest \in Seq(S) /\ Len(rest) = n - 1 /\ \A i \in 1 .. Len(rest) : rest[i] = queue[i + 1]
  BY HeadTailProperties
<1>3. DOMAIN rest = 1 .. n - 1
  BY <1>2, LenProperties
<1> HIDE DEF n, rest
<1>4. Distinct(rest)
  <2> SUFFICES ASSUME NEW i \in 1 .. n - 1, NEW j \in 1 .. n - 1, rest[i] = rest[j] PROVE i = j
    BY <1>3 DEF Distinct
  <2>1. i + 1 \in DOMAIN queue /\ j + 1 \in DOMAIN queue /\ queue[i + 1] = queue[j + 1]
    BY <1>1, <1>2
  <2>2. i + 1 = j + 1
    BY <2>1 DEF Distinct
  <2> QED
    BY <2>2
<1>5. ASSUME NEW d PROVE Waits(rest, d) <=> (Waits(queue, d) /\ d # Head(queue))
  <2>1. ASSUME Waits(rest, d) PROVE Waits(queue, d) /\ d # Head(queue)
    <3>1. PICK i \in 1 .. n - 1 : rest[i] = d
      BY <1>3, <2>1 DEF Waits
    <3>2. i + 1 \in 1 .. n /\ i + 1 # 1 /\ 1 \in 1 .. n /\ queue[i + 1] = d
      BY <1>1, <1>2, <3>1
    <3> QED
      BY <1>1, <3>2 DEF Waits, Distinct
  <2>2. ASSUME Waits(queue, d), d # Head(queue) PROVE Waits(rest, d)
    <3>1. PICK i \in 1 .. n : queue[i] = d
      BY <1>1, <2>2 DEF Waits
    <3>2. i # 1
      BY <1>1, <2>2, <3>1
    <3>3. i - 1 \in 1 .. n - 1 /\ (i - 1) + 1 = i
      BY <1>1, <3>2
    <3>4. rest[i - 1] = d
      BY <1>2, <3>1, <3>3
    <3> QED
      BY <1>3, <3>3, <3>4 DEF Waits
  <2> QED
    BY <2>1, <2>2
<1> QED
  BY <1>2, <1>4, <1>5 DEF rest

QueueInv ==
    /\ waiters \in Seq(Locking) /\ Distinct(waiters)
    /\ \A c \in Call : call[c].pc = "waiting" <=> Waits(waiters, c)

LEMMA QueueInit == Init => QueueInv
<1> SUFFICES ASSUME Init PROVE QueueInv
  OBVIOUS
<1>1. waiters = <<>> /\ \A c \in Call : call[c].pc = "idle"
  BY DEF Init
<1>2. waiters \in Seq(Locking) /\ DOMAIN waiters = {}
  BY <1>1
<1> QED
  BY <1>1, <1>2 DEF QueueInv, Distinct, Waits

\* A call that gives up its place and does not wait on.
LEMMA QueueLeft ==
    ASSUME QueueInv, NEW c \in Call, LeavesLock(c), call'[c].pc # "waiting",
           \A d \in Call \ {c} : call'[d] = call[d]
    PROVE  QueueInv'
<1>1. /\ waiters' \in Seq(Locking) /\ Distinct(waiters')
      /\ \A d : Waits(waiters', d) <=> (Waits(waiters, d) /\ d # c)
  BY Removal DEF QueueInv, LeavesLock
<1> QED
  BY <1>1 DEF QueueInv

LEMMA QueueStep == QueueInv /\ LockInv /\ [Next]_vars => QueueInv'
<1> SUFFICES ASSUME QueueInv, LockInv, [Next]_vars PROVE QueueInv'
  OBVIOUS
<1>1. CallTypes
  BY DEF LockInv
<1>2. CASE UNCHANGED vars \/ (WatchNext /\ UNCHANGED uiVars)
  BY <1>2 DEF vars, uiVars, QueueInv
<1>3. ASSUME NEW c \in Call, CallBegins(c)
      PROVE  QueueInv'
  <2>1. CallTypes' /\ (\A d \in Call \ {c} : call'[d] = call[d]) /\ call[c].pc = "idle"
    BY <1>1, <1>3, Beginning DEF CallBegins
  <2>2. CASE c \in Locking /\ ~Free
    <3>1. waiters' = Append(waiters, c) /\ call'[c].pc = "waiting" /\ ~Waits(waiters, c)
      BY <1>1, <1>3, <2>1, <2>2, Moves DEF CallBegins, CallTypes, QueueInv
    <3>2. /\ waiters' \in Seq(Locking) /\ Distinct(waiters')
          /\ \A d : Waits(waiters', d) <=> (Waits(waiters, d) \/ d = c)
      BY <2>2, <3>1, Joining DEF QueueInv
    <3> QED
      BY <2>1, <3>1, <3>2 DEF QueueInv
  <2>3. CASE ~(c \in Locking /\ ~Free)
    <3>1. Goes(c, "operating") /\ UNCHANGED waiters
      BY <1>3, <2>3 DEF CallBegins, Starts
    <3>2. call'[c].pc = "operating"
      BY <1>1, <3>1, Moves DEF CallTypes
    <3> QED
      BY <2>1, <3>1, <3>2 DEF QueueInv
  <2> QED
    BY <2>2, <2>3
<1>4. ASSUME NEW c \in Call, LockGranted(c)
      PROVE  QueueInv'
  <2>1. /\ call[c].pc = "waiting" /\ call'[c].pc = "operating"
        /\ \A d \in Call \ {c} : call'[d] = call[d]
    BY <1>1, <1>4, Granting
  <2>2. Head(waiters) = c /\ waiters' = Tail(waiters)
    BY <1>4 DEF LockGranted
  <2>3. waiters # <<>>
    BY <2>1 DEF QueueInv, Waits
  <2>4. /\ waiters' \in Seq(Locking) /\ Distinct(waiters')
        /\ \A d : Waits(waiters', d) <=> (Waits(waiters, d) /\ d # c)
    BY <2>2, <2>3, Serving DEF QueueInv
  <2> QED
    BY <2>1, <2>4 DEF QueueInv
<1>5. ASSUME NEW c \in Call, ThreadReturns(c)
      PROVE  QueueInv'
  BY <1>5 DEF ThreadReturns, QueueInv
<1>6. ASSUME NEW c \in Call, CallEnds(c)
      PROVE  QueueInv'
  BY <1>1, <1>6, Ending, QueueLeft DEF CallEnds
<1>7. ASSUME NEW c \in Call, CallTimesOut(c)
      PROVE  QueueInv'
  <2>1. call'[c].pc # "waiting" /\ \A d \in Call \ {c} : call'[d] = call[d]
    BY <1>1, <1>7, TimingOut
  <2> QED
    BY <1>7, <2>1, QueueLeft DEF CallTimesOut
<1>8. ASSUME NEW c \in Call, ReaperLooks(c)
      PROVE  QueueInv'
  <2>1. call'[c].pc # "waiting" /\ \A d \in Call \ {c} : call'[d] = call[d]
    BY <1>1, <1>8, Looking
  <2> QED
    BY <1>8, <2>1 DEF ReaperLooks, QueueInv
<1>9. ASSUME NEW c \in Call, ReaperKills(c)
      PROVE  QueueInv'
  <2>1. call'[c].pc # "waiting" /\ \A d \in Call \ {c} : call'[d] = call[d]
    BY <1>1, <1>9, Killing
  <2> QED
    BY <1>9, <2>1 DEF ReaperKills, QueueInv
<1> QED
  BY <1>2, <1>3, <1>4, <1>5, <1>6, <1>7, <1>8, <1>9 DEF Next, UINext

\* ui_lock.py:349 - the queue of the lock is exactly the calls that wait for it, each once: what
\* times out while it waits leaves no place behind that would be granted to nobody.
THEOREM QueueCorrect == Spec => []QueueInv
BY QueueInit, QueueStep, LockInit, LockStep, PTL DEF Spec

----------------------------------------------------------------------------
(* The types of the whole: a call whose target is being reaped has one, and the lock is held only *)
(* by a call that takes it.                                                                       *)

ProcTypes == proc \in [Proc -> ProcState] /\ freezes \in 0 .. MaxFreezes

Named == \A c \in Call : call[c].pc \in {"reaping", "killing"} => call[c].victim \in Proc

HistoryTypes ==
    /\ holder \in Locking \cup {NoCall}
    /\ swapped \subseteq Call /\ reaped \subseteq Call \X Proc

TypeInv == LockInv /\ QueueInv /\ LadderInv /\ ProcTypes /\ Named /\ HistoryTypes

LEMMA TypeInit == Init => TypeInv
<1> SUFFICES ASSUME Init PROVE TypeInv
  OBVIOUS
<1>1. ProcTypes
  BY WatchdogAssumption DEF Init, WatchInit, ProcTypes, ProcState
<1>2. Named /\ HistoryTypes
  BY DEF Init, Named, HistoryTypes
<1> QED
  BY <1>1, <1>2, LockInit, QueueInit, LadderInit DEF TypeInv

\* What the thread of a check has done to a process is one of the things a process can do.
LEMMA ExecutedTypes ==
    ASSUME proc \in [Proc -> ProcState], NEW k \in Checker, Executed(k)
    PROVE  proc' \in [Proc -> ProcState]
BY DEF Executed, ProcState

LEMMA ProcStep == TypeInv /\ [Next]_vars => ProcTypes'
<1> SUFFICES ASSUME TypeInv, [Next]_vars PROVE ProcTypes'
  OBVIOUS
<1>1. proc \in [Proc -> ProcState] /\ freezes \in 0 .. MaxFreezes /\ MaxFreezes \in Nat
  BY WatchdogAssumption DEF TypeInv, ProcTypes
<1>2. CASE UNCHANGED <<proc, freezes>>
  BY <1>1, <1>2 DEF ProcTypes
<1>3. ASSUME NEW p \in Proc, Freezes(p)
      PROVE  ProcTypes'
  BY <1>1, <1>3 DEF Freezes, ProcTypes, ProcState
<1>4. ASSUME NEW p \in Proc, Thaws(p)
      PROVE  ProcTypes'
  BY <1>1, <1>4 DEF Thaws, ProcTypes, ProcState
<1>5. ASSUME NEW k \in Checker, RecoveryEnds(k)
      PROVE  ProcTypes'
  BY <1>1, <1>5, ExecutedTypes DEF RecoveryEnds, ProcTypes
<1>6. ASSUME NEW k \in Checker, CheckCancelled(k)
      PROVE  ProcTypes'
  BY <1>1, <1>6, ExecutedTypes DEF CheckCancelled, ProcTypes
<1>7. ASSUME NEW c \in Call, ReaperKills(c)
      PROVE  ProcTypes'
  BY <1>1, <1>7 DEF ReaperKills, ProcTypes, ProcState
<1>8. ASSUME NEW c \in Call,
             \/ CallBegins(c) \/ LockGranted(c) \/ ThreadReturns(c) \/ CallEnds(c)
             \/ CallTimesOut(c) \/ ReaperLooks(c)
      PROVE  UNCHANGED <<proc, freezes>>
  BY <1>8 DEF CallBegins, LockGranted, ThreadReturns, CallEnds, CallTimesOut, ReaperLooks, watchVars
<1>9. CASE UNCHANGED vars
  BY <1>2, <1>9 DEF vars, watchVars
<1>10. ASSUME NEW k \in Checker,
              \/ \E p \in Watched : CheckBegins(k, p)
              \/ FoundWell(k) \/ FoundFrozen(k) \/ RecoveryBegins(k)
       PROVE  UNCHANGED <<proc, freezes>>
  BY <1>10 DEF CheckBegins, FoundWell, FoundFrozen, RecoveryBegins
<1>11. ASSUME NEW p \in Watched, AddTarget(p)
       PROVE  UNCHANGED <<proc, freezes>>
  BY <1>11 DEF AddTarget
<1> QED
  BY <1>2, <1>3, <1>4, <1>5, <1>6, <1>7, <1>8, <1>9, <1>10, <1>11 DEF Next, UINext, WatchNext

LEMMA HistoryStep == TypeInv /\ [Next]_vars => Named' /\ HistoryTypes'
<1> SUFFICES ASSUME TypeInv, [Next]_vars PROVE Named' /\ HistoryTypes'
  OBVIOUS
<1>1. CallTypes /\ Locked /\ Named /\ HistoryTypes
  BY DEF TypeInv, LockInv
<1>2. CASE UNCHANGED vars \/ (WatchNext /\ UNCHANGED uiVars)
  BY <1>1, <1>2 DEF vars, uiVars, Named, HistoryTypes
<1>3. ASSUME NEW c \in Call, CallBegins(c)
      PROVE  Named' /\ HistoryTypes'
  <2>1. swapped' \subseteq Call /\ UNCHANGED reaped
    BY <1>1, <1>3 DEF CallBegins, SetContext, HistoryTypes
  <2> QED
    BY <1>1, <1>3, <2>1, Beginning DEF Named, HistoryTypes
<1>4. ASSUME NEW c \in Call, LockGranted(c)
      PROVE  Named' /\ HistoryTypes'
  <2>1. UNCHANGED <<swapped, reaped>>
    BY <1>4 DEF LockGranted
  <2> QED
    BY <1>1, <1>4, <2>1, Granting DEF Named, HistoryTypes, Locked
<1>5. ASSUME NEW c \in Call, ThreadReturns(c)
      PROVE  Named' /\ HistoryTypes'
  BY <1>1, <1>5, Returning DEF Named, HistoryTypes
<1>6. ASSUME NEW c \in Call, CallEnds(c)
      PROVE  Named' /\ HistoryTypes'
  <2>1. UNCHANGED reaped /\ swapped' = swapped \ {c} /\ holder' \in {holder, NoCall}
    BY <1>6 DEF CallEnds, Ends, LeavesLock
  <2> QED
    BY <1>1, <1>6, <2>1, Ending DEF Named, HistoryTypes
<1>7. ASSUME NEW c \in Call, CallTimesOut(c)
      PROVE  Named' /\ HistoryTypes'
  <2>1. UNCHANGED reaped /\ swapped' \subseteq swapped /\ holder' \in {holder, NoCall}
    BY <1>7 DEF CallTimesOut, Ends, LeavesLock
  <2>2. CallTypes' /\ \A d \in Call \ {c} : call'[d] = call[d]
    BY <1>1, <1>7, TimingOut
  <2>3. CASE context = NoProc
    <3>1. call'[c].pc = "idle"
      BY <1>1, <1>7, <2>3 DEF CallTimesOut, Ends, CallTypes
    <3> QED
      BY <1>1, <2>1, <2>2, <3>1 DEF Named, HistoryTypes
  <2>4. CASE context # NoProc
    <3>1. call'[c] = [pc |-> "reaping", victim |-> context]
      BY <1>1, <1>7, <2>4 DEF CallTimesOut, Victim, CallTypes
    <3>2. call'[c].victim \in Proc
      BY <1>1, <2>4, <3>1 DEF CallTypes
    <3> QED
      BY <1>1, <2>1, <2>2, <3>2 DEF Named, HistoryTypes
  <2> QED
    BY <2>3, <2>4
<1>8. ASSUME NEW c \in Call, ReaperLooks(c)
      PROVE  Named' /\ HistoryTypes'
  <2>1. UNCHANGED reaped /\ call[c].pc = "reaping"
    BY <1>8 DEF ReaperLooks
  <2>2. ReapEnds(c) => swapped' \subseteq Call
    BY DEF ReapEnds
  <2> QED
    BY <1>1, <1>8, <2>1, <2>2, Looking DEF Named, HistoryTypes
<1>9. ASSUME NEW c \in Call, ReaperKills(c)
      PROVE  Named' /\ HistoryTypes'
  <2>1. call[c].victim \in Proc /\ swapped' \subseteq Call
    BY <1>1, <1>9 DEF ReaperKills, ReapEnds, Named
  <2>2. reaped' \subseteq Call \X Proc
    BY <1>1, <1>9, <2>1 DEF ReaperKills, HistoryTypes
  <2> QED
    BY <1>1, <1>9, <2>1, <2>2, Killing DEF Named, HistoryTypes
<1> QED
  BY <1>2, <1>3, <1>4, <1>5, <1>6, <1>7, <1>8, <1>9 DEF Next, UINext

\* core/ui_lock.py, core/process_watchdog.py, core/hung_process_reaper.py - whatever calls, checks
\* and processes do, every variable keeps its type.
THEOREM TypeCorrect == Spec => []TypeOK
<1>1. TypeInv /\ [Next]_vars => TypeInv'
  BY LockStep, QueueStep, LadderStep, ProcStep, HistoryStep DEF TypeInv
<1>2. TypeInv => TypeOK
  <2> SUFFICES ASSUME TypeInv PROVE TypeOK
    OBVIOUS
  <2>1. WatchTypeOK
    BY DEF TypeInv, LadderInv, WatchTypes, ProcTypes, WatchTypeOK
  <2> QED
    BY <2>1 DEF TypeInv, LockInv, CallTypes, QueueInv, HistoryTypes, TypeOK
<1> QED
  BY TypeInit, <1>1, <1>2, PTL DEF Spec
=============================================================================
