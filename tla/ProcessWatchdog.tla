--------------------------- MODULE ProcessWatchdog ---------------------------
(***************************************************************************)
(* core/process_watchdog.py: a watchdog that looks at the processes it has *)
(* been given and, when one stays frozen, sends it a message, closes its   *)
(* window, kills it and may start it again.  The watchdog's own loop and   *)
(* the check_once of the heartbeat tool run the same check, each step of   *)
(* which awaits a thread: two of them may be at the same target.           *)
(***************************************************************************)
EXTENDS Naturals, Sequences, FiniteSets

CONSTANTS
    Proc,        \* processes: a target of the watchdog, of a tool, or both
    Watched,     \* the targets of the watchdog
    Windowed,    \* targets whose window handle it was given
    Checker,     \* callers of check_once: the loop and the tool
    MaxRecovery, \* policy.max_recovery_attempts
    AutoRestart, \* policy.auto_restart, and they have a restart_command
    MaxFreezes,  \* bound: how often processes freeze
    MaxAdds      \* bound: how often a target is added anew

ASSUME WatchdogAssumption ==
    /\ Watched \subseteq Proc /\ Watched # {} /\ Windowed \subseteq Watched
    /\ {MaxRecovery, MaxFreezes, MaxAdds} \subseteq Nat /\ AutoRestart \in BOOLEAN
    /\ IsFiniteSet(Checker) /\ Checker # {}

VARIABLES
    proc,    \* what a process does: the windows of a frozen one do not answer
    freezes, \* how often one has frozen
    added,   \* how often each target was added anew
    watch,   \* the WatchStatus made for a target each time it was added
    checker, \* a check in flight
    tried,   \* what the watchdog has done to each process (a history)
    raced    \* two recoveries of a target were under way at once (a history)

watchVars == <<proc, freezes, added, watch, checker, tried, raced>>

RecoverySequence == <<"retry_message", "close_graceful", "kill">>
Recovery == {"retry_message", "close_graceful", "kill", "restart"}
ProcState == {"ok", "frozen", "dead"}

(* A check in flight works on the status the target had when it began: "ask" while a thread looks *)
(* at the windows, "recover" while an action is executed.                                         *)
Status == Watched \X (0 .. MaxAdds)
CheckRecord == [pc : {"idle", "ask", "recover"}, status : Status, action : Recovery]
Checking(p, n) == [pc |-> "ask", status |-> <<p, n>>, action |-> "retry_message"]
Idle == [Checking(CHOOSE p \in Watched : TRUE, 0) EXCEPT !.pc = "idle"]

WatchInit ==
    /\ proc = [p \in Proc |-> "ok"]
    /\ freezes = 0 /\ added = [p \in Watched |-> 0]
    /\ watch = [s \in Status |-> [frozen |-> FALSE, taken |-> <<>>]]
    /\ checker = [k \in Checker |-> Idle]
    /\ tried = [p \in Watched |-> {}] /\ raced = [p \in Watched |-> FALSE]

----------------------------------------------------------------------------
(* The processes *)

Freezes(p) ==
    /\ proc[p] = "ok" /\ freezes < MaxFreezes
    /\ proc' = [proc EXCEPT ![p] = "frozen"] /\ freezes' = freezes + 1
    /\ UNCHANGED <<added, watch, checker, tried, raced>>

\* A frozen process may answer again, or end: a window that was asked to close, or its user.
Thaws(p) ==
    /\ proc[p] = "frozen"
    /\ \E after \in {"ok", "dead"} : proc' = [proc EXCEPT ![p] = after]
    /\ UNCHANGED <<freezes, added, watch, checker, tried, raced>>

----------------------------------------------------------------------------
(* The targets and the checks *)

AddTarget(p) ==
    /\ added[p] < MaxAdds
    /\ added' = [added EXCEPT ![p] = @ + 1]
    /\ UNCHANGED <<proc, freezes, watch, checker, tried, raced>>

CheckBegins(k, p) ==
    /\ checker[k].pc = "idle"
    /\ checker' = [checker EXCEPT ![k] = Checking(p, added[p])]
    /\ UNCHANGED <<proc, freezes, added, watch, tried, raced>>

Checked(k) == watch[checker[k].status]
CheckedProc(k) == checker[k].status[1]
CheckEnds(k) == checker' = [checker EXCEPT ![k] = Idle]

\* The windows answered or there are none, or the process is gone.
FoundWell(k) ==
    /\ checker[k].pc = "ask" /\ proc[CheckedProc(k)] # "frozen"
    /\ watch' = [watch EXCEPT ![checker[k].status].frozen = FALSE]
    /\ CheckEnds(k)
    /\ UNCHANGED <<proc, freezes, added, tried, raced>>

MayRecover(taken) == Len(taken) < MaxRecovery

\* Mutant of NextRecovery: the position is one too far.
NextRecoveryAhead(taken) ==
    IF Len(taken) + 2 \in DOMAIN RecoverySequence THEN RecoverySequence[Len(taken) + 2] ELSE "kill"

NextRecovery(taken) ==
    IF Len(taken) + 1 \in DOMAIN RecoverySequence THEN RecoverySequence[Len(taken) + 1] ELSE "kill"

\* Frozen for less than the threshold, as at the first check that sees it, or given up.
FoundFrozen(k) ==
    /\ checker[k].pc = "ask" /\ proc[CheckedProc(k)] = "frozen"
    /\ watch' = [watch EXCEPT ![checker[k].status].frozen = TRUE]
    /\ CheckEnds(k)
    /\ UNCHANGED <<proc, freezes, added, tried, raced>>

RecoveryBegins(k) ==
    LET p == CheckedProc(k)
    IN /\ checker[k].pc = "ask" /\ proc[p] = "frozen"
       /\ Checked(k).frozen /\ MayRecover(Checked(k).taken)
       /\ checker' = [checker EXCEPT ![k].pc = "recover",
                                     ![k].action = NextRecovery(Checked(k).taken)]
       /\ raced' = [raced EXCEPT ![p] = @ \/ \E j \in Checker \ {k} :
                                               checker[j].pc = "recover" /\ CheckedProc(j) = p]
       /\ UNCHANGED <<proc, freezes, added, watch, tried>>

Executed(k) ==
    LET p == CheckedProc(k)
        a == checker[k].action
    IN /\ proc' = [proc EXCEPT ![p] = CASE a = "kill" -> "dead"
                                        [] a = "restart" -> "ok"
                                        [] OTHER -> @]
       /\ tried' = [tried EXCEPT ![p] = @ \cup {a}]

\* A message succeeds if it is answered, closing if it could be posted, a kill whatever it did.
Succeeds(action, p) ==
    CASE action = "retry_message" -> p \in Windowed /\ proc[p] = "ok"
      [] action = "close_graceful" -> p \in Windowed
      [] OTHER -> action = "kill"

RecoveryEnds(k) ==
    LET a == checker[k].action
    IN /\ checker[k].pc = "recover"
       /\ Executed(k)
       /\ watch' = [watch EXCEPT ![checker[k].status] =
                        [frozen |-> @.frozen /\ ~Succeeds(a, CheckedProc(k)),
                         taken |-> Append(@.taken, a)]]
       /\ IF a = "kill" /\ AutoRestart
          THEN checker' = [checker EXCEPT ![k].action = "restart"]
          ELSE CheckEnds(k)
       /\ UNCHANGED <<freezes, added, raced>>

\* stop() cancels the loop, the tool's timeout its check: the action a thread is executing is
\* executed, but nothing records it.
CheckCancelled(k) ==
    /\ checker[k].pc # "idle"
    /\ IF checker[k].pc = "recover" THEN Executed(k) ELSE UNCHANGED <<proc, tried>>
    /\ CheckEnds(k)
    /\ UNCHANGED <<freezes, added, watch, raced>>

WatchNext ==
    \/ \E p \in Proc : Freezes(p) \/ Thaws(p)
    \/ \E p \in Watched : AddTarget(p)
    \/ \E k \in Checker :
          \/ \E p \in Watched : CheckBegins(k, p)
          \/ FoundWell(k) \/ FoundFrozen(k) \/ RecoveryBegins(k) \/ RecoveryEnds(k)
          \/ CheckCancelled(k)

----------------------------------------------------------------------------
WatchTypeOK ==
    /\ proc \in [Proc -> ProcState]
    /\ freezes \in 0 .. MaxFreezes /\ added \in [Watched -> 0 .. MaxAdds]
    /\ \A s \in Status : watch[s].frozen \in BOOLEAN /\ watch[s].taken \in Seq(Recovery)
    /\ checker \in [Checker -> CheckRecord]
    /\ tried \in [Watched -> SUBSET Recovery] /\ raced \in [Watched -> BOOLEAN]

(* The watchdog kills last (process_watchdog.py:490): a process is killed only after the message  *)
(* and the closing of its window were tried, whatever is cancelled, thaws or is added anew in     *)
(* between; unless two checks have recovered the target at once, which then skip an action.       *)
KillComesLast ==
    \A p \in Watched : ("kill" \in tried[p] /\ ~raced[p])
                    => {"retry_message", "close_graceful"} \subseteq tried[p]
=============================================================================
