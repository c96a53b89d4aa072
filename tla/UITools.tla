------------------------------ MODULE UITools ------------------------------
(***************************************************************************)
(* Calls of a desktop tool by concurrent runs: BaseTool.run with its       *)
(* timeout, the operations of windows_ui_agent.py under UIOperationLock    *)
(* (core/ui_lock.py) and the reaper that kills a frozen target so that the *)
(* thread of a call that timed out can end (core/hung_process_reaper.py).  *)
(* A thread cannot be interrupted: it goes on after the call is over.  Each *)
(* of Call is one call at a time, over and over.                           *)
(***************************************************************************)
EXTENDS ProcessWatchdog

CONSTANTS
    Call,    \* calls of the tool
    Target,  \* the process each call works on
    Locking, \* calls that take the UI lock; the others only read
    NoCall, NoProc

ASSUME UIToolsAssumption ==
    /\ Target \in [Call -> Proc] /\ Locking \subseteq Call
    /\ NoCall \notin Call /\ NoProc \notin Proc

VARIABLES
    call,    \* where each call is, and the process it is about to look at or to kill
    thread,  \* the worker thread of each call: it may outlive the call
    holder,  \* the call inside the lock
    waiters, \* calls waiting for the lock, in order
    context, \* the tool's _target_context, one for all its calls
    swapped, \* calls under way while another call has set or cleared the context (a history)
    reaped   \* what calls have killed while the context was their own (a history)

uiVars == <<call, thread, holder, waiters, context, swapped, reaped>>
vars == <<watchVars, uiVars>>

CallRecord ==
    [pc : {"idle", "waiting", "operating", "reaping", "killing"}, victim : Proc \cup {NoProc}]

Init ==
    /\ WatchInit
    /\ call = [c \in Call |-> [pc |-> "idle", victim |-> NoProc]]
    /\ thread = [c \in Call |-> "none"]
    /\ holder = NoCall /\ waiters = <<>>
    /\ context = NoProc
    /\ swapped = {} /\ reaped = {}

Underway(c) == call[c].pc # "idle"
Goes(c, pc) == call' = [call EXCEPT ![c].pc = pc]
SetContext(c, p) ==
    /\ context' = p
    /\ swapped' = swapped \cup {d \in Call \ {c} : Underway(d)}

\* The lock is free for a newcomer only if nobody waits: asyncio's lock is fair.
Free == holder = NoCall /\ waiters = <<>>
Starts(c) == Goes(c, "operating") /\ thread' = [thread EXCEPT ![c] = "running"]
Ends(c) ==
    /\ call' = [call EXCEPT ![c] = [pc |-> "idle", victim |-> NoProc]]
    /\ swapped' = swapped \ {c}

----------------------------------------------------------------------------
\* BaseTool.run, _run up to its first await.
CallBegins(c) ==
    /\ call[c].pc = "idle" /\ thread[c] = "none"
    /\ SetContext(c, Target[c])
    /\ IF c \in Locking /\ ~Free
       THEN Goes(c, "waiting") /\ waiters' = Append(waiters, c) /\ UNCHANGED <<thread, holder>>
       ELSE Starts(c) /\ holder' = (IF c \in Locking THEN c ELSE holder) /\ UNCHANGED waiters
    /\ UNCHANGED <<watchVars, reaped>>

LockGranted(c) ==
    /\ call[c].pc = "waiting" /\ holder = NoCall /\ Head(waiters) = c
    /\ holder' = c /\ waiters' = Tail(waiters)
    /\ Starts(c)
    /\ UNCHANGED <<watchVars, context, swapped, reaped>>

\* A call of Win32 or COM returns when the window answers or its process has ended.
ThreadReturns(c) ==
    /\ thread[c] = "running" /\ proc[Target[c]] # "frozen"
    /\ thread' = [thread EXCEPT ![c] = IF call[c].pc = "operating" THEN "returned" ELSE "none"]
    /\ UNCHANGED <<watchVars, call, holder, waiters, context, swapped, reaped>>

\* A call that leaves the queue gives up its place in it.
Without(queue, c) ==
    IF \E i \in DOMAIN queue : queue[i] = c
    THEN LET i == CHOOSE j \in DOMAIN queue : queue[j] = c
         IN  SubSeq(queue, 1, i - 1) \o SubSeq(queue, i + 1, Len(queue))
    ELSE queue

\* Mutant of LeavesLock: whoever leaves releases the lock, as release_simple does.
LeavesLockAnyhow(c) == holder' = NoCall /\ waiters' = Without(waiters, c)

\* The end of acquire_operation: what holds the lock releases it, what waits for it is taken out.
LeavesLock(c) ==
    /\ holder' = IF holder = c THEN NoCall ELSE holder
    /\ waiters' = Without(waiters, c)

\* A result, or an error of _run: windows_ui and office make one attempt.
CallEnds(c) ==
    /\ call[c].pc = "operating" /\ thread[c] = "returned"
    /\ LeavesLock(c) /\ Ends(c)
    /\ thread' = [thread EXCEPT ![c] = "none"]
    /\ UNCHANGED <<watchVars, context, reaped>>

\* Mutant of Victim: the reaper looks for what this call is about, though the context is cleared.
VictimAny(c) == CHOOSE p \in Proc : p # Target[c]

\* Mutant of Victim: the reaper is given the call in place of its target.
VictimMistaken(c) == c

\* What the reaper is asked to look at.
Victim(c) == context

\* wait_for cancels the call where it is, in the queue of the lock or at its thread.
CallTimesOut(c) ==
    /\ call[c].pc \in {"waiting", "operating"}
    /\ LeavesLock(c)
    /\ IF context = NoProc
       THEN Ends(c)
       ELSE /\ call' = [call EXCEPT ![c] = [pc |-> "reaping", victim |-> Victim(c)]]
            /\ UNCHANGED swapped
    /\ thread' = [thread EXCEPT ![c] = IF @ = "running" THEN @ ELSE "none"]
    /\ UNCHANGED <<watchVars, context, reaped>>

\* reap_if_hung, whatever it returns, clears the context.
ReapEnds(c) ==
    /\ call' = [call EXCEPT ![c] = [pc |-> "idle", victim |-> NoProc]]
    /\ context' = NoProc
    /\ swapped' = {d \in Call \ {c} : Underway(d)}

ReaperLooks(c) ==
    /\ call[c].pc = "reaping"
    /\ IF proc[call[c].victim] = "frozen"
       THEN Goes(c, "killing") /\ UNCHANGED <<context, swapped>>
       ELSE ReapEnds(c)
    /\ UNCHANGED <<watchVars, thread, holder, waiters, reaped>>

ReaperKills(c) ==
    LET p == call[c].victim
    IN /\ call[c].pc = "killing"
       /\ proc' = [proc EXCEPT ![p] = "dead"]
       /\ reaped' = IF c \in swapped THEN reaped ELSE reaped \cup {<<c, p>>}
       /\ ReapEnds(c)
       /\ UNCHANGED <<freezes, added, watch, checker, tried, raced, thread, holder, waiters>>

UINext ==
    \E c \in Call : \/ CallBegins(c) \/ LockGranted(c) \/ ThreadReturns(c) \/ CallEnds(c)
                    \/ CallTimesOut(c) \/ ReaperLooks(c) \/ ReaperKills(c)

Next == UINext \/ (WatchNext /\ UNCHANGED uiVars)
Spec == Init /\ [][Next]_vars

----------------------------------------------------------------------------
(* Properties *)

TypeOK ==
    /\ WatchTypeOK
    /\ call \in [Call -> CallRecord]
    /\ thread \in [Call -> {"none", "running", "returned"}]
    /\ holder \in Locking \cup {NoCall}
    /\ waiters \in Seq(Locking)
    /\ context \in Proc \cup {NoProc}
    /\ swapped \subseteq Call /\ reaped \subseteq Call \X Proc

(* ui_lock.py:5 - one operation on the desktop at a time: of two threads that operate at once,    *)
(* one belongs to a call that has timed out and cannot be stopped.  A call that times out while   *)
(* it waits must not let another in.                                                              *)
OneInControl ==
    \A c, d \in Locking :
        (c # d /\ thread[c] = "running" /\ thread[d] = "running")
        => (call[c].pc # "operating" \/ call[d].pc # "operating")

(* hung_process_reaper.py:51 - what is killed is what the call that timed out was working on,     *)
(* unless another call of the same tool has set its own target or cleared it in the meantime.     *)
ReapsOwnTarget == \A kill \in reaped : kill[2] = Target[kill[1]]
=============================================================================
