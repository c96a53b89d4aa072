------------------------------ MODULE Sessions ------------------------------
(***************************************************************************)
(* persistence/session_manager.py and the session operations of the        *)
(* runtime, in one workspace.  Every operation is a few statements on the  *)
(* database, each committed on its own: a row is read, changed in memory   *)
(* and written back column by column while other requests do the same.     *)
(***************************************************************************)
EXTENDS Naturals

CONSTANTS
    Session, Objective,
    Client,    \* requests, each with what it adds: the id of a run or goal, or a key
    Column,    \* columns that are lists or dictionaries: run_ids and others updated alike
    Phases,    \* how many phases a session has
    NoSession

ASSUME SessionsAssumption ==
    Phases \in Nat /\ NoSession \notin Session /\ Objective # {} /\ "run_ids" \in Column

VARIABLES
    session, \* the rows of agent_sessions
    client,  \* a request under way: its session, what it adds where, the row as it was read
    saved,   \* what requests have added and been told so (a history)
    raced,   \* columns that two requests have read before either wrote (a history)
    twin     \* sessions created explicitly or while another request was creating one (a history)

vars == <<session, client, saved, raced, twin>>

Status == {"none", "active", "completed", "expired"}

Row == [status : Status, lapsed : BOOLEAN, objective : Objective, current_phase : 0 .. Phases,
        columns : [Column -> SUBSET Client]]
NoRow == [status |-> "none", lapsed |-> FALSE, objective |-> CHOOSE o \in Objective : TRUE,
          current_phase |-> 0, columns |-> [f \in Column |-> {}]]

ClientRecord ==
    [pc : {"new", "create", "read", "write", "phase", "done"}, session : Session \cup {NoSession},
     objective : Objective, column : Column, row : Row]
New == [pc |-> "new", session |-> NoSession, objective |-> NoRow.objective,
        column |-> "run_ids", row |-> NoRow]
Done == [New EXCEPT !.pc = "done"]

Init ==
    /\ session = [s \in Session |-> NoRow]
    /\ client = [c \in Client |-> New]
    /\ saved = {} /\ raced = {} /\ twin = {}

Goes(c, record) == client' = [client EXCEPT ![c] = record]
Known(s) == session[s].status # "none"

----------------------------------------------------------------------------
(* Creating and finding *)

Unused(s) == ~Known(s)
Created(s, o) == [session EXCEPT ![s] = [NoRow EXCEPT !.status = "active", !.objective = o]]

\* POST /sessions makes one whatever there is.
CreateSession(s, o) ==
    /\ Unused(s)
    /\ session' = Created(s, o) /\ twin' = twin \cup {s}
    /\ UNCHANGED <<client, saved, raced>>

Findable(s) == session[s].status = "active" /\ ~session[s].lapsed

\* Mutant of Found: another objective needs another session.
FoundSame(o) == {s \in Session : Findable(s) /\ session[s].objective = o}

\* find_active_session: one of the same objective before any other of the workspace.
Found(o) ==
    LET active == {s \in Session : Findable(s)}
        same == {s \in active : session[s].objective = o}
    IN IF same # {} THEN same ELSE active

\* submit_run_with_session
SubmitFinds(c, o) ==
    LET request == [New EXCEPT !.objective = o]
    IN /\ client[c].pc = "new"
       /\ IF Found(o) = {}
          THEN Goes(c, [request EXCEPT !.pc = "create"])
          ELSE \E s \in Found(o) : Goes(c, [request EXCEPT !.pc = "read", !.session = s])
       /\ UNCHANGED <<session, saved, raced, twin>>

SubmitCreates(c) ==
    \E s \in Session :
       /\ client[c].pc = "create" /\ Unused(s)
       /\ session' = Created(s, client[c].objective)
       /\ twin' = IF \E d \in Client \ {c} : client[d].pc = "create" THEN twin \cup {s} ELSE twin
       /\ Goes(c, [client[c] EXCEPT !.pc = "read", !.session = s])
       /\ UNCHANGED <<saved, raced>>

----------------------------------------------------------------------------
(* Reading and writing *)

\* enqueue_goal with a session, session_checkpoint and merge_context.
AddBegins(c, s, f) ==
    /\ client[c].pc = "new" /\ f # "run_ids"
    /\ Goes(c, [New EXCEPT !.pc = "read", !.session = s, !.column = f])
    /\ UNCHANGED <<session, saved, raced, twin>>

Writes(c, s, f) == client[c].pc = "write" /\ client[c].session = s /\ client[c].column = f

AddReads(c) ==
    LET s == client[c].session
        f == client[c].column
    IN /\ client[c].pc = "read"
       /\ IF Known(s) THEN Goes(c, [client[c] EXCEPT !.pc = "write", !.row = session[s]])
                      ELSE Goes(c, Done)
       /\ raced' = IF \E d \in Client \ {c} : Writes(d, s, f) THEN raced \cup {<<s, f>>} ELSE raced
       /\ UNCHANGED <<session, saved, twin>>

\* Mutant of Updated: the whole row is written back.
UpdatedWhole(s, row, columns, f) == [session EXCEPT ![s] = [row EXCEPT !.columns = columns]]

\* update_session writes the columns it is given.
Updated(s, row, columns, f) == [session EXCEPT ![s].columns[f] = columns[f]]

\* Mutant of With: the list starts anew.
WithOnly(columns, f, i) == [columns EXCEPT ![f] = {i}]

With(columns, f, i) == [columns EXCEPT ![f] = @ \cup {i}]

AddWrites(c) ==
    LET s == client[c].session
        f == client[c].column
        row == client[c].row
    IN /\ client[c].pc = "write"
       /\ session' = Updated(s, row, With(row.columns, f, c), f)
       /\ saved' = saved \cup {<<s, f, c>>}
       /\ Goes(c, Done)
       /\ UNCHANGED <<raced, twin>>

\* Mutant of MayAdvance: the end is not looked at.
MayAdvanceOn(s) == Known(s)

MayAdvance(s) == Known(s) /\ session[s].current_phase < Phases

PhaseReads(c, s) ==
    /\ client[c].pc = "new" /\ MayAdvance(s)
    /\ Goes(c, [New EXCEPT !.pc = "phase", !.session = s, !.row = session[s]])
    /\ UNCHANGED <<session, saved, raced, twin>>

\* advance_phase: with the last phase the session is completed.
PhaseWrites(c) ==
    LET s == client[c].session
        next == client[c].row.current_phase + 1
    IN /\ client[c].pc = "phase"
       /\ session' = [session EXCEPT ![s].current_phase = next,
                                     ![s].status = IF next >= Phases THEN "completed" ELSE @]
       /\ Goes(c, Done)
       /\ UNCHANGED <<saved, raced, twin>>

\* A request that is dropped, or a crash, leaves what was committed.
Dropped(c) ==
    /\ client[c].pc # "done" /\ Goes(c, Done)
    /\ UNCHANGED <<session, saved, raced, twin>>

----------------------------------------------------------------------------
(* Ending *)

CloseSession(s) ==
    /\ Known(s)
    /\ session' = [session EXCEPT ![s].status = "completed"]
    /\ UNCHANGED <<client, saved, raced, twin>>

\* expire_stale, in every tick of the daemon: 168 hours without an update.
ExpireStale(s) ==
    /\ session[s].status = "active"
    /\ session' = [session EXCEPT ![s].status = "expired"]
    /\ UNCHANGED <<client, saved, raced, twin>>

\* expires_at has passed: it is not moved by activity, and only find_active_session looks at it.
Lapses(s) ==
    /\ Findable(s)
    /\ session' = [session EXCEPT ![s].lapsed = TRUE]
    /\ UNCHANGED <<client, saved, raced, twin>>

Next ==
    \/ \E s \in Session : \/ \E o \in Objective : CreateSession(s, o)
                          \/ CloseSession(s) \/ ExpireStale(s) \/ Lapses(s)
    \/ \E c \in Client : \/ \E o \in Objective : SubmitFinds(c, o)
                         \/ \E s \in Session, f \in Column : AddBegins(c, s, f)
                         \/ SubmitCreates(c) \/ AddReads(c) \/ AddWrites(c)
                         \/ \E s \in Session : PhaseReads(c, s)
                         \/ PhaseWrites(c) \/ Dropped(c)

Spec == Init /\ [][Next]_vars

----------------------------------------------------------------------------
(* Properties *)

TypeOK ==
    /\ session \in [Session -> Row]
    /\ client \in [Client -> ClientRecord]
    /\ saved \subseteq Session \X Column \X Client
    /\ raced \subseteq Session \X Column /\ twin \subseteq Session

(* session_manager.py:9 - what a request has added to a session stays there, unless two requests  *)
(* changed the same column of it at once: the later write drops what the other has added.        *)
NothingLost ==
    \A entry \in saved :
        <<entry[1], entry[2]>> \notin raced => entry[3] \in session[entry[1]].columns[entry[2]]

(* session_manager.py:7 - runs submitted in a workspace share its session: there are two that can *)
(* be found only if a client asked for one explicitly or two requests were creating one at once.  *)
OneSession ==
    \A s, t \in Session : (s # t /\ Findable(s) /\ Findable(t)) => (s \in twin \/ t \in twin)

(* A session that was closed, completed or has expired is never active again: a request that read *)
(* it before does not bring the old status back.                                                  *)
EndedStaysEnded ==
    [][\A s \in Session : session[s].status \in {"completed", "expired"}
                          => session'[s].status \in {"completed", "expired"}]_vars
=============================================================================
