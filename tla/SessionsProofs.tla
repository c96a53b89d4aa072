--------------------------- MODULE SessionsProofs ---------------------------
(***************************************************************************)
(* Theorems about Sessions, for any sets of sessions, requests, columns    *)
(* and objectives and any number of phases.                                *)
(***************************************************************************)
EXTENDS Sessions, TLAPS

\* A request that works on a session has one, and one that advances it has a phase left.
Ready(request) ==
    /\ request.pc \in {"read", "write", "phase"} => request.session \in Session
    /\ request.pc = "phase" => request.row.current_phase < Phases

HasSession == \A c \in Client : Ready(client[c])

TypeInv == TypeOK /\ HasSession

LEMMA NoRowType == NoRow \in Row
BY SessionsAssumption DEF NoRow, Row, Status

LEMMA NewType == New \in ClientRecord /\ Done \in ClientRecord
BY NoRowType, SessionsAssumption DEF New, Done, ClientRecord, NoRow

LEMMA TypeInit == Init => TypeInv
BY NoRowType, NewType DEF Init, TypeInv, TypeOK, HasSession, Ready, New

LEMMA CreatedType ==
    ASSUME NEW s \in Session, NEW o \in Objective, session \in [Session -> Row]
    PROVE  Created(s, o) \in [Session -> Row]
BY NoRowType DEF Created, Row, Status

LEMMA SessionStepType ==
    ASSUME TypeInv, NEW s \in Session,
           (\E o \in Objective : CreateSession(s, o)) \/ CloseSession(s) \/ ExpireStale(s) \/ Lapses(s)
    PROVE  TypeInv'
<1>1. CASE \E o \in Objective : CreateSession(s, o)
  BY <1>1, CreatedType DEF TypeInv, TypeOK, HasSession, CreateSession
<1>2. CASE CloseSession(s)
  BY <1>2 DEF TypeInv, TypeOK, HasSession, CloseSession, Row, Status
<1>3. CASE ExpireStale(s)
  BY <1>3 DEF TypeInv, TypeOK, HasSession, ExpireStale, Row, Status
<1>4. CASE Lapses(s)
  BY <1>4 DEF TypeInv, TypeOK, HasSession, Lapses, Findable, Row, Status
<1> QED
  BY <1>1, <1>2, <1>3, <1>4

LEMMA WithType ==
    ASSUME NEW columns \in [Column -> SUBSET Client], NEW f \in Column, NEW c \in Client
    PROVE  With(columns, f, c) \in [Column -> SUBSET Client]
BY DEF With

LEMMA GoesType ==
    ASSUME TypeInv, NEW c \in Client, NEW record \in ClientRecord, Goes(c, record),
           Ready(record)
    PROVE  client' \in [Client -> ClientRecord] /\ HasSession'
BY DEF TypeInv, TypeOK, HasSession, Goes

LEMMA EndsType ==
    ASSUME TypeInv, NEW c \in Client, Goes(c, Done)
    PROVE  client' \in [Client -> ClientRecord] /\ HasSession'
<1>1. Done \in ClientRecord /\ Ready(Done)
  BY NewType DEF Done, New, ClientRecord, Ready
<1> QED
  BY <1>1, GoesType

LEMMA FindType ==
    ASSUME TypeInv, NEW c \in Client, NEW o \in Objective, SubmitFinds(c, o)
    PROVE  TypeInv'
<1> DEFINE request == [New EXCEPT !.objective = o]
<1>1. request \in ClientRecord
  BY NewType DEF ClientRecord
<1>2. CASE Found(o) = {}
  <2>1. [request EXCEPT !.pc = "create"] \in ClientRecord
    BY <1>1 DEF ClientRecord
  <2>2. Ready([request EXCEPT !.pc = "create"])
    BY <1>1 DEF ClientRecord, Ready
  <2>3. Goes(c, [request EXCEPT !.pc = "create"])
    BY <1>2 DEF SubmitFinds
  <2>4. client' \in [Client -> ClientRecord] /\ HasSession'
    BY <2>1, <2>2, <2>3, GoesType
  <2> QED
    BY <2>4 DEF SubmitFinds, TypeInv, TypeOK
<1>3. CASE Found(o) # {}
  <2>1. PICK s \in Found(o) : Goes(c, [request EXCEPT !.pc = "read", !.session = s])
    BY <1>3 DEF SubmitFinds
  <2>2. s \in Session
    BY DEF Found
  <2>3. [request EXCEPT !.pc = "read", !.session = s] \in ClientRecord
    BY <1>1, <2>2 DEF ClientRecord
  <2>4. Ready([request EXCEPT !.pc = "read", !.session = s])
    BY <1>1, <2>2 DEF ClientRecord, Ready
  <2>5. client' \in [Client -> ClientRecord] /\ HasSession'
    BY <2>1, <2>3, <2>4, GoesType
  <2> QED
    BY <2>5 DEF SubmitFinds, TypeInv, TypeOK
<1> QED
  BY <1>2, <1>3

LEMMA CreateType ==
    ASSUME TypeInv, NEW c \in Client, SubmitCreates(c)
    PROVE  TypeInv'
<1>1. PICK s \in Session :
         /\ session' = Created(s, client[c].objective)
         /\ twin' = IF \E d \in Client \ {c} : client[d].pc = "create" THEN twin \cup {s} ELSE twin
         /\ Goes(c, [client[c] EXCEPT !.pc = "read", !.session = s])
         /\ UNCHANGED <<saved, raced>>
  BY DEF SubmitCreates
<1>2. client[c] \in ClientRecord
  BY DEF TypeInv, TypeOK
<1>3. /\ [client[c] EXCEPT !.pc = "read", !.session = s] \in ClientRecord
      /\ Ready([client[c] EXCEPT !.pc = "read", !.session = s])
      /\ client[c].objective \in Objective
  BY <1>2 DEF ClientRecord, Ready
<1>4. client' \in [Client -> ClientRecord] /\ HasSession'
  BY <1>1, <1>3, GoesType
<1>5. session' \in [Session -> Row]
  BY <1>1, <1>3, CreatedType DEF TypeInv, TypeOK
<1> QED
  BY <1>1, <1>4, <1>5 DEF TypeInv, TypeOK

LEMMA ReadType ==
    ASSUME TypeInv, NEW c \in Client, AddReads(c)
    PROVE  TypeInv'
<1>1. client[c] \in ClientRecord /\ client[c].session \in Session
  BY DEF TypeInv, TypeOK, HasSession, Ready, AddReads
<1>2. session[client[c].session] \in Row /\ client[c].column \in Column
  BY <1>1 DEF TypeInv, TypeOK, ClientRecord
<1> DEFINE read == [client[c] EXCEPT !.pc = "write", !.row = session[client[c].session]]
<1>3. read \in ClientRecord /\ Ready(read)
  BY <1>1, <1>2 DEF ClientRecord, Ready
<1>4. client' \in [Client -> ClientRecord] /\ HasSession'
  BY <1>3, GoesType, EndsType DEF AddReads
<1> QED
  BY <1>1, <1>2, <1>4 DEF AddReads, TypeInv, TypeOK

LEMMA WriteType ==
    ASSUME TypeInv, NEW c \in Client, AddWrites(c)
    PROVE  TypeInv'
<1> DEFINE s == client[c].session
           f == client[c].column
           columns == With(client[c].row.columns, f, c)
<1>1. s \in Session /\ f \in Column /\ client[c].row.columns \in [Column -> SUBSET Client]
  BY DEF TypeInv, TypeOK, HasSession, Ready, AddWrites, ClientRecord, Row
<1>2. columns \in [Column -> SUBSET Client]
  BY <1>1, WithType
<1>3. session' = [session EXCEPT ![s].columns[f] = columns[f]]
  BY DEF AddWrites, Updated
<1>4. session[s] \in Row
  BY <1>1 DEF TypeInv, TypeOK
<1>5. [session[s] EXCEPT !.columns[f] = columns[f]] \in Row
  BY <1>1, <1>2, <1>4 DEF Row
<1>6. session' \in [Session -> Row]
  BY <1>1, <1>3, <1>5 DEF TypeInv, TypeOK
<1>7. client' \in [Client -> ClientRecord] /\ HasSession'
  BY EndsType DEF AddWrites
<1> QED
  BY <1>1, <1>6, <1>7 DEF AddWrites, TypeInv, TypeOK

LEMMA PhaseType ==
    ASSUME TypeInv, NEW c \in Client, PhaseWrites(c)
    PROVE  TypeInv'
<1> DEFINE s == client[c].session
           next == client[c].row.current_phase + 1
<1>1. client[c] \in ClientRecord /\ s \in Session /\ client[c].row.current_phase < Phases
  BY DEF TypeInv, TypeOK, HasSession, Ready, PhaseWrites
<1>2. next \in 0 .. Phases
  BY <1>1, SessionsAssumption DEF ClientRecord, Row
<1>3. [session[s] EXCEPT !.current_phase = next, !.status = IF next >= Phases THEN "completed" ELSE @] \in Row
  BY <1>1, <1>2 DEF TypeInv, TypeOK, Row, Status
<1>4. session' \in [Session -> Row]
  BY <1>1, <1>3 DEF PhaseWrites, TypeInv, TypeOK
<1>5. client' \in [Client -> ClientRecord] /\ HasSession'
  BY EndsType DEF PhaseWrites
<1> QED
  BY <1>4, <1>5 DEF PhaseWrites, TypeInv, TypeOK

LEMMA ClientStepType ==
    ASSUME TypeInv, NEW c \in Client,
           \/ \E o \in Objective : SubmitFinds(c, o)
           \/ \E s \in Session, f \in Column : AddBegins(c, s, f)
           \/ SubmitCreates(c) \/ AddReads(c) \/ AddWrites(c)
           \/ \E s \in Session : PhaseReads(c, s)
           \/ PhaseWrites(c) \/ Dropped(c)
    PROVE  TypeInv'
<1>1. CASE \E s \in Session, f \in Column : AddBegins(c, s, f)
  <2>1. PICK s \in Session, f \in Column : AddBegins(c, s, f)
    BY <1>1
  <2> DEFINE begun == [New EXCEPT !.pc = "read", !.session = s, !.column = f]
  <2>2. begun \in ClientRecord /\ Ready(begun)
    BY NewType DEF ClientRecord, Ready
  <2>3. client' \in [Client -> ClientRecord] /\ HasSession'
    BY <2>1, <2>2, GoesType DEF AddBegins
  <2> QED
    BY <2>1, <2>3 DEF AddBegins, TypeInv, TypeOK
<1>2. CASE \E s \in Session : PhaseReads(c, s)
  <2>1. PICK s \in Session : PhaseReads(c, s)
    BY <1>2
  <2> DEFINE begun == [New EXCEPT !.pc = "phase", !.session = s, !.row = session[s]]
  <2>2. session[s] \in Row
    BY DEF TypeInv, TypeOK
  <2>3. begun \in ClientRecord /\ Ready(begun)
    BY <2>1, <2>2, NewType DEF PhaseReads, MayAdvance, ClientRecord, Ready
  <2>4. client' \in [Client -> ClientRecord] /\ HasSession'
    BY <2>1, <2>3, GoesType DEF PhaseReads
  <2> QED
    BY <2>1, <2>4 DEF PhaseReads, TypeInv, TypeOK
<1>3. CASE Dropped(c)
  BY <1>3, EndsType DEF Dropped, TypeInv, TypeOK
<1> QED
  BY <1>1, <1>2, <1>3, FindType, CreateType, ReadType, WriteType, PhaseType
LEMMA TypeStep == TypeInv /\ [Next]_vars => TypeInv'
<1> SUFFICES ASSUME TypeInv, [Next]_vars PROVE TypeInv'
  OBVIOUS
<1>1. CASE UNCHANGED vars
  BY <1>1 DEF TypeInv, TypeOK, HasSession, Ready, vars
<1> QED
  BY <1>1, SessionStepType, ClientStepType DEF Next

\* A row, a request under way and the histories keep the shape the code gives them, whatever
\* create_session, submit_run_with_session, the read-modify-writes and expiry do to each other.
THEOREM TypeCorrect == Spec => []TypeOK
<1>1. TypeInv => TypeOK
  BY DEF TypeInv
<1> QED
  BY TypeInit, TypeStep, <1>1, PTL DEF Spec

----------------------------------------------------------------------------
(* NothingLost: what a request is about to write holds all that the column holds, unless another  *)
(* request has read the column too.                                                              *)

ReadCurrent ==
    \A c \in Client, s \in Session, f \in Column :
        Writes(c, s, f) => Known(s) /\ (<<s, f>> \notin raced => client[c].row.columns[f] = session[s].columns[f])
OneWriter ==
    \A c, d \in Client, s \in Session, f \in Column :
        (c # d /\ Writes(c, s, f) /\ Writes(d, s, f)) => <<s, f>> \in raced
SavedKnown == \A entry \in saved : Known(entry[1])

LossInv == TypeInv /\ ReadCurrent /\ OneWriter /\ SavedKnown /\ NothingLost

LEMMA LossInit == Init => LossInv
BY TypeInit DEF Init, LossInv, ReadCurrent, OneWriter, SavedKnown, NothingLost, Writes, New

\* A step that starts no write, adds nothing and changes no column of a session that is known.
LEMMA LossFrame ==
    ASSUME LossInv, TypeInv', UNCHANGED <<saved, raced>>,
           \A c \in Client : client'[c].pc = "write" => client'[c] = client[c],
           \A s \in Session : Known(s) => Known(s)' /\ session'[s].columns = session[s].columns
    PROVE  LossInv'
<1>1. \A c \in Client, s \in Session, f \in Column :
        Writes(c, s, f)' => Writes(c, s, f) /\ client'[c] = client[c]
  BY DEF Writes
<1>2. ReadCurrent'
  BY <1>1 DEF LossInv, ReadCurrent
<1>3. OneWriter'
  BY <1>1 DEF LossInv, OneWriter
<1>4. \A entry \in saved : entry[1] \in Session
  BY DEF LossInv, TypeInv, TypeOK
<1>5. SavedKnown' /\ NothingLost'
  BY <1>4 DEF LossInv, SavedKnown, NothingLost
<1> QED
  BY <1>2, <1>3, <1>5 DEF LossInv

\* What the steps other than the reads and the writes of columns do to the sessions.
LEMMA RowsKept ==
    ASSUME TypeInv, NEW s \in Session, Known(s),
           \/ \E t \in Session : \/ \E o \in Objective : CreateSession(t, o)
                                \/ CloseSession(t) \/ ExpireStale(t) \/ Lapses(t)
           \/ \E c \in Client : SubmitCreates(c) \/ PhaseWrites(c)
    PROVE  Known(s)' /\ session'[s].columns = session[s].columns
<1> USE DEF TypeInv, TypeOK, Known, Unused
<1>1. session[s] \in Row
  OBVIOUS
<1>2. CASE \E t \in Session, o \in Objective : CreateSession(t, o)
  BY <1>2 DEF CreateSession, Created
<1>3. CASE \E t \in Session : CloseSession(t) \/ ExpireStale(t) \/ Lapses(t)
  BY <1>1, <1>3 DEF CloseSession, ExpireStale, Lapses, Findable, Row
<1>4. CASE \E c \in Client : SubmitCreates(c)
  BY <1>4 DEF SubmitCreates, Created
<1>5. ASSUME NEW c \in Client, PhaseWrites(c)
      PROVE  Known(s)' /\ session'[s].columns = session[s].columns
  <2> DEFINE t == client[c].session
             next == client[c].row.current_phase + 1
             status == IF next >= Phases THEN "completed" ELSE session[t].status
  <2>1. session' = [session EXCEPT ![t].current_phase = next, ![t].status = status]
    BY <1>5 DEF PhaseWrites
  <2>2. t = s => status # "none"
    OBVIOUS
  <2> HIDE DEF status, next
  <2>3. /\ session'[s].columns = session[s].columns
        /\ session'[s].status = session[s].status \/ (t = s /\ session'[s].status = status)
    BY <1>1, <2>1 DEF Row
  <2> QED
    BY <2>2, <2>3
<1> QED
  BY <1>2, <1>3, <1>4, <1>5

LEMMA LossRead ==
    ASSUME LossInv, TypeInv', NEW c \in Client, AddReads(c)
    PROVE  LossInv'
<1> DEFINE s == client[c].session
           f == client[c].column
<1>1. s \in Session /\ f \in Column /\ client[c] \in ClientRecord
  BY DEF AddReads, LossInv, TypeInv, TypeOK, HasSession, Ready, ClientRecord
<1>2. /\ UNCHANGED <<session, saved>>
      /\ \A d \in Client \ {c} : client'[d] = client[d]
      /\ raced \subseteq raced'
  BY DEF AddReads, Goes, LossInv, TypeInv, TypeOK
<1>3. SavedKnown' /\ NothingLost'
  BY <1>2 DEF LossInv, SavedKnown, NothingLost, Known
<1>4. CASE ~Known(s)
  <2>1. client'[c].pc = "done"
    BY <1>4 DEF AddReads, Goes, LossInv, TypeInv, TypeOK, Done, New
  <2>2. ReadCurrent' /\ OneWriter'
    BY <1>2, <2>1 DEF LossInv, ReadCurrent, OneWriter, Writes, Known
  <2> QED
    BY <1>3, <2>2 DEF LossInv
<1>5. CASE Known(s)
  <2>1. client'[c] = [client[c] EXCEPT !.pc = "write", !.row = session[s]]
    BY <1>5 DEF AddReads, Goes, LossInv, TypeInv, TypeOK
  <2>2. client'[c].session = s /\ client'[c].column = f /\ client'[c].row = session[s]
    BY <1>1, <2>1 DEF ClientRecord
  <2>3. \A d \in Client \ {c} : Writes(d, s, f) => <<s, f>> \in raced'
    BY DEF AddReads
  <2>4. ReadCurrent'
    BY <1>1, <1>2, <1>5, <2>2 DEF LossInv, ReadCurrent, Writes, Known
  <2>5. OneWriter'
    BY <1>1, <1>2, <2>2, <2>3 DEF LossInv, OneWriter, Writes
  <2> QED
    BY <1>3, <2>4, <2>5 DEF LossInv
<1> QED
  BY <1>4, <1>5

LEMMA LossWrite ==
    ASSUME LossInv, TypeInv', NEW c \in Client, AddWrites(c)
    PROVE  LossInv'
<1> DEFINE s == client[c].session
           f == client[c].column
           old == client[c].row.columns
<1>1. s \in Session /\ f \in Column /\ old \in [Column -> SUBSET Client] /\ session[s] \in Row
  BY DEF AddWrites, LossInv, TypeInv, TypeOK, HasSession, Ready, ClientRecord, Row
<1>2. /\ session' = [session EXCEPT ![s].columns[f] = old[f] \cup {c}]
      /\ saved' = saved \cup {<<s, f, c>>}
      /\ UNCHANGED raced
  BY <1>1 DEF AddWrites, Updated, With
<1>3. /\ \A d \in Client \ {c} : client'[d] = client[d]
      /\ client'[c].pc = "done"
  BY DEF AddWrites, Goes, Done, New, LossInv, TypeInv, TypeOK
<1>4. Writes(c, s, f)
  BY DEF AddWrites, Writes
<1>5. /\ \A t \in Session : session'[t].status = session[t].status
      /\ session'[s].columns[f] = old[f] \cup {c}
      /\ \A t \in Session, g \in Column :
            (t # s \/ g # f) => session'[t].columns[g] = session[t].columns[g]
  BY <1>1, <1>2 DEF LossInv, TypeInv, TypeOK, Row
<1>6. \A t \in Session : Known(t)' <=> Known(t)
  BY <1>5 DEF Known
<1>7. Known(s) /\ (<<s, f>> \notin raced => old[f] = session[s].columns[f])
  BY <1>1, <1>4 DEF LossInv, ReadCurrent
<1>8. \A d \in Client \ {c} : Writes(d, s, f) => <<s, f>> \in raced
  BY <1>1, <1>4 DEF LossInv, OneWriter
<1>9. \A d \in Client, t \in Session, g \in Column : Writes(d, t, g)' => d # c /\ Writes(d, t, g)
  BY <1>3 DEF Writes
<1>10. ReadCurrent'
  BY <1>2, <1>3, <1>5, <1>6, <1>8, <1>9 DEF LossInv, ReadCurrent
<1>11. OneWriter'
  BY <1>2, <1>9 DEF LossInv, OneWriter
<1>12. saved \subseteq Session \X Column \X Client
  BY DEF LossInv, TypeInv, TypeOK
<1>13. SavedKnown'
  BY <1>1, <1>2, <1>6, <1>7, <1>12 DEF LossInv, SavedKnown
<1>14. NothingLost'
  <2> SUFFICES ASSUME NEW t \in Session, NEW g \in Column, NEW d \in Client,
                      <<t, g, d>> \in saved', <<t, g>> \notin raced
               PROVE  d \in session'[t].columns[g]
    BY <1>1, <1>2, <1>12 DEF NothingLost
  <2>1. CASE <<t, g, d>> = <<s, f, c>>
    BY <1>5, <2>1
  <2>2. CASE <<t, g, d>> # <<s, f, c>>
    <3>1. d \in session[t].columns[g]
      BY <1>2, <2>2 DEF LossInv, NothingLost
    <3>2. CASE t = s /\ g = f
      BY <1>5, <1>7, <3>1, <3>2
    <3>3. CASE t # s \/ g # f
      BY <1>1, <1>5, <3>1, <3>3
    <3> QED
      BY <3>2, <3>3
  <2> QED
    BY <2>1, <2>2
<1> QED
  BY <1>10, <1>11, <1>13, <1>14 DEF LossInv

LEMMA LossStep == LossInv /\ [Next]_vars => LossInv'
<1> SUFFICES ASSUME LossInv, [Next]_vars PROVE LossInv'
  OBVIOUS
<1>1. TypeInv /\ TypeInv'
  BY TypeStep DEF LossInv
<1>2. CASE UNCHANGED vars
  BY <1>1, <1>2, LossFrame DEF vars, Known
<1>3. CASE \E s \in Session : \/ \E o \in Objective : CreateSession(s, o)
                             \/ CloseSession(s) \/ ExpireStale(s) \/ Lapses(s)
  <2>1. UNCHANGED <<client, saved, raced>>
    BY <1>3 DEF CreateSession, CloseSession, ExpireStale, Lapses
  <2> QED
    BY <1>1, <1>3, <2>1, RowsKept, LossFrame
<1>4. CASE \E c \in Client : SubmitCreates(c) \/ PhaseWrites(c)
  <2>1. PICK c \in Client : SubmitCreates(c) \/ PhaseWrites(c)
    BY <1>4
  <2>2. client \in [Client -> ClientRecord] /\ client[c] \in ClientRecord
    BY <1>1 DEF TypeInv, TypeOK
  <2>3. PICK record : Goes(c, record) /\ record.pc # "write"
    <3>1. CASE SubmitCreates(c)
      <4>1. PICK s \in Session : Goes(c, [client[c] EXCEPT !.pc = "read", !.session = s])
        BY <3>1 DEF SubmitCreates
      <4>2. [client[c] EXCEPT !.pc = "read", !.session = s].pc = "read"
        BY <2>2 DEF ClientRecord
      <4> QED
        BY <4>1, <4>2
    <3>2. CASE PhaseWrites(c)
      BY <3>2 DEF PhaseWrites, Done, New
    <3> QED
      BY <2>1, <3>1, <3>2
  <2>4. client'[c].pc # "write" /\ \A d \in Client \ {c} : client'[d] = client[d]
    BY <2>2, <2>3 DEF Goes
  <2>5. UNCHANGED <<saved, raced>>
    BY <2>1 DEF SubmitCreates, PhaseWrites
  <2> QED
    BY <1>1, <1>4, <2>4, <2>5, RowsKept, LossFrame
<1>5. ASSUME NEW c \in Client,
             \/ \E o \in Objective : SubmitFinds(c, o)
             \/ \E s \in Session, f \in Column : AddBegins(c, s, f)
             \/ \E s \in Session : PhaseReads(c, s)
             \/ Dropped(c)
      PROVE  LossInv'
  <2>1. UNCHANGED <<session, saved, raced>>
    BY <1>5 DEF SubmitFinds, AddBegins, PhaseReads, Dropped
  <2>2. PICK record : Goes(c, record) /\ record.pc # "write"
    <3> DEFINE Other(record) == Goes(c, record) /\ record.pc # "write"
    <3>1. CASE \E o \in Objective : SubmitFinds(c, o)
      <4>1. PICK o \in Objective : SubmitFinds(c, o)
        BY <3>1
      <4>2. CASE Found(o) = {}
        <5>1. Other([[New EXCEPT !.objective = o] EXCEPT !.pc = "create"])
          BY <4>1, <4>2 DEF SubmitFinds, New
        <5> QED
          BY <5>1, Zenon
      <4>3. CASE Found(o) # {}
        <5>1. PICK s \in Found(o) :
                Goes(c, [[New EXCEPT !.objective = o] EXCEPT !.pc = "read", !.session = s])
          BY <4>1, <4>3 DEF SubmitFinds
        <5>2. Other([[New EXCEPT !.objective = o] EXCEPT !.pc = "read", !.session = s])
          BY <5>1 DEF New
        <5> QED
          BY <5>2, Zenon
      <4> QED
        BY <4>2, <4>3
    <3>2. CASE \E s \in Session, f \in Column : AddBegins(c, s, f)
      <4>1. PICK s \in Session, f \in Column : AddBegins(c, s, f)
        BY <3>2
      <4>2. Other([New EXCEPT !.pc = "read", !.session = s, !.column = f])
        BY <4>1 DEF AddBegins, New
      <4> QED
        BY <4>2, Zenon
    <3>3. CASE \E s \in Session : PhaseReads(c, s)
      <4>1. PICK s \in Session : PhaseReads(c, s)
        BY <3>3
      <4>2. Other([New EXCEPT !.pc = "phase", !.session = s, !.row = session[s]])
        BY <4>1 DEF PhaseReads, New
      <4> QED
        BY <4>2, Zenon
    <3>4. CASE Dropped(c)
      BY <3>4 DEF Dropped, Done, New
    <3> QED
      BY <1>5, <3>1, <3>2, <3>3, <3>4
  <2>3. client \in [Client -> ClientRecord]
    BY <1>1 DEF TypeInv, TypeOK
  <2>4. \A d \in Client : client'[d].pc = "write" => client'[d] = client[d]
    BY <2>2, <2>3 DEF Goes
  <2> QED
    BY <1>1, <2>1, <2>4, LossFrame DEF Known
<1>6. CASE \E c \in Client : AddReads(c)
  BY <1>1, <1>6, LossRead
<1>7. CASE \E c \in Client : AddWrites(c)
  BY <1>1, <1>7, LossWrite
<1>8. CASE Next
  <2>1. CASE \E s \in Session : \/ \E o \in Objective : CreateSession(s, o)
                               \/ CloseSession(s) \/ ExpireStale(s) \/ Lapses(s)
    BY <2>1, <1>3
  <2>2. ASSUME NEW c \in Client,
               \/ \E o \in Objective : SubmitFinds(c, o)
               \/ \E s \in Session, f \in Column : AddBegins(c, s, f)
               \/ SubmitCreates(c) \/ AddReads(c) \/ AddWrites(c)
               \/ \E s \in Session : PhaseReads(c, s)
               \/ PhaseWrites(c) \/ Dropped(c)
        PROVE  LossInv'
    <3>1. CASE SubmitCreates(c) \/ PhaseWrites(c)
      BY <3>1, <1>4
    <3>2. CASE \/ \E o \in Objective : SubmitFinds(c, o)
               \/ \E s \in Session, f \in Column : AddBegins(c, s, f)
               \/ \E s \in Session : PhaseReads(c, s)
               \/ Dropped(c)
      BY <3>2, <1>5
    <3> QED
      BY <2>2, <3>1, <3>2, <1>6, <1>7
  <2> QED
    BY <1>8, <2>1, <2>2 DEF Next
<1> QED
  BY <1>2, <1>8

\* session_manager.py:157 - a run id, a goal id or a key that a request was told it has added is
\* never taken away again, but where two requests have read the same column before either wrote.
THEOREM NothingLostCorrect == Spec => []NothingLost
<1>1. LossInv => NothingLost
  BY DEF LossInv
<1> QED
  BY LossInit, LossStep, <1>1, PTL DEF Spec
----------------------------------------------------------------------------
(* OneSession: while a request is creating a session, no other one can be found but twins.        *)

FoundNone == \A c \in Client, s \in Session : (client[c].pc = "create" /\ Findable(s)) => s \in twin
SharedInv == TypeInv /\ FoundNone /\ OneSession

LEMMA SharedInit == Init => SharedInv
BY TypeInit DEF Init, SharedInv, FoundNone, OneSession, Findable, NoRow

\* A step by which no session becomes findable and no request begins to create one.
LEMMA SharedFrame ==
    ASSUME SharedInv, TypeInv', twin \subseteq twin',
           \A s \in Session : Findable(s)' => Findable(s) \/ s \in twin',
           \A c \in Client : client'[c].pc = "create" => client[c].pc = "create"
    PROVE  SharedInv'
BY DEF SharedInv, FoundNone, OneSession

LEMMA CreatedFindable ==
    ASSUME TypeInv, NEW s \in Session, NEW o \in Objective, session' = Created(s, o)
    PROVE  \A t \in Session \ {s} : Findable(t)' => Findable(t)
BY DEF TypeInv, TypeOK, Created, Findable

LEMMA GoesElsewhere ==
    ASSUME TypeInv, NEW c \in Client, NEW record, Goes(c, record)
    PROVE  client'[c] = record /\ \A d \in Client \ {c} : client'[d] = client[d]
BY DEF TypeInv, TypeOK, Goes

LEMMA SharedFinds ==
    ASSUME SharedInv, TypeInv', NEW c \in Client, NEW o \in Objective, SubmitFinds(c, o)
    PROVE  SharedInv'
<1>1. TypeInv /\ UNCHANGED <<session, twin>> /\ \A s \in Session : Findable(s)' <=> Findable(s)
  BY DEF SharedInv, SubmitFinds, Findable
<1>2. CASE Found(o) = {}
  <2>1. \A s \in Session : ~Findable(s)
    BY <1>2 DEF Found
  <2> QED
    BY <1>1, <2>1 DEF SharedInv, FoundNone, OneSession
<1>3. CASE Found(o) # {}
  <2>1. PICK s \in Found(o) :
          Goes(c, [[New EXCEPT !.objective = o] EXCEPT !.pc = "read", !.session = s])
    BY <1>3 DEF SubmitFinds
  <2>2. client'[c] = [[New EXCEPT !.objective = o] EXCEPT !.pc = "read", !.session = s]
        /\ \A d \in Client \ {c} : client'[d] = client[d]
    BY <1>1, <2>1, GoesElsewhere
  <2>3. client'[c].pc = "read"
    BY <2>2 DEF New
  <2> QED
    BY <1>1, <2>2, <2>3, SharedFrame
<1> QED
  BY <1>2, <1>3

LEMMA SharedCreates ==
    ASSUME SharedInv, TypeInv', NEW c \in Client, SubmitCreates(c)
    PROVE  SharedInv'
<1>1. PICK s \in Session :
         /\ client[c].pc = "create" /\ Unused(s)
         /\ session' = Created(s, client[c].objective)
         /\ twin' = IF \E d \in Client \ {c} : client[d].pc = "create" THEN twin \cup {s} ELSE twin
         /\ Goes(c, [client[c] EXCEPT !.pc = "read", !.session = s])
  BY DEF SubmitCreates
<1>2. TypeInv /\ client[c] \in ClientRecord
  BY DEF SharedInv, TypeInv, TypeOK
<1>3. client'[c].pc = "read" /\ \A d \in Client \ {c} : client'[d] = client[d]
  <2>1. client'[c] = [client[c] EXCEPT !.pc = "read", !.session = s]
        /\ \A d \in Client \ {c} : client'[d] = client[d]
    BY <1>1, <1>2, GoesElsewhere
  <2> QED
    BY <1>2, <2>1 DEF ClientRecord
<1>4. \A t \in Session \ {s} : Findable(t)' => Findable(t)
  BY <1>1, <1>2, CreatedFindable DEF ClientRecord
<1>5. \A t \in Session \ {s} : Findable(t)' => t \in twin
  BY <1>1, <1>4 DEF SharedInv, FoundNone
<1>6. FoundNone'
  BY <1>1, <1>3, <1>5 DEF FoundNone
<1>7. OneSession'
  BY <1>1, <1>5 DEF OneSession
<1> QED
  BY <1>6, <1>7 DEF SharedInv

\* What ends a session, and what a request does to one, makes no session findable.
LEMMA FindableStep ==
    ASSUME TypeInv, NEW t \in Session,
           \/ \E s \in Session : CloseSession(s) \/ ExpireStale(s) \/ Lapses(s)
           \/ \E c \in Client : AddWrites(c) \/ PhaseWrites(c)
    PROVE  Findable(t)' => Findable(t)
<1> USE DEF TypeInv, TypeOK, Findable
<1>1. session[t] \in Row
  OBVIOUS
<1>2. CASE \E s \in Session : CloseSession(s)
  BY <1>1, <1>2 DEF CloseSession, Row
<1>3. CASE \E s \in Session : ExpireStale(s)
  BY <1>1, <1>3 DEF ExpireStale, Row
<1>4. CASE \E s \in Session : Lapses(s)
  BY <1>1, <1>4 DEF Lapses, Row
<1>5. ASSUME NEW c \in Client, AddWrites(c)
      PROVE  Findable(t)' => Findable(t)
  <2> DEFINE s == client[c].session
             columns == [session[s].columns EXCEPT ![client[c].column] =
                             With(client[c].row.columns, client[c].column, c)[client[c].column]]
  <2>1. session' = [session EXCEPT ![s].columns = columns]
    BY <1>5 DEF AddWrites, Updated
  <2> HIDE DEF columns
  <2>2. session'[t].status = session[t].status /\ session'[t].lapsed = session[t].lapsed
    BY <1>1, <2>1 DEF Row
  <2> QED
    BY <2>2
<1>6. ASSUME NEW c \in Client, PhaseWrites(c)
      PROVE  Findable(t)' => Findable(t)
  <2> DEFINE s == client[c].session
             next == client[c].row.current_phase + 1
             status == IF next >= Phases THEN "completed" ELSE session[s].status
  <2>1. session' = [session EXCEPT ![s].current_phase = next, ![s].status = status]
    BY <1>6 DEF PhaseWrites
  <2>2. status = "active" => session[s].status = "active"
    OBVIOUS
  <2> HIDE DEF status, next
  <2>3. /\ session'[t].lapsed = session[t].lapsed
        /\ session'[t].status = session[t].status \/ (t = s /\ session'[t].status = status)
    BY <1>1, <2>1 DEF Row
  <2> QED
    BY <2>2, <2>3
<1> QED
  BY <1>2, <1>3, <1>4, <1>5, <1>6

\* A request that goes on is not about to create a session.
LEMMA NotCreating ==
    ASSUME TypeInv, NEW c \in Client,
           \/ AddReads(c) \/ AddWrites(c) \/ PhaseWrites(c) \/ Dropped(c)
           \/ \E s \in Session, f \in Column : AddBegins(c, s, f)
           \/ \E s \in Session : PhaseReads(c, s)
    PROVE  \A d \in Client : client'[d].pc = "create" => client[d].pc = "create"
<1>1. Done.pc = "done" /\ client[c] \in ClientRecord
  BY DEF Done, New, TypeInv, TypeOK
<1>2. CASE AddReads(c)
  <2>1. CASE Known(client[c].session)
    <3>1. client'[c] = [client[c] EXCEPT !.pc = "write", !.row = session[client[c].session]]
          /\ \A d \in Client \ {c} : client'[d] = client[d]
      BY <1>2, <2>1, GoesElsewhere DEF AddReads
    <3>2. client'[c].pc = "write"
      BY <1>1, <3>1 DEF ClientRecord
    <3> QED
      BY <3>1, <3>2
  <2>2. CASE ~Known(client[c].session)
    BY <1>1, <1>2, <2>2, GoesElsewhere DEF AddReads
  <2> QED
    BY <2>1, <2>2
<1>3. CASE AddWrites(c) \/ PhaseWrites(c) \/ Dropped(c)
  BY <1>1, <1>3, GoesElsewhere DEF AddWrites, PhaseWrites, Dropped
<1>4. CASE \E s \in Session, f \in Column : AddBegins(c, s, f)
  <2>1. PICK s \in Session, f \in Column : AddBegins(c, s, f)
    BY <1>4
  <2>2. client'[c] = [New EXCEPT !.pc = "read", !.session = s, !.column = f]
        /\ \A d \in Client \ {c} : client'[d] = client[d]
    BY <2>1, GoesElsewhere DEF AddBegins
  <2>3. client'[c].pc = "read"
    BY <2>2 DEF New
  <2> QED
    BY <2>2, <2>3
<1>5. CASE \E s \in Session : PhaseReads(c, s)
  <2>1. PICK s \in Session : PhaseReads(c, s)
    BY <1>5
  <2>2. client'[c] = [New EXCEPT !.pc = "phase", !.session = s, !.row = session[s]]
        /\ \A d \in Client \ {c} : client'[d] = client[d]
    BY <2>1, GoesElsewhere DEF PhaseReads
  <2>3. client'[c].pc = "phase"
    BY <2>2 DEF New
  <2> QED
    BY <2>2, <2>3
<1> QED
  BY <1>2, <1>3, <1>4, <1>5

LEMMA SharedStep == SharedInv /\ [Next]_vars => SharedInv'
<1> SUFFICES ASSUME SharedInv, [Next]_vars PROVE SharedInv'
  OBVIOUS
<1>1. TypeInv /\ TypeInv'
  BY TypeStep DEF SharedInv
<1>2. CASE UNCHANGED vars
  BY <1>1, <1>2, SharedFrame DEF vars, Findable
<1>3. ASSUME NEW s \in Session,
             (\E o \in Objective : CreateSession(s, o)) \/ CloseSession(s) \/ ExpireStale(s) \/ Lapses(s)
      PROVE  SharedInv'
  <2>1. UNCHANGED client /\ twin \subseteq twin'
    BY <1>3 DEF CreateSession, CloseSession, ExpireStale, Lapses
  <2>2. CASE \E o \in Objective : CreateSession(s, o)
    <3>1. \A t \in Session \ {s} : Findable(t)' => Findable(t)
      BY <1>1, <2>2, CreatedFindable DEF CreateSession
    <3>2. s \in twin'
      BY <2>2 DEF CreateSession
    <3> QED
      BY <1>1, <2>1, <3>1, <3>2, SharedFrame
  <2>3. CASE CloseSession(s) \/ ExpireStale(s) \/ Lapses(s)
    BY <1>1, <2>1, <2>3, FindableStep, SharedFrame
  <2> QED
    BY <1>3, <2>2, <2>3
<1>4. ASSUME NEW c \in Client,
             \/ AddReads(c) \/ AddWrites(c) \/ PhaseWrites(c) \/ Dropped(c)
             \/ \E s \in Session, f \in Column : AddBegins(c, s, f)
             \/ \E s \in Session : PhaseReads(c, s)
      PROVE  SharedInv'
  <2>1. UNCHANGED twin
    BY <1>4 DEF AddReads, AddWrites, PhaseWrites, Dropped, AddBegins, PhaseReads
  <2>2. \A t \in Session : Findable(t)' => Findable(t)
    <3>1. CASE AddWrites(c) \/ PhaseWrites(c)
      BY <1>1, <3>1, FindableStep
    <3>2. CASE ~(AddWrites(c) \/ PhaseWrites(c))
      BY <1>4, <3>2 DEF AddReads, Dropped, AddBegins, PhaseReads, Findable
    <3> QED
      BY <3>1, <3>2
  <2> QED
    BY <1>1, <1>4, <2>1, <2>2, NotCreating, SharedFrame
<1>5. CASE Next
  BY <1>1, <1>3, <1>4, <1>5, SharedFinds, SharedCreates DEF Next
<1> QED
  BY <1>2, <1>5

\* runtime_manager.py:445 - two sessions of a workspace can be found at once only if one of them
\* was asked for by POST /sessions or made while another request had found none either.
THEOREM OneSessionCorrect == Spec => []OneSession
<1>1. SharedInv => OneSession
  BY DEF SharedInv
<1> QED
  BY SharedInit, SharedStep, <1>1, PTL DEF Spec

----------------------------------------------------------------------------
(* EndedStaysEnded *)

LEMMA EndedStep ==
    ASSUME TypeInv, [Next]_vars, NEW t \in Session, session[t].status \in {"completed", "expired"}
    PROVE  session'[t].status \in {"completed", "expired"}
<1>1. session[t] \in Row /\ session \in [Session -> Row]
  BY DEF TypeInv, TypeOK
<1>2. CASE UNCHANGED session
  BY <1>2
<1>3. ASSUME NEW s \in Session,
             (\E o \in Objective : CreateSession(s, o)) \/ CloseSession(s) \/ ExpireStale(s) \/ Lapses(s)
      PROVE  session'[t].status \in {"completed", "expired"}
  <2>1. CASE \E o \in Objective : CreateSession(s, o)
    BY <1>1, <2>1 DEF CreateSession, Created, Unused, Known
  <2>2. CASE CloseSession(s)
    BY <1>1, <2>2 DEF CloseSession, Row
  <2>3. CASE ExpireStale(s)
    BY <1>1, <2>3 DEF ExpireStale, Row
  <2>4. CASE Lapses(s)
    BY <1>1, <2>4 DEF Lapses, Row
  <2> QED
    BY <1>3, <2>1, <2>2, <2>3, <2>4
<1>4. ASSUME NEW c \in Client, SubmitCreates(c) \/ AddWrites(c) \/ PhaseWrites(c)
      PROVE  session'[t].status \in {"completed", "expired"}
  <2>1. CASE SubmitCreates(c)
    BY <1>1, <2>1 DEF SubmitCreates, Created, Unused, Known
  <2>2. CASE AddWrites(c)
    BY <1>1, <2>2 DEF AddWrites, Updated, Row
  <2>3. CASE PhaseWrites(c)
    BY <1>1, <2>3 DEF PhaseWrites, Row
  <2> QED
    BY <1>4, <2>1, <2>2, <2>3
<1>5. ASSUME NEW c \in Client,
             \/ \E o \in Objective : SubmitFinds(c, o)
             \/ \E s \in Session, f \in Column : AddBegins(c, s, f)
             \/ \E s \in Session : PhaseReads(c, s)
             \/ AddReads(c) \/ Dropped(c)
      PROVE  UNCHANGED session
  BY <1>5 DEF SubmitFinds, AddBegins, PhaseReads, AddReads, Dropped
<1>6. CASE Next
  BY <1>2, <1>3, <1>4, <1>5, <1>6 DEF Next
<1> QED
  BY <1>2, <1>6 DEF vars

\* session_manager.py:120 - no step makes a closed, completed or expired session active again: a
\* request that has read the row before writes only its own column.
THEOREM EndedCorrect == Spec => EndedStaysEnded
<1>1. TypeInv /\ [Next]_vars
      => [\A s \in Session : session[s].status \in {"completed", "expired"}
                            => session'[s].status \in {"completed", "expired"}]_vars
  BY EndedStep
<1> QED
  BY TypeInit, TypeStep, <1>1, PTL DEF Spec, EndedStaysEnded
=============================================================================
