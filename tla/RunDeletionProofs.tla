------------------------- MODULE RunDeletionProofs -------------------------
(***************************************************************************)
(* Theorems about RunDeletion, for any set of clients and any number of    *)
(* copies of the state, pipelines and calls.                               *)
(***************************************************************************)
EXTENDS RunDeletion, WellFoundedInduction, TLAPS

PipePlace == {"unused", "created", "working", "closing", "stopping", "marking", "done"}
CallPlace == {"idle", "reading", "read", "saving", "answering", "looking", "striking", "waiting",
              "checking", "popping", "deleting", "clearing"}
DaemonPlace == {"idle", "listed", "reading", "read", "dropping"}
Seen == Status \cup {"none"}

PipeRecord == [pc : PipePlace, copy : Copy \cup {0}]
Op == {"none", "reply", "resume", "cancel", "delete"}
CallRecord ==
    [op : Op, pc : CallPlace, copy : Copy \cup {0}, snap : Seen,
     task : Pipe \cup {0}, found : BOOLEAN]

TypeOK ==
    /\ state \in [Copy -> Status \cup {"unused"}]
    /\ active \in Copy \cup {0} /\ row \in Seen
    /\ approvals \in BOOLEAN /\ checkpoint \in BOOLEAN
    /\ pipe \in [Pipe -> PipeRecord] /\ tracked \in Pipe \cup {0}
    /\ call \in [Client -> CallRecord]
    /\ daemon \in [pc : DaemonPlace, snap : Seen]
    /\ calls \in 0 .. MaxCalls
    /\ answered \in BOOLEAN /\ alone \in BOOLEAN

\* Who holds a copy of the state, or is about to adopt or to save what it has read.
HoldsCopy == {"working", "closing", "stopping", "marking"}
Used(copies, o) == o \in Copy /\ copies[o] # "unused"

PipeHolds(p) == pipe[p].pc \in HoldsCopy => Used(state, pipe[p].copy)
CallHolds(c) == call[c].pc \in {"read", "saving", "answering"} => call[c].snap \in Status

Held ==
    /\ active # 0 => Used(state, active)
    /\ \A p \in Pipe : PipeHolds(p)
    /\ \A c \in Client : CallHolds(c)
    /\ daemon.pc = "read" => daemon.snap \in Status

TypeInv == TypeOK /\ Held

----------------------------------------------------------------------------
(* Operators *)

LEMMA LeastMember ==
    ASSUME NEW T, T \subseteq Nat, T # {}
    PROVE  Least(T) \in T
<1>1. \E x \in T : \A y \in T : <<y, x>> \notin OpToRel(<, Nat)
  BY NatLessThanWellFounded, WFMin, Zenon
<1>2. PICK x \in T : \A y \in T : <<y, x>> \notin OpToRel(<, Nat)
  BY <1>1, Zenon
<1>3. \A y \in T : ~(y < x)
  BY <1>2 DEF OpToRel
<1>4. \A y \in T : x <= y
  BY <1>3
<1> QED
  BY <1>4 DEF Least

LEMMA NextCopy == ASSUME FreeCopies # {} PROVE Least(FreeCopies) \in Copy
BY LeastMember DEF FreeCopies, Copy

LEMMA NextPipe == ASSUME FreePipes # {} PROVE Least(FreePipes) \in FreePipes
BY LeastMember DEF FreePipes, Pipe

LEMMA Numbers == 0 \notin Copy /\ 0 \notin Pipe
BY DEF Copy, Pipe

LEMMA Records ==
    /\ Unused \in PipeRecord /\ Unused.pc = "unused" /\ Unused.copy = 0
    /\ Idle \in CallRecord /\ Idle.pc = "idle"
BY DEF Unused, PipeRecord, PipePlace, Idle, CallRecord, Op, CallPlace, Seen

\* A pipeline goes on with the copy it has.
LEMMA PipeGoes ==
    ASSUME TypeOK, NEW p \in Pipe, NEW pc \in PipePlace, Goes(p, pc)
    PROVE  /\ pipe' \in [Pipe -> PipeRecord]
           /\ pipe'[p].pc = pc /\ pipe'[p].copy = pipe[p].copy
           /\ \A q \in Pipe \ {p} : pipe'[q] = pipe[q]
<1>1. pipe[p] \in PipeRecord
  BY DEF TypeOK
<1>2. [pipe[p] EXCEPT !.pc = pc] \in PipeRecord
      /\ [pipe[p] EXCEPT !.pc = pc].pc = pc /\ [pipe[p] EXCEPT !.pc = pc].copy = pipe[p].copy
  BY <1>1 DEF PipeRecord
<1>3. pipe' = [pipe EXCEPT ![p] = [pipe[p] EXCEPT !.pc = pc]]
  BY DEF Goes
<1> QED
  BY <1>2, <1>3 DEF TypeOK

\* A call goes on with what it has.
LEMMA CallMoves ==
    ASSUME TypeOK, NEW c \in Client, NEW pc \in CallPlace, Moves(c, pc)
    PROVE  /\ call' \in [Client -> CallRecord]
           /\ call'[c].pc = pc /\ call'[c].snap = call[c].snap /\ call'[c].found = call[c].found
           /\ \A d \in Client \ {c} : call'[d] = call[d]
<1> DEFINE record == [call[c] EXCEPT !.pc = pc]
<1>1. call[c] \in CallRecord
  BY DEF TypeOK
<1>2. record \in CallRecord /\ record.pc = pc /\ record.snap = call[c].snap
      /\ record.found = call[c].found
  BY <1>1 DEF CallRecord
<1>3. call' = [call EXCEPT ![c] = record]
  BY DEF Moves
<1> QED
  BY <1>2, <1>3 DEF TypeOK

LEMMA CallBecomes ==
    ASSUME TypeOK, NEW c \in Client, NEW record \in CallRecord,
           call' = [call EXCEPT ![c] = record]
    PROVE  /\ call' \in [Client -> CallRecord] /\ call'[c] = record
           /\ \A d \in Client \ {c} : call'[d] = call[d]
BY DEF TypeOK

\* A call that is over, or waits for the pipeline that was tracked when it was cancelled.
LEMMA CancelledCall ==
    ASSUME TypeOK, NEW c \in Client, NEW op \in Op, NEW found \in BOOLEAN,
           Cancelled(c, op, found, tracked)
    PROVE  /\ call' \in [Client -> CallRecord]
           /\ call'[c].pc \in {"idle", "waiting"}
           /\ call'[c].pc = "waiting" => call'[c].task = tracked /\ call'[c].found = found
           /\ \A d \in Client \ {c} : call'[d] = call[d]
<1> DEFINE record == [Idle EXCEPT !.op = op, !.pc = "waiting", !.task = tracked, !.found = found]
<1>1. record \in CallRecord /\ record.pc = "waiting" /\ record.task = tracked
      /\ record.found = found
  BY DEF Idle, CallRecord, Op, CallPlace, Seen, TypeOK
<1> HIDE DEF record
<1>2. CASE op = "cancel"
  <2>1. call' = [call EXCEPT ![c] = Idle]
    BY <1>2 DEF Cancelled
  <2> QED
    BY <2>1, Records, CallBecomes
<1>3. CASE op # "cancel"
  <2>1. call' = [call EXCEPT ![c] = record]
    BY <1>3 DEF Cancelled, record
  <2> QED
    BY <1>1, <2>1, CallBecomes
<1> QED
  BY <1>2, <1>3

\* A copy that is given a status is in use, and no other goes out of use.
LEMMA StatusGiven ==
    ASSUME TypeOK, NEW o \in Copy, NEW s \in Status, state' = [state EXCEPT ![o] = s]
    PROVE  /\ state' \in [Copy -> Status \cup {"unused"}]
           /\ Used(state', o) /\ \A q \in Copy : Used(state, q) => Used(state', q)
BY DEF TypeOK, Used, Status

LEMMA StatusOf == ASSUME TypeOK, NEW o, Used(state, o) PROVE o \in Copy /\ state[o] \in Status
BY DEF TypeOK, Used

\* A pipeline that is started is new, and the tracked one.
LEMMA LaunchType ==
    ASSUME TypeOK, Launches
    PROVE  /\ pipe' \in [Pipe -> PipeRecord] /\ tracked' \in Pipe
           /\ \A p \in Pipe : pipe'[p].pc \in HoldsCopy =>
                 pipe[p].pc \in HoldsCopy /\ pipe'[p].copy = pipe[p].copy
<1>1. Least(FreePipes) \in FreePipes /\ FreePipes \subseteq Pipe
  BY NextPipe DEF Launches, FreePipes
<1>2. Goes(Least(FreePipes), "created") /\ tracked' = Least(FreePipes)
  BY DEF Launches, Goes
<1>3. /\ pipe' \in [Pipe -> PipeRecord]
      /\ pipe'[Least(FreePipes)].pc = "created"
      /\ \A q \in Pipe \ {Least(FreePipes)} : pipe'[q] = pipe[q]
  BY <1>1, <1>2, PipeGoes DEF PipePlace
<1> QED
  BY <1>1, <1>2, <1>3 DEF HoldsCopy

\* Records whose holders hold what they held still hold it.
LEMMA HeldKept ==
    ASSUME TypeInv, \A o \in Copy : Used(state, o) => Used(state', o),
           active' = active \/ active' = 0 \/ Used(state', active'),
           \A p \in Pipe :
              pipe'[p].pc \in HoldsCopy =>
                 (pipe[p].pc \in HoldsCopy /\ pipe'[p].copy = pipe[p].copy) \/ Used(state', pipe'[p].copy),
           \A c \in Client : call'[c] = call[c] \/ CallHolds(c)',
           daemon'.pc = "read" => daemon' = daemon \/ daemon'.snap \in Status
    PROVE  Held'
<1>1. ASSUME active' # 0 PROVE Used(state', active')
  BY <1>1 DEF TypeInv, Held, Used
<1>2. ASSUME NEW p \in Pipe PROVE PipeHolds(p)'
  BY <1>2 DEF TypeInv, Held, PipeHolds, Used
<1>3. ASSUME NEW c \in Client PROVE CallHolds(c)'
  BY <1>3 DEF TypeInv, Held, CallHolds
<1> QED
  BY <1>1, <1>2, <1>3 DEF TypeInv, Held

\* What is left of it when the state and the holders of a copy stay as they are.
LEMMA StateKept ==
    ASSUME TypeInv, TypeOK', UNCHANGED <<state, active>>,
           \A p \in Pipe : pipe'[p].pc \in HoldsCopy =>
              pipe[p].pc \in HoldsCopy /\ pipe'[p].copy = pipe[p].copy,
           \A c \in Client : call'[c] = call[c] \/ CallHolds(c)',
           daemon'.pc = "read" => daemon' = daemon \/ daemon'.snap \in Status
    PROVE  TypeInv'
<1>1. \A o \in Copy : Used(state, o) => Used(state', o)
  BY DEF Used
<1>2. Held'
  BY <1>1, HeldKept
<1> QED
  BY <1>2 DEF TypeInv

LEMMA TypeInit == Init => TypeInv
<1> SUFFICES ASSUME Init PROVE TypeInv
  OBVIOUS
<1>1. 1 \in Copy /\ 1 \in Pipe /\ active \in Copy \cup {0} /\ tracked \in Pipe \cup {0}
  BY DeletionAssumption DEF Init, Copy, Pipe
<1>2. \A p \in Pipe : pipe[p] \in PipeRecord /\ pipe[p].pc \in {"created", "unused"}
  <2>1. [Unused EXCEPT !.pc = "created"] \in PipeRecord
        /\ [Unused EXCEPT !.pc = "created"].pc = "created"
    BY DEF Unused, PipeRecord, PipePlace
  <2> QED
    BY <2>1, Records DEF Init
<1>3. TypeOK
  <2>1. pipe \in [Pipe -> PipeRecord]
    BY <1>2 DEF Init
  <2>2. state \in [Copy -> Status \cup {"unused"}] /\ row \in Seen
    BY DEF Init, Status, Seen
  <2>3. daemon \in [pc : DaemonPlace, snap : Seen] /\ calls \in 0 .. MaxCalls
    BY DeletionAssumption DEF Init, NoTick, DaemonPlace, Seen
  <2> QED
    BY <1>1, <2>1, <2>2, <2>3, Records DEF Init, TypeOK
<1>4. active # 0 => Used(state, active)
  BY <1>1 DEF Init, Used
<1>5. (\A p \in Pipe : PipeHolds(p)) /\ \A c \in Client : CallHolds(c)
  BY <1>2, Records DEF Init, PipeHolds, HoldsCopy, CallHolds
<1> QED
  BY <1>3, <1>4, <1>5 DEF TypeInv, Held, Init, NoTick

----------------------------------------------------------------------------
(* Types: the pipelines *)

\* A pipeline that works on a copy gives it a status.
LEMMA CopyGiven ==
    ASSUME TypeInv, NEW o, Used(state, o), NEW s \in Status, state' = [state EXCEPT ![o] = s]
    PROVE  /\ state' \in [Copy -> Status \cup {"unused"}]
           /\ Used(state', o) /\ state'[o] = s
           /\ \A q \in Copy : Used(state, q) => Used(state', q)
<1>1. TypeOK /\ o \in Copy
  BY DEF TypeInv, Used
<1> QED
  BY <1>1, StatusGiven DEF TypeOK

LEMMA PipeTypes == ASSUME TypeInv, NEW p \in Pipe, PipeStep(p) PROVE TypeInv'
<1> USE DEF pipeOthers
<1>1. TypeOK /\ Held
  BY DEF TypeInv
<1>2. pipe[p].pc \in HoldsCopy => Used(state, pipe[p].copy) /\ state[pipe[p].copy] \in Status
  BY <1>1, StatusOf DEF Held, PipeHolds
<1>3. "open" \in Status /\ "over" \in Status /\ Status \subseteq Seen
  BY DEF Status, Seen
<1>4. CASE PipeStarts(p)
  <2>1. CASE active = 0
    <3>1. Goes(p, "done") /\ UNCHANGED <<state, row, active, approvals, checkpoint, tracked, pipeOthers>>
      BY <1>4, <2>1 DEF PipeStarts
    <3>2. /\ pipe' \in [Pipe -> PipeRecord] /\ pipe'[p].pc = "done"
          /\ \A q \in Pipe \ {p} : pipe'[q] = pipe[q]
      BY <1>1, <3>1, PipeGoes DEF PipePlace
    <3>3. TypeOK'
      BY <1>1, <3>1, <3>2 DEF TypeOK
    <3> QED
      BY <3>1, <3>2, <3>3, StateKept DEF HoldsCopy
  <2>2. CASE active # 0
    <3> DEFINE record == [pc |-> "working", copy |-> active]
    <3>1. /\ state' = [state EXCEPT ![active] = "open"] /\ row' = "open"
          /\ pipe' = [pipe EXCEPT ![p] = record]
          /\ UNCHANGED <<active, approvals, checkpoint, tracked, pipeOthers>>
      BY <1>4, <2>2 DEF PipeStarts
    <3>2. Used(state, active)
      BY <1>1, <2>2 DEF Held
    <3>3. /\ state' \in [Copy -> Status \cup {"unused"}] /\ Used(state', active)
          /\ \A q \in Copy : Used(state, q) => Used(state', q)
      BY <1>3, <3>1, <3>2, CopyGiven
    <3>4. record \in PipeRecord /\ record.copy = active
      BY <1>1 DEF TypeOK, PipeRecord, PipePlace
    <3> HIDE DEF record
    <3>5. /\ pipe' \in [Pipe -> PipeRecord] /\ pipe'[p].copy = active
          /\ \A q \in Pipe \ {p} : pipe'[q] = pipe[q]
      BY <1>1, <3>1, <3>4 DEF TypeOK
    <3>6. TypeOK'
      BY <1>1, <1>3, <3>1, <3>3, <3>5 DEF TypeOK
    <3>7. Held'
      BY <3>1, <3>3, <3>5, HeldKept
    <3> QED
      BY <3>6, <3>7 DEF TypeInv
  <2> QED
    BY <2>1, <2>2
<1>5. CASE PipeWorks(p)
  <2>1. At(p, "working") /\ UNCHANGED <<active, pipe, tracked, pipeOthers>>
    BY <1>5 DEF PipeWorks
  <2>2. CASE UNCHANGED <<state, row>>
    <3>1. TypeOK'
      BY <1>1, <1>5, <2>1, <2>2 DEF PipeWorks, TypeOK
    <3> QED
      BY <2>1, <2>2, <3>1, StateKept
  <2>3. CASE ~UNCHANGED <<state, row>>
    <3>1. PICK s \in {state[pipe[p].copy], "open"} :
              state' = [state EXCEPT ![pipe[p].copy] = s] /\ row' = s
      BY <1>5, <2>3 DEF PipeWorks
    <3>2. s \in Status /\ Used(state, pipe[p].copy) /\ UNCHANGED <<approvals, checkpoint>>
      BY <1>2, <1>3, <1>5, <2>1, <2>3, <3>1 DEF At, HoldsCopy, PipeWorks
    <3>3. /\ state' \in [Copy -> Status \cup {"unused"}]
          /\ \A q \in Copy : Used(state, q) => Used(state', q)
      BY <3>1, <3>2, CopyGiven
    <3>4. TypeOK'
      BY <1>1, <1>3, <2>1, <3>1, <3>2, <3>3 DEF TypeOK
    <3>5. Held'
      BY <2>1, <3>3, HeldKept
    <3> QED
      BY <3>4, <3>5 DEF TypeInv
  <2> QED
    BY <2>2, <2>3
<1>6. CASE PipeCloses(p) \/ PipeMarks(p)
  <2>1. PICK pc \in {"closing", "stopping", "marking"} : Goes(p, pc)
    BY <1>6 DEF PipeCloses, PipeMarks
  <2>2. /\ pipe[p].pc \in HoldsCopy /\ Used(state, pipe[p].copy)
        /\ UNCHANGED <<active, row, approvals, checkpoint, tracked, pipeOthers>>
    BY <1>2, <1>6 DEF PipeCloses, PipeMarks, At, HoldsCopy
  <2>3. /\ pipe' \in [Pipe -> PipeRecord] /\ pipe'[p].copy = pipe[p].copy
        /\ \A q \in Pipe \ {p} : pipe'[q] = pipe[q]
    BY <1>1, <2>1, PipeGoes DEF PipePlace
  <2>4. /\ state' \in [Copy -> Status \cup {"unused"}]
        /\ \A q \in Copy : Used(state, q) => Used(state', q)
    <3>1. CASE state' = state
      BY <1>1, <3>1 DEF TypeOK, Used
    <3>2. CASE state' # state
      <4>1. PICK s \in {state[pipe[p].copy], "open", "over"} :
                state' = [state EXCEPT ![pipe[p].copy] = s]
        BY <1>6, <3>2 DEF PipeCloses, PipeMarks
      <4>2. s \in Status
        BY <1>2, <1>3, <2>2, <4>1
      <4> QED
        BY <2>2, <4>1, <4>2, CopyGiven
    <3> QED
      BY <3>1, <3>2
  <2>5. TypeOK'
    BY <1>1, <2>2, <2>3, <2>4 DEF TypeOK
  <2>6. Held'
    BY <2>2, <2>3, <2>4, HeldKept
  <2> QED
    BY <2>5, <2>6 DEF TypeInv
<1>7. CASE PipeEnds(p)
  <2>1. /\ row' = state[pipe[p].copy] /\ Goes(p, "done") /\ tracked' = 0
        /\ UNCHANGED <<state, active, approvals, checkpoint, pipeOthers>>
        /\ pipe[p].pc \in HoldsCopy
    BY <1>7 DEF PipeEnds, HoldsCopy
  <2>2. /\ pipe' \in [Pipe -> PipeRecord] /\ pipe'[p].pc = "done"
        /\ \A q \in Pipe \ {p} : pipe'[q] = pipe[q]
    BY <1>1, <2>1, PipeGoes DEF PipePlace
  <2>3. TypeOK'
    BY <1>1, <1>2, <1>3, <2>1, <2>2 DEF TypeOK
  <2> QED
    BY <2>1, <2>2, <2>3, StateKept DEF HoldsCopy
<1> QED
  BY <1>4, <1>5, <1>6, <1>7 DEF PipeStep

----------------------------------------------------------------------------
(* Types: reply_to_run and resume_run *)

\* Whatever happens to the tracked pipeline, the pipelines keep their copies.
PipesKept ==
    /\ pipe' \in [Pipe -> PipeRecord] /\ tracked' \in Pipe \cup {0}
    /\ \A p \in Pipe : pipe'[p].pc \in HoldsCopy =>
          pipe[p].pc \in HoldsCopy /\ pipe'[p].copy = pipe[p].copy

\* One call goes on, the others do not.
CallKept(c) ==
    /\ call' \in [Client -> CallRecord] /\ CallHolds(c)'
    /\ \A d \in Client \ {c} : call'[d] = call[d]

LEMMA PipesUnchanged == ASSUME TypeOK, UNCHANGED <<pipe, tracked>> PROVE PipesKept
BY DEF TypeOK, PipesKept

LEMMA EndsType == ASSUME TypeOK, NEW c \in Client, Ends(c) PROVE CallKept(c) /\ call'[c] = Idle
<1>1. call' \in [Client -> CallRecord] /\ call'[c] = Idle
      /\ \A d \in Client \ {c} : call'[d] = call[d]
  BY Records, CallBecomes DEF Ends
<1> QED
  BY <1>1, Records DEF CallKept, CallHolds

LEMMA ResumeType ==
    ASSUME TypeOK, NEW c \in Client, ResumeLaunches(c)
    PROVE  CallKept(c) /\ PipesKept
<1>1. CallKept(c)
  BY EndsType DEF ResumeLaunches
<1>2. CASE Tracked
  BY <1>1, <1>2, PipesUnchanged DEF ResumeLaunches
<1>3. CASE ~Tracked
  BY <1>1, <1>3, LaunchType DEF ResumeLaunches, PipesKept
<1> QED
  BY <1>2, <1>3

LEMMA SavesType ==
    ASSUME TypeOK, NEW c \in Client, NEW op \in Op,
           NEW pc \in {"saving", "answering"}, NEW o \in Copy, NEW status \in Status,
           Saves(c, op, pc, o, status)
    PROVE  CallKept(c)
<1> DEFINE record == [Idle EXCEPT !.op = op, !.pc = pc, !.copy = o, !.snap = status]
<1>1. record \in CallRecord /\ record.snap = status
  BY DEF Idle, CallRecord, Op, CallPlace, Seen
<1>2. call' = [call EXCEPT ![c] = record]
  BY DEF Saves
<1> HIDE DEF record
<1> QED
  BY <1>1, <1>2, CallBecomes DEF CallKept, CallHolds

LEMMA UsesType ==
    ASSUME TypeOK, NEW c \in Client, NEW op \in Op, NEW o \in Copy,
           NEW now \in [Copy -> Status \cup {"unused"}], now[o] \in Status, Uses(c, op, o, now)
    PROVE  /\ state' \in [Copy -> Status \cup {"unused"}]
           /\ Used(state', o) /\ \A q \in Copy : Used(now, q) => Used(state', q)
           /\ CallKept(c) /\ PipesKept
<1>1. "open" \in Status /\ "unused" \notin Status
  BY DEF Status
<1>2. CASE state' = [now EXCEPT ![o] = "open"] /\ Saves(c, op, "saving", o, "open")
           /\ UNCHANGED <<pipe, tracked>>
  <2>1. CallKept(c)
    BY <1>1, <1>2, SavesType
  <2> QED
    BY <1>1, <1>2, <2>1, PipesUnchanged DEF Used
<1>3. CASE state' = now /\ Saves(c, op, "answering", o, now[o]) /\ UNCHANGED <<pipe, tracked>>
  <2>1. CallKept(c)
    BY <1>3, SavesType
  <2> QED
    BY <1>1, <1>3, <2>1, PipesUnchanged DEF Used
<1>4. CASE state' = now /\ ResumeLaunches(c)
  BY <1>1, <1>4, ResumeType DEF Used
<1>5. CASE state' = now /\ Ends(c) /\ UNCHANGED <<pipe, tracked>>
  BY <1>1, <1>5, EndsType, PipesUnchanged DEF Used
<1> QED
  BY <1>2, <1>3, <1>4, <1>5 DEF Uses

LEMMA ReplyTypes ==
    ASSUME TypeInv, NEW c \in Client,
           (\E op \in {"reply", "resume"} : CallBegins(c, op)) \/ CallReads(c) \/ CallAdopts(c)
           \/ CallSaved(c)
    PROVE  TypeInv'
<1> USE DEF callOthers
<1>1. TypeOK /\ Held /\ Status \subseteq Seen
  BY DEF TypeInv, Seen
<1>2. ASSUME NEW op \in {"reply", "resume"}, CallBegins(c, op)
      PROVE  TypeInv'
  <2>1. calls' \in 0 .. MaxCalls /\ alone' \in BOOLEAN /\ UNCHANGED <<active, row, callOthers>>
    BY <1>1, <1>2, DeletionAssumption DEF TypeOK, CallBegins, Disturbs
  <2>2. CASE active # 0
    <3>1. active \in Copy /\ state[active] \in Status
      BY <1>1, <2>2, StatusOf DEF Held
    <3>2. Uses(c, op, active, state) /\ state \in [Copy -> Status \cup {"unused"}]
      BY <1>1, <1>2, <2>2 DEF CallBegins, TypeOK
    <3>3. /\ state' \in [Copy -> Status \cup {"unused"}] /\ CallKept(c) /\ PipesKept
          /\ \A q \in Copy : Used(state, q) => Used(state', q)
      BY <1>1, <3>1, <3>2, UsesType DEF Op
    <3>4. TypeOK'
      BY <1>1, <2>1, <3>3 DEF TypeOK, CallKept, PipesKept
    <3>5. Held'
      BY <2>1, <3>3, HeldKept DEF CallKept, PipesKept
    <3> QED
      BY <3>4, <3>5 DEF TypeInv
  <2>3. CASE active = 0
    <3> DEFINE record == [Idle EXCEPT !.op = op, !.pc = "reading"]
    <3>1. record \in CallRecord /\ record.pc = "reading"
      BY DEF Idle, CallRecord, Op, CallPlace, Seen
    <3>2. call' = [call EXCEPT ![c] = record] /\ UNCHANGED <<state, pipe, tracked>>
      BY <1>2, <2>3 DEF CallBegins
    <3> HIDE DEF record
    <3>3. CallKept(c)
      BY <1>1, <3>1, <3>2, CallBecomes DEF CallKept, CallHolds
    <3>4. TypeOK'
      BY <1>1, <2>1, <3>2, <3>3 DEF TypeOK, CallKept
    <3> QED
      BY <2>1, <3>2, <3>3, <3>4, StateKept DEF CallKept
  <2> QED
    BY <2>2, <2>3
<1>3. CASE CallReads(c)
  <2>1. UNCHANGED <<state, active, row, pipe, tracked, calls, alone, callOthers>>
    BY <1>3 DEF CallReads
  <2>2. CallKept(c)
    <3>1. CASE row = "none"
      BY <1>1, <1>3, <3>1, EndsType DEF CallReads, Ends
    <3>2. CASE row # "none"
      <4> DEFINE record == [call[c] EXCEPT !.pc = "read", !.snap = row]
      <4>1. call[c] \in CallRecord /\ row \in Status
        BY <1>1, <3>2 DEF TypeOK, Seen
      <4>2. record \in CallRecord /\ record.snap = row
        BY <1>1, <4>1 DEF CallRecord, Op, CallPlace
      <4>3. call' = [call EXCEPT ![c] = record]
        BY <1>3, <3>2 DEF CallReads
      <4> HIDE DEF record
      <4> QED
        BY <1>1, <4>1, <4>2, <4>3, CallBecomes DEF CallKept, CallHolds
    <3> QED
      BY <3>1, <3>2
  <2>3. TypeOK'
    BY <1>1, <2>1, <2>2 DEF TypeOK, CallKept
  <2> QED
    BY <2>1, <2>2, <2>3, StateKept DEF CallKept
<1>4. CASE CallAdopts(c)
  <2> DEFINE o == Least(FreeCopies)
             now == [state EXCEPT ![o] = call[c].snap]
  <2>1. /\ active' = o /\ Uses(c, call[c].op, o, now) /\ call[c].pc = "read"
        /\ UNCHANGED <<row, calls, alone, callOthers>>
    BY <1>4 DEF CallAdopts, Busy
  <2>2. o \in Copy
    BY <1>4, NextCopy DEF CallAdopts
  <2>3. call[c].snap \in Status
    BY <1>1, <2>1 DEF Held, CallHolds
  <2>4. call[c].op \in Op
    BY <1>1 DEF TypeOK, CallRecord
  <2> HIDE DEF o
  <2>5. now \in [Copy -> Status \cup {"unused"}] /\ now[o] = call[c].snap
        /\ \A q \in Copy : Used(state, q) => Used(now, q)
    BY <1>1, <2>2, <2>3 DEF TypeOK, Used, Status
  <2> HIDE DEF now
  <2>6. /\ state' \in [Copy -> Status \cup {"unused"}] /\ CallKept(c) /\ PipesKept
        /\ Used(state', o) /\ \A q \in Copy : Used(state, q) => Used(state', q)
    BY <1>1, <2>1, <2>2, <2>3, <2>4, <2>5, UsesType
  <2>7. TypeOK'
    BY <1>1, <2>1, <2>2, <2>6 DEF TypeOK, CallKept, PipesKept
  <2>8. Held'
    BY <2>1, <2>6, HeldKept DEF CallKept, PipesKept
  <2> QED
    BY <2>7, <2>8 DEF TypeInv
<1>5. CASE CallSaved(c)
  <2>1. call[c].pc \in {"saving", "answering"} /\ row' = call[c].snap
        /\ UNCHANGED <<state, active, calls, alone, callOthers>>
    BY <1>5 DEF CallSaved, Busy
  <2>2. row' \in Seen
    BY <1>1, <2>1 DEF Held, CallHolds
  <2>3. CallKept(c) /\ PipesKept
    BY <1>1, <1>5, EndsType, ResumeType, PipesUnchanged DEF CallSaved
  <2>4. TypeOK'
    BY <1>1, <2>1, <2>2, <2>3 DEF TypeOK, CallKept, PipesKept
  <2> QED
    BY <2>1, <2>3, <2>4, StateKept DEF CallKept, PipesKept
<1> QED
  BY <1>2, <1>3, <1>4, <1>5

----------------------------------------------------------------------------
(* Types: cancel_run and delete_run *)

LEMMA CancelledType ==
    ASSUME TypeOK, NEW c \in Client, NEW op \in Op, NEW found \in BOOLEAN,
           Cancelled(c, op, found, tracked)
    PROVE  CallKept(c)
BY CancelledCall DEF CallKept, CallHolds

LEMMA MovesType ==
    ASSUME TypeOK, NEW c \in Client, Moves(c, "checking") \/ Moves(c, "popping")
                                     \/ Moves(c, "deleting") \/ Moves(c, "clearing")
    PROVE  CallKept(c)
BY CallMoves DEF CallKept, CallHolds, CallPlace

LEMMA StruckType ==
    ASSUME TypeOK, NEW p \in Pipe, Struck(p)
    PROVE  PipesKept
<1>1. PICK pc \in {"stopping", "done"} : Goes(p, pc)
  BY DEF Struck
<1>2. pc \in HoldsCopy => pipe[p].pc \in HoldsCopy
  <2>1. CASE pc = "done"
    BY <2>1 DEF HoldsCopy
  <2>2. CASE pc # "done"
    <3>1. pipe'[p].pc = "stopping"
      BY <1>1, <2>2, PipeGoes DEF PipePlace
    <3>2. Goes(p, "done") => pipe'[p].pc = "done"
      BY PipeGoes DEF PipePlace
    <3> QED
      BY <3>1, <3>2 DEF Struck, HoldsCopy
  <2> QED
    BY <2>1, <2>2
<1>3. tracked' \in Pipe \cup {0}
  BY DEF Struck, TypeOK
<1>4. /\ pipe' \in [Pipe -> PipeRecord] /\ pipe'[p].pc = pc /\ pipe'[p].copy = pipe[p].copy
      /\ \A q \in Pipe \ {p} : pipe'[q] = pipe[q]
  BY <1>1, PipeGoes DEF PipePlace
<1> QED
  BY <1>2, <1>3, <1>4 DEF PipesKept

LEMMA ArrivesType ==
    ASSUME TypeOK, NEW c \in Client, NEW op, Arrives(c, op)
    PROVE  calls' \in 0 .. MaxCalls /\ alone' \in BOOLEAN
<1>1. calls' \in 0 .. MaxCalls
  BY DeletionAssumption DEF TypeOK, Arrives
<1>2. alone' \in BOOLEAN
  BY DEF TypeOK, Arrives, NobodyElse, Disturbs
<1> QED
  BY <1>1, <1>2

LEMMA CancelTypes ==
    ASSUME TypeInv, NEW c \in Client,
           (\E op \in {"cancel", "delete"} : CancelBegins(c, op)) \/ CancelStep(c)
    PROVE  TypeInv'
<1> USE DEF callOthers
<1>1. TypeOK /\ Held /\ {"cancelling", "over"} \subseteq Status /\ Status \subseteq Seen
  BY DEF TypeInv, Seen, Status
<1>2. ASSUME NEW op \in {"cancel", "delete"}, CancelBegins(c, op)
      PROVE  TypeInv'
  <2>1. /\ calls' \in 0 .. MaxCalls /\ alone' \in BOOLEAN
        /\ UNCHANGED <<active, row, pipe, tracked, callOthers>> /\ op \in Op
    BY <1>1, <1>2, ArrivesType DEF CancelBegins, Op
  <2>2. CallKept(c)
    <3>1. ASSUME NEW pc \in {"looking", "striking"}, NEW found \in BOOLEAN,
                 call' = [call EXCEPT ![c] = [op |-> op, pc |-> pc, copy |-> 0, snap |-> "none",
                                              task |-> 0, found |-> found]]
          PROVE  CallKept(c)
      <4> DEFINE record == [op |-> op, pc |-> pc, copy |-> 0, snap |-> "none", task |-> 0,
                            found |-> found]
      <4>1. record \in CallRecord /\ record.pc = pc
        BY <2>1 DEF CallRecord, CallPlace, Seen
      <4> HIDE DEF record
      <4>2. call' = [call EXCEPT ![c] = record]
        BY <3>1 DEF record
      <4> QED
        BY <1>1, <4>1, <4>2, CallBecomes DEF CallKept, CallHolds
    <3>2. CASE active = 0
      BY <1>2, <3>1, <3>2 DEF CancelBegins, Idle
    <3>3. CASE active # 0 /\ state[active] = "over"
      BY <1>1, <1>2, <2>1, <3>3, CancelledType DEF CancelBegins
    <3>4. CASE active # 0 /\ state[active] # "over"
      BY <1>2, <3>1, <3>4 DEF CancelBegins, Idle
    <3> QED
      BY <3>2, <3>3, <3>4
  <2>3. /\ state' \in [Copy -> Status \cup {"unused"}]
        /\ \A q \in Copy : Used(state, q) => Used(state', q)
    <3>1. CASE state' = state
      BY <1>1, <3>1 DEF TypeOK, Used
    <3>2. CASE state' # state
      <4>1. active # 0 /\ state' = [state EXCEPT ![active] = "cancelling"]
        BY <1>2, <3>2 DEF CancelBegins
      <4>2. Used(state, active)
        BY <1>1, <4>1 DEF Held
      <4> QED
        BY <1>1, <4>1, <4>2, CopyGiven
    <3> QED
      BY <3>1, <3>2
  <2>4. TypeOK'
    BY <1>1, <2>1, <2>2, <2>3 DEF TypeOK, CallKept
  <2>5. Held'
    BY <2>1, <2>2, <2>3, HeldKept DEF CallKept
  <2> QED
    BY <2>4, <2>5 DEF TypeInv
<1>3. CASE CancelLooks(c)
  <2>1. UNCHANGED <<state, active, row, pipe, tracked, calls, alone, callOthers>>
    BY <1>3 DEF CancelLooks
  <2>2. call[c].op \in Op
    BY <1>1 DEF TypeOK, CallRecord
  <2>3. CallKept(c)
    BY <1>1, <1>3, <2>2, EndsType, CancelledType DEF CancelLooks
  <2>4. TypeOK'
    BY <1>1, <2>1, <2>3 DEF TypeOK, CallKept
  <2> QED
    BY <2>1, <2>3, <2>4, StateKept DEF CallKept
<1>4. CASE CancelStrikes(c)
  <2>1. Strikes /\ UNCHANGED <<state, active, calls, alone, callOthers>>
    BY <1>4 DEF CancelStrikes
  <2>2. call[c].op \in Op /\ call[c].found \in BOOLEAN
    BY <1>1 DEF TypeOK, CallRecord
  <2>3. CallKept(c)
    BY <1>1, <1>4, <2>2, CancelledType DEF CancelStrikes
  <2>4. PipesKept
    <3>1. CASE Tracked
      <4>1. tracked \in Pipe
        BY <1>1, <3>1 DEF TypeOK, Tracked
      <4> QED
        BY <1>1, <2>1, <3>1, <4>1, StruckType DEF Strikes
    <3>2. CASE ~Tracked
      BY <1>1, <2>1, <3>2, PipesUnchanged DEF Strikes
    <3> QED
      BY <3>1, <3>2
  <2>5. row' \in Seen
    BY <1>1, <2>1 DEF Strikes
  <2>6. TypeOK'
    BY <1>1, <2>1, <2>3, <2>4, <2>5 DEF TypeOK, CallKept, PipesKept
  <2> QED
    BY <2>1, <2>3, <2>4, <2>6, StateKept DEF CallKept, PipesKept
<1> QED
  BY <1>2, <1>3, <1>4 DEF CancelStep

LEMMA DeleteTypes ==
    ASSUME TypeInv, NEW c \in Client, DeleteBegins(c) \/ DeleteStep(c)
    PROVE  TypeInv'
<1> USE DEF callOthers
<1>1. TypeOK /\ Held /\ "over" \in Status /\ Status \subseteq Seen /\ "none" \in Seen
  BY DEF TypeInv, Seen, Status
<1>2. CASE DeleteBegins(c)
  <2> DEFINE record == [Idle EXCEPT !.op = "delete", !.pc = "checking", !.found = active # 0]
  <2>1. /\ calls' \in 0 .. MaxCalls /\ alone' \in BOOLEAN
        /\ UNCHANGED <<state, active, row, pipe, tracked, callOthers>>
    BY <1>1, <1>2, ArrivesType DEF DeleteBegins
  <2>2. (active # 0) \in BOOLEAN
    OBVIOUS
  <2>3. record \in CallRecord /\ record.pc = "checking"
    BY <2>2 DEF Idle, CallRecord, Op, CallPlace, Seen
  <2>4. call' = [call EXCEPT ![c] = record]
    BY <1>2 DEF DeleteBegins
  <2> HIDE DEF record
  <2>5. CallKept(c)
    BY <1>1, <2>3, <2>4, CallBecomes DEF CallKept, CallHolds
  <2>6. TypeOK'
    BY <1>1, <2>1, <2>5 DEF TypeOK, CallKept
  <2> QED
    BY <2>1, <2>5, <2>6, StateKept DEF CallKept
<1>3. CASE DeleteWaited(c)
  <2>1. CallKept(c) /\ UNCHANGED <<active, pipe, tracked, calls, alone, callOthers>>
    BY <1>1, <1>3, MovesType DEF DeleteWaited
  <2>2. /\ state' \in [Copy -> Status \cup {"unused"}] /\ row' \in Seen
        /\ \A q \in Copy : Used(state, q) => Used(state', q)
    <3>1. CASE UNCHANGED <<state, row>>
      BY <1>1, <3>1 DEF TypeOK, Used
    <3>2. CASE ~UNCHANGED <<state, row>>
      <4>1. active # 0 /\ state' = [state EXCEPT ![active] = "over"] /\ row' = "over"
        BY <1>3, <3>2 DEF DeleteWaited
      <4>2. Used(state, active)
        BY <1>1, <4>1 DEF Held
      <4> QED
        BY <1>1, <4>1, <4>2, CopyGiven
    <3> QED
      BY <3>1, <3>2
  <2>3. TypeOK'
    BY <1>1, <2>1, <2>2 DEF TypeOK, CallKept
  <2>4. Held'
    BY <2>1, <2>2, HeldKept DEF CallKept
  <2> QED
    BY <2>3, <2>4 DEF TypeInv
<1>4. CASE DeleteTimesOut(c) \/ DeleteChecks(c) \/ DeleteRow(c) \/ DeleteApprovals(c)
  <2>1. CallKept(c)
    BY <1>1, <1>4, EndsType, MovesType
       DEF DeleteTimesOut, DeleteChecks, DeleteRow, DeleteApprovals
  <2>2. UNCHANGED <<state, active, pipe, tracked, calls, daemon, checkpoint>>
    BY <1>4 DEF DeleteTimesOut, DeleteChecks, DeleteRow, DeleteApprovals
  <2>3. row' \in Seen /\ approvals' \in BOOLEAN /\ answered' \in BOOLEAN /\ alone' \in BOOLEAN
    <3>1. CASE DeleteTimesOut(c) \/ DeleteChecks(c)
      BY <1>1, <3>1 DEF DeleteTimesOut, DeleteChecks, Disturbs, TypeOK
    <3>2. CASE DeleteRow(c) \/ DeleteApprovals(c)
      BY <1>1, <3>2 DEF DeleteRow, DeleteApprovals, TypeOK
    <3> QED
      BY <1>4, <3>1, <3>2
  <2>4. TypeOK'
    BY <1>1, <2>1, <2>2, <2>3 DEF TypeOK, CallKept
  <2> QED
    BY <2>1, <2>2, <2>4, StateKept DEF CallKept
<1>5. CASE DeletePops(c)
  <2>1. /\ CallKept(c) /\ active' = 0 /\ tracked' = 0
        /\ UNCHANGED <<state, row, calls, alone, callOthers>>
    BY <1>1, <1>5, MovesType DEF DeletePops
  <2>2. PipesKept
    <3>1. CASE UNCHANGED pipe
      BY <1>1, <2>1, <3>1 DEF TypeOK, PipesKept
    <3>2. CASE ~UNCHANGED pipe
      <4>1. PICK p \in Pipe : At(p, "working") /\ Goes(p, "stopping")
        BY <1>5, <3>2 DEF DeletePops
      <4>2. /\ pipe' \in [Pipe -> PipeRecord] /\ pipe'[p].copy = pipe[p].copy
            /\ \A q \in Pipe \ {p} : pipe'[q] = pipe[q]
        BY <1>1, <4>1, PipeGoes DEF PipePlace
      <4> QED
        BY <2>1, <4>1, <4>2 DEF PipesKept, At, HoldsCopy
    <3> QED
      BY <3>1, <3>2
  <2>3. TypeOK'
    BY <1>1, <2>1, <2>2 DEF TypeOK, CallKept, PipesKept
  <2>4. \A o \in Copy : Used(state, o) => Used(state', o)
    BY <2>1 DEF Used
  <2>5. Held'
    BY <2>1, <2>2, <2>4, HeldKept DEF CallKept, PipesKept
  <2> QED
    BY <2>3, <2>5 DEF TypeInv
<1> QED
  BY <1>2, <1>3, <1>4, <1>5 DEF DeleteStep

----------------------------------------------------------------------------
(* Types: the daemon *)

LEMMA TurnsType ==
    ASSUME NEW pc \in DaemonPlace, NEW s \in Seen, Turns(pc, s)
    PROVE  /\ daemon' \in [pc : DaemonPlace, snap : Seen]
           /\ daemon'.pc = pc /\ daemon'.snap = s
BY DEF Turns

LEMMA DaemonTypes == ASSUME TypeInv, DaemonStep PROVE TypeInv'
<1> USE DEF daemonOthers
<1>1. TypeOK /\ Held /\ Status \subseteq Seen /\ "none" \in Seen
  BY DEF TypeInv, Seen
<1>2. CASE DaemonLists \/ DaemonSkips \/ DaemonReads \/ DaemonDrops
  <2>1. /\ daemon' \in [pc : DaemonPlace, snap : Seen]
        /\ daemon'.pc = "read" => daemon'.snap \in Status
    <3>1. NoTick \in [pc : DaemonPlace, snap : Seen] /\ NoTick.pc = "idle"
      BY DEF NoTick, DaemonPlace, Seen
    <3>2. CASE DaemonLists \/ DaemonSkips \/ DaemonDrops
      BY <1>1, <3>1, <3>2, TurnsType DEF DaemonLists, DaemonSkips, DaemonDrops, DaemonPlace
    <3>3. CASE DaemonReads
      <4>1. CASE row \in {"none", "over"}
        BY <1>1, <3>3, <4>1, TurnsType DEF DaemonReads, DaemonPlace
      <4>2. CASE row \notin {"none", "over"}
        <5>1. Turns("read", row) /\ row \in Seen /\ row \in Status
          BY <1>1, <3>3, <4>2 DEF DaemonReads, TypeOK, Seen
        <5> QED
          BY <5>1, TurnsType DEF DaemonPlace
      <4> QED
        BY <4>1, <4>2
    <3> QED
      BY <1>2, <3>2, <3>3
  <2>2. UNCHANGED <<state, active, pipe, tracked, daemonOthers>>
    BY <1>2 DEF DaemonLists, DaemonSkips, DaemonReads, DaemonDrops
  <2>3. checkpoint' \in BOOLEAN /\ alone' \in BOOLEAN
    BY <1>1, <1>2 DEF DaemonLists, DaemonSkips, DaemonReads, DaemonDrops, Disturbs, TypeOK
  <2>4. TypeOK'
    BY <1>1, <2>1, <2>2, <2>3 DEF TypeOK
  <2> QED
    BY <2>1, <2>2, <2>4, StateKept
<1>3. CASE DaemonTakes
  <2>1. UNCHANGED <<state, active, checkpoint, alone, daemonOthers>>
    BY <1>3 DEF DaemonTakes
  <2>2. daemon' \in [pc : DaemonPlace, snap : Seen] /\ daemon'.pc # "read"
    BY <1>1, <1>3, TurnsType DEF DaemonTakes, DaemonPlace
  <2>3. PipesKept
    BY <1>1, <1>3, LaunchType, PipesUnchanged DEF DaemonTakes, PipesKept
  <2>4. TypeOK'
    BY <1>1, <2>1, <2>2, <2>3 DEF TypeOK, PipesKept
  <2> QED
    BY <2>1, <2>2, <2>3, <2>4, StateKept DEF PipesKept
<1>4. CASE DaemonAdopts
  <2> DEFINE o == Least(FreeCopies)
  <2>1. /\ daemon.snap \in Status /\ active' = o /\ state' = [state EXCEPT ![o] = daemon.snap]
        /\ UNCHANGED <<checkpoint, alone, daemonOthers>>
    BY <1>1, <1>4 DEF DaemonAdopts, Adopts, Held
  <2>2. o \in Copy
    BY <1>4, NextCopy DEF DaemonAdopts, Adopts
  <2> HIDE DEF o
  <2>3. /\ state' \in [Copy -> Status \cup {"unused"}] /\ Used(state', o)
        /\ \A q \in Copy : Used(state, q) => Used(state', q)
    BY <1>1, <2>1, <2>2, StatusGiven
  <2>4. daemon' \in [pc : DaemonPlace, snap : Seen] /\ daemon'.pc # "read"
    BY <1>1, <1>4, TurnsType DEF DaemonAdopts, DaemonPlace
  <2>5. PipesKept
    BY <1>1, <1>4, LaunchType DEF DaemonAdopts, PipesKept
  <2>6. TypeOK'
    BY <1>1, <2>1, <2>2, <2>3, <2>4, <2>5 DEF TypeOK, PipesKept
  <2>7. Held'
    BY <2>1, <2>3, <2>4, <2>5, HeldKept DEF PipesKept
  <2> QED
    BY <2>6, <2>7 DEF TypeInv
<1> QED
  BY <1>2, <1>3, <1>4 DEF DaemonStep

LEMMA TypeStep == TypeInv /\ [Next]_vars => TypeInv'
<1> SUFFICES ASSUME TypeInv, [Next]_vars PROVE TypeInv'
  OBVIOUS
<1>1. CASE UNCHANGED vars
  <2>1. TypeOK' /\ UNCHANGED <<state, active, pipe, call, daemon>>
    BY <1>1 DEF TypeInv, TypeOK, vars
  <2> QED
    BY <2>1, StateKept
<1>2. CASE Next
  BY <1>2, PipeTypes, ReplyTypes, CancelTypes, DeleteTypes, DaemonTypes DEF Next
<1> QED
  BY <1>1, <1>2

\* Whoever works on a copy of the state, or is about to adopt or to save what it has read, holds a
\* status: also after delete_run has taken the run out of active_runs and the tables under it.
THEOREM TypeCorrect == Spec => []TypeInv
BY TypeInit, TypeStep, PTL DEF Spec

----------------------------------------------------------------------------
(* DeletedStaysDeleted: while a delete_run is alone with the run, what it has taken away by each   *)
(* of its steps is gone; when it has answered, nobody holds anything the run could come back from. *)

NoneAlive == \A p \in Pipe : ~Alive(p)

DeletesAlone(c) ==
    /\ call[c].pc \notin {"reading", "read", "saving", "answering"}
    /\ call[c].pc = "waiting" => \A p \in Pipe : Alive(p) => p = call[c].task
    /\ call[c].pc \in {"checking", "popping", "deleting", "clearing"} => NoneAlive
    /\ call[c].pc \in {"deleting", "clearing"} => active = 0
    /\ call[c].pc = "clearing" => row = "none"

AloneInv ==
    alone /\ ~answered =>
        /\ daemon = NoTick
        /\ \A c, d \in Client : call[c].pc # "idle" /\ call[d].pc # "idle" => c = d
        /\ \A p \in Pipe : Alive(p) => p = tracked
        /\ \A c \in Client : DeletesAlone(c)

\* Whoever comes to the run later finds nothing: no read that succeeds, nothing to adopt.
GoneInv ==
    alone /\ answered =>
        /\ active = 0 /\ row = "none" /\ ~approvals /\ NoneAlive
        /\ daemon.pc # "read"
        /\ \A c \in Client :
              /\ call[c].pc \in {"idle", "reading", "looking", "checking"}
              /\ call[c].pc = "checking" => ~call[c].found

DeletionInv == TypeInv /\ AloneInv /\ GoneInv

LEMMA DeletionInit == Init => DeletionInv
BY TypeInit DEF Init, DeletionInv, AloneInv, GoneInv

\* No pipeline comes to life but by a launch.
LEMMA AliveStep ==
    ASSUME TypeOK, NEW p \in Pipe, PipeStep(p)
    PROVE  /\ \A q \in Pipe : Alive(q)' => Alive(q)
           /\ UNCHANGED <<active, call, daemon, answered, alone>>
           /\ (\A q \in Pipe : Alive(q) => q = tracked) => (\A q \in Pipe : Alive(q)' => q = tracked')
           /\ row' # row \/ approvals' # approvals => Alive(p)
<1> USE DEF pipeOthers
<1>1. Alive(p)
  BY DEF PipeStep, PipeStarts, PipeWorks, PipeCloses, PipeMarks, PipeEnds, At, Alive
<1>2. \A q \in Pipe \ {p} : pipe'[q] = pipe[q]
  <2>1. CASE UNCHANGED pipe
    BY <2>1
  <2>2. ASSUME NEW pc \in PipePlace, Goes(p, pc)
        PROVE  \A q \in Pipe \ {p} : pipe'[q] = pipe[q]
    BY <2>2, PipeGoes
  <2>3. CASE PipeStarts(p)
    BY <2>2, <2>3 DEF PipeStarts, PipePlace, TypeOK
  <2> QED
    BY <2>1, <2>2, <2>3 DEF PipeStep, PipeWorks, PipeCloses, PipeMarks, PipeEnds, PipePlace
<1>3. \A q \in Pipe : Alive(q)' => Alive(q)
  BY <1>1, <1>2 DEF Alive
<1>4. UNCHANGED <<active, call, daemon, answered, alone>>
  BY DEF PipeStep, PipeStarts, PipeWorks, PipeCloses, PipeMarks, PipeEnds
<1>5. CASE tracked' = tracked
  BY <1>1, <1>3, <1>4, <1>5
<1>6. CASE tracked' # tracked
  <2>1. Goes(p, "done")
    BY <1>6 DEF PipeStep, PipeStarts, PipeWorks, PipeCloses, PipeMarks, PipeEnds
  <2>2. ~Alive(p)'
    BY <2>1, PipeGoes DEF PipePlace, Alive
  <2>3. (\A q \in Pipe : Alive(q) => q = tracked) => (\A q \in Pipe : ~Alive(q)')
    BY <1>1, <1>3, <2>2
  <2> QED
    BY <1>1, <1>3, <1>4, <2>3
<1> QED
  BY <1>5, <1>6

LEMMA PipeDeletion == ASSUME DeletionInv, NEW p \in Pipe, PipeStep(p) PROVE AloneInv' /\ GoneInv'
<1>1. /\ \A q \in Pipe : Alive(q)' => Alive(q)
      /\ UNCHANGED <<active, call, daemon, answered, alone>>
      /\ (\A q \in Pipe : Alive(q) => q = tracked) => (\A q \in Pipe : Alive(q)' => q = tracked')
      /\ row' # row \/ approvals' # approvals => Alive(p)
  BY AliveStep DEF DeletionInv, TypeInv
<1>2. AloneInv'
  <2> SUFFICES ASSUME alone, ~answered
               PROVE  /\ daemon = NoTick
                      /\ \A c, d \in Client : call[c].pc # "idle" /\ call[d].pc # "idle" => c = d
                      /\ \A q \in Pipe : Alive(q)' => q = tracked'
                      /\ \A c \in Client : DeletesAlone(c)'
    BY <1>1 DEF AloneInv
  <2>1. \A c \in Client : DeletesAlone(c)'
    BY <1>1 DEF DeletionInv, AloneInv, DeletesAlone, NoneAlive
  <2> QED
    BY <1>1, <2>1 DEF DeletionInv, AloneInv
<1>3. GoneInv'
  BY <1>1 DEF DeletionInv, GoneInv, NoneAlive
<1> QED
  BY <1>2, <1>3

LEMMA DaemonDeletion == ASSUME DeletionInv, DaemonStep PROVE AloneInv' /\ GoneInv'
<1> USE DEF daemonOthers
<1>1. TypeOK /\ AloneInv /\ GoneInv /\ UNCHANGED <<row, approvals, call, answered>>
  BY DEF DeletionInv, TypeInv, DaemonStep, DaemonLists, DaemonSkips, DaemonTakes, DaemonReads,
         DaemonAdopts, DaemonDrops
<1>2. ~(alone' /\ ~answered')
  <2>1. CASE DaemonLists
    <3>1. alone' => answered
      BY <2>1 DEF DaemonLists, Disturbs
    <3> QED
      BY <1>1, <3>1
  <2>2. CASE ~DaemonLists
    <3>1. daemon.pc # "idle" /\ alone' = alone
      BY <2>2 DEF DaemonStep, DaemonSkips, DaemonTakes, DaemonReads, DaemonAdopts, DaemonDrops
    <3> QED
      BY <1>1, <3>1 DEF AloneInv, NoTick
  <2> QED
    BY <2>1, <2>2
<1>3. ASSUME alone', answered'
      PROVE  UNCHANGED <<active, pipe>> /\ daemon'.pc # "read"
  <2>1. alone
    BY <1>3 DEF DaemonStep, DaemonLists, DaemonSkips, DaemonTakes, DaemonReads, DaemonAdopts,
                DaemonDrops, Disturbs
  <2>2. active = 0 /\ row = "none" /\ daemon.pc # "read"
    BY <1>1, <1>3, <2>1 DEF GoneInv
  <2> QED
    BY <2>2 DEF DaemonStep, DaemonLists, DaemonSkips, DaemonTakes, DaemonReads, DaemonAdopts,
                DaemonDrops, Turns, NoTick
<1>4. AloneInv'
  BY <1>2 DEF AloneInv
<1>5. alone' => alone
  BY DEF DaemonStep, DaemonLists, DaemonSkips, DaemonTakes, DaemonReads, DaemonAdopts, DaemonDrops,
         Disturbs
<1>6. GoneInv'
  BY <1>1, <1>3, <1>5 DEF GoneInv, NoneAlive, Alive
<1> QED
  BY <1>4, <1>6

\* The calls of a delete_run that is alone with the run are no reads and no writes of others.
LEMMA ReplyDeletion ==
    ASSUME DeletionInv, NEW c \in Client,
           (\E op \in {"reply", "resume"} : CallBegins(c, op)) \/ CallReads(c) \/ CallAdopts(c)
           \/ CallSaved(c)
    PROVE  AloneInv' /\ GoneInv'
<1> USE DEF callOthers
<1>1. TypeOK /\ AloneInv /\ GoneInv /\ UNCHANGED <<approvals, daemon, answered>>
  BY DEF DeletionInv, TypeInv, CallBegins, CallReads, CallAdopts, CallSaved
<1>2. alone' => alone
  BY DEF CallBegins, CallReads, CallAdopts, CallSaved, Disturbs
<1>3. ~(alone' /\ ~answered')
  <2>1. CASE \E op \in {"reply", "resume"} : CallBegins(c, op)
    BY <1>1, <2>1 DEF CallBegins, Disturbs
  <2>2. CASE ~\E op \in {"reply", "resume"} : CallBegins(c, op)
    <3>1. call[c].pc \in {"reading", "read", "saving", "answering"}
      BY <2>2 DEF CallReads, CallAdopts, CallSaved, Busy
    <3> QED
      BY <1>1, <1>2, <3>1 DEF AloneInv, DeletesAlone
  <2> QED
    BY <2>1, <2>2
<1>4. ASSUME alone', answered'
      PROVE  /\ UNCHANGED <<active, row, pipe>>
             /\ call'[c].pc \in {"idle", "reading"} /\ \A d \in Client \ {c} : call'[d] = call[d]
  <2>1. active = 0 /\ row = "none" /\ call[c].pc \notin {"read", "saving", "answering"}
    BY <1>1, <1>2, <1>4 DEF GoneInv
  <2>2. CASE CallReads(c)
    BY <1>1, <2>1, <2>2, EndsType, Records DEF CallReads, Ends, CallKept
  <2>3. ASSUME NEW op \in {"reply", "resume"}, CallBegins(c, op)
        PROVE  /\ UNCHANGED <<active, row, pipe>>
               /\ call'[c].pc = "reading" /\ \A d \in Client \ {c} : call'[d] = call[d]
    <3> DEFINE record == [Idle EXCEPT !.op = op, !.pc = "reading"]
    <3>1. record \in CallRecord /\ record.pc = "reading"
      BY DEF Idle, CallRecord, Op, CallPlace, Seen
    <3>2. call' = [call EXCEPT ![c] = record] /\ UNCHANGED <<active, row, pipe>>
      BY <2>1, <2>3 DEF CallBegins
    <3> HIDE DEF record
    <3> QED
      BY <1>1, <3>1, <3>2, CallBecomes
  <2> QED
    BY <2>1, <2>2, <2>3 DEF CallAdopts, CallSaved, Busy
<1>5. AloneInv'
  BY <1>3 DEF AloneInv
<1>6. GoneInv'
  <2> SUFFICES ASSUME alone', answered' PROVE GoneInv'
    BY DEF GoneInv
  <2> QED
    BY <1>1, <1>2, <1>4 DEF GoneInv, NoneAlive, Alive
<1> QED
  BY <1>5, <1>6

\* A delete_run that is alone is the only call.
LEMMA OthersIdle ==
    ASSUME AloneInv, alone, ~answered, NEW c \in Client, call[c].pc # "idle"
    PROVE  /\ DeletesAlone(c) /\ daemon = NoTick /\ \A p \in Pipe : Alive(p) => p = tracked
           /\ \A d \in Client \ {c} : call[d].pc = "idle"
BY DEF AloneInv

LEMMA AloneNow ==
    ASSUME NEW c \in Client, daemon' = NoTick, \A d \in Client \ {c} : call'[d].pc = "idle",
           \A p \in Pipe : Alive(p)' => p = tracked', DeletesAlone(c)'
    PROVE  AloneInv'
<1>1. \A d \in Client : DeletesAlone(d)'
  BY DEF DeletesAlone
<1> QED
  BY <1>1 DEF AloneInv

LEMMA StruckAlive ==
    ASSUME TypeOK, NEW p \in Pipe, p = tracked, Struck(p), \A q \in Pipe : Alive(q) => q = p
    PROVE  \A q \in Pipe : Alive(q)' => q = p /\ q = tracked'
<1>1. Alive(p)
  BY DEF Struck, Alive, At
<1>2. PICK pc \in {"stopping", "done"} : Goes(p, pc)
  BY DEF Struck
<1>3. pipe'[p].pc = pc /\ \A q \in Pipe \ {p} : pipe'[q] = pipe[q]
  BY <1>2, PipeGoes DEF PipePlace
<1>4. \A q \in Pipe : Alive(q)' => q = p
  BY <1>1, <1>3 DEF Alive
<1>5. CASE tracked' = tracked
  BY <1>4, <1>5
<1>6. CASE tracked' # tracked
  <2>1. Goes(p, "done")
    BY <1>6 DEF Struck
  <2>2. ~Alive(p)'
    BY <2>1, PipeGoes DEF PipePlace, Alive
  <2> QED
    BY <1>4, <2>2
<1> QED
  BY <1>5, <1>6

\* Whoever comes to the run by cancel_run or delete_run.
LEMMA Arriving ==
    ASSUME TypeOK, NEW c \in Client, NEW op, Arrives(c, op), alone'
    PROVE  /\ ~answered => op = "delete" /\ NobodyElse(c)
           /\ answered => alone
BY DEF Arrives, Disturbs

LEMMA CancelDeletion ==
    ASSUME DeletionInv, NEW c \in Client,
           (\E op \in {"cancel", "delete"} : CancelBegins(c, op)) \/ CancelStep(c)
    PROVE  AloneInv' /\ GoneInv'
<1> USE DEF callOthers
<1>1. TypeOK /\ AloneInv /\ GoneInv
  BY DEF DeletionInv, TypeInv
<1>2. UNCHANGED <<active, approvals, daemon, answered>>
  BY DEF CancelStep, CancelBegins, CancelLooks, CancelStrikes
<1>3. ASSUME NEW op \in {"cancel", "delete"}, CancelBegins(c, op), alone'
      PROVE  AloneInv' /\ GoneInv'
  <2>1. /\ ~answered => op = "delete" /\ NobodyElse(c)
        /\ answered => alone
        /\ UNCHANGED <<row, pipe, tracked>> /\ op \in Op
    BY <1>1, <1>3, Arriving DEF CancelBegins, Op
  <2>2. /\ call'[c].pc \in {"idle", "looking", "striking", "waiting"}
        /\ call'[c].pc = "waiting" => call'[c].task = tracked
        /\ active = 0 => call'[c].pc = "looking"
        /\ \A d \in Client \ {c} : call'[d] = call[d]
    <3>1. ASSUME NEW pc \in {"looking", "striking"}, NEW found \in BOOLEAN,
                 call' = [call EXCEPT ![c] = [op |-> op, pc |-> pc, copy |-> 0, snap |-> "none",
                                              task |-> 0, found |-> found]]
          PROVE  call'[c].pc = pc /\ \A d \in Client \ {c} : call'[d] = call[d]
      BY <1>1, <3>1 DEF TypeOK
    <3>2. CASE active = 0
      BY <1>3, <3>1, <3>2 DEF CancelBegins, Idle
    <3>3. CASE active # 0 /\ state[active] = "over"
      BY <1>1, <1>3, <2>1, <3>3, CancelledCall DEF CancelBegins
    <3>4. CASE active # 0 /\ state[active] # "over"
      BY <1>3, <3>1, <3>4 DEF CancelBegins, Idle
    <3> QED
      BY <3>2, <3>3, <3>4
  <2>3. AloneInv'
    <3>1. CASE answered
      BY <1>2, <3>1 DEF AloneInv
    <3>2. CASE ~answered
      <4>1. daemon' = NoTick /\ (\A d \in Client \ {c} : call'[d].pc = "idle")
            /\ \A p \in Pipe : Alive(p)' => p = tracked'
        BY <1>2, <2>1, <2>2, <3>2, Records DEF NobodyElse, Alive
      <4>2. DeletesAlone(c)'
        BY <2>1, <2>2, <4>1 DEF DeletesAlone
      <4> QED
        BY <4>1, <4>2, AloneNow
    <3> QED
      BY <3>1, <3>2
  <2>4. GoneInv'
    <3> SUFFICES ASSUME answered PROVE GoneInv'
      BY <1>2 DEF GoneInv
    <3>1. /\ active = 0 /\ row = "none" /\ ~approvals /\ NoneAlive /\ daemon.pc # "read"
          /\ \A d \in Client :
                /\ call[d].pc \in {"idle", "reading", "looking", "checking"}
                /\ call[d].pc = "checking" => ~call[d].found
      BY <1>1, <2>1 DEF GoneInv
    <3>2. NoneAlive'
      BY <2>1, <3>1 DEF NoneAlive, Alive
    <3>3. call'[c].pc = "looking" /\ \A d \in Client \ {c} : call'[d] = call[d]
      BY <2>2, <3>1
    <3> QED
      BY <1>2, <2>1, <3>1, <3>2, <3>3 DEF GoneInv
  <2> QED
    BY <2>3, <2>4
<1>4. ASSUME CancelLooks(c), alone'
      PROVE  AloneInv' /\ GoneInv'
  <2>1. call[c].pc = "looking" /\ alone /\ UNCHANGED <<row, pipe, tracked>>
    BY <1>4 DEF CancelLooks, Busy
  <2>2. /\ call'[c].pc \in {"idle", "waiting"}
        /\ call'[c].pc = "waiting" => call'[c].task = tracked
        /\ row = "none" => call'[c].pc = "idle"
        /\ \A d \in Client \ {c} : call'[d] = call[d]
    <3>1. call[c].op \in Op
      BY <1>1 DEF TypeOK, CallRecord
    <3> QED
      BY <1>1, <1>4, <3>1, EndsType, CancelledCall, Records DEF CancelLooks, CallKept
  <2>3. AloneInv'
    <3>1. CASE answered
      BY <1>2, <3>1 DEF AloneInv
    <3>2. CASE ~answered
      <4>1. daemon' = NoTick /\ (\A d \in Client \ {c} : call'[d].pc = "idle")
            /\ \A p \in Pipe : Alive(p)' => p = tracked'
        BY <1>1, <1>2, <2>1, <2>2, <3>2, OthersIdle DEF Alive
      <4>2. DeletesAlone(c)'
        BY <2>1, <2>2, <4>1 DEF DeletesAlone
      <4> QED
        BY <4>1, <4>2, AloneNow
    <3> QED
      BY <3>1, <3>2
  <2>4. GoneInv'
    BY <1>1, <1>2, <2>1, <2>2 DEF GoneInv, NoneAlive, Alive
  <2> QED
    BY <2>3, <2>4
<1>5. ASSUME CancelStrikes(c), alone'
      PROVE  AloneInv' /\ GoneInv'
  <2>1. call[c].pc = "striking" /\ alone /\ Strikes
    BY <1>5 DEF CancelStrikes, Busy
  <2>2. ~answered
    BY <1>1, <2>1 DEF GoneInv
  <2>3. /\ daemon = NoTick /\ \A p \in Pipe : Alive(p) => p = tracked
        /\ \A d \in Client \ {c} : call[d].pc = "idle"
    BY <1>1, <2>1, <2>2, OthersIdle
  <2>4. /\ call'[c].pc \in {"idle", "waiting"}
        /\ call'[c].pc = "waiting" => call'[c].task = tracked
        /\ \A d \in Client \ {c} : call'[d] = call[d]
    <3>1. call[c].op \in Op /\ call[c].found \in BOOLEAN
      BY <1>1 DEF TypeOK, CallRecord
    <3> QED
      BY <1>1, <1>5, <3>1, CancelledCall DEF CancelStrikes
  <2>5. \A p \in Pipe : Alive(p)' => p = tracked /\ p = tracked'
    <3>1. CASE Tracked
      <4>1. tracked \in Pipe /\ Struck(tracked)
        BY <1>1, <2>1, <3>1 DEF TypeOK, Tracked, Strikes
      <4> QED
        BY <1>1, <2>3, <4>1, StruckAlive
    <3>2. CASE ~Tracked
      BY <2>1, <2>3, <3>2 DEF Strikes, Alive
    <3> QED
      BY <3>1, <3>2
  <2>6. DeletesAlone(c)'
    BY <2>4, <2>5 DEF DeletesAlone
  <2>7. AloneInv'
    BY <1>2, <2>3, <2>4, <2>5, <2>6, AloneNow
  <2> QED
    BY <1>2, <2>2, <2>7 DEF GoneInv
<1>6. CASE ~alone'
  BY <1>6 DEF AloneInv, GoneInv
<1> QED
  BY <1>3, <1>4, <1>5, <1>6 DEF CancelStep

LEMMA DeleteDeletion ==
    ASSUME DeletionInv, NEW c \in Client, DeleteBegins(c) \/ DeleteStep(c)
    PROVE  AloneInv' /\ GoneInv'
<1> USE DEF callOthers
<1>1. TypeOK /\ AloneInv /\ GoneInv
  BY DEF DeletionInv, TypeInv
<1>2. ASSUME DeleteBegins(c), alone'
      PROVE  AloneInv' /\ GoneInv'
  <2> DEFINE record == [Idle EXCEPT !.op = "delete", !.pc = "checking", !.found = active # 0]
  <2>1. /\ ~answered => NobodyElse(c)
        /\ answered => alone
        /\ ~Tracked /\ UNCHANGED <<active, row, approvals, pipe, tracked, daemon, answered>>
    BY <1>1, <1>2, Arriving DEF DeleteBegins
  <2>2. record.pc = "checking" /\ record.found = (active # 0)
    BY DEF Idle
  <2>3. call' = [call EXCEPT ![c] = record]
    BY <1>2 DEF DeleteBegins
  <2> HIDE DEF record
  <2>4. /\ call'[c].pc = "checking" /\ call'[c].found = (active # 0)
        /\ \A d \in Client \ {c} : call'[d] = call[d]
    BY <1>1, <2>2, <2>3 DEF TypeOK
  <2>5. AloneInv'
    <3>1. CASE answered
      BY <2>1, <3>1 DEF AloneInv
    <3>2. CASE ~answered
      <4>1. daemon' = NoTick /\ \A d \in Client \ {c} : call'[d].pc = "idle"
        BY <2>1, <2>4, <3>2, Records DEF NobodyElse
      <4>2. NoneAlive'
        BY <2>1, <3>2, Numbers DEF NobodyElse, NoneAlive, Alive, Tracked
      <4>3. DeletesAlone(c)'
        BY <2>4, <4>2 DEF DeletesAlone
      <4> QED
        BY <4>1, <4>2, <4>3, AloneNow DEF NoneAlive
    <3> QED
      BY <3>1, <3>2
  <2>6. GoneInv'
    <3>1. CASE answered
      <4>1. /\ active = 0 /\ row = "none" /\ ~approvals /\ NoneAlive /\ daemon.pc # "read"
            /\ \A d \in Client :
                  /\ call[d].pc \in {"idle", "reading", "looking", "checking"}
                  /\ call[d].pc = "checking" => ~call[d].found
        BY <1>1, <2>1, <3>1 DEF GoneInv
      <4>2. NoneAlive'
        BY <2>1, <4>1 DEF NoneAlive, Alive
      <4> QED
        BY <2>1, <2>4, <4>1, <4>2 DEF GoneInv
    <3>2. CASE ~answered
      BY <2>1, <3>2 DEF GoneInv
    <3> QED
      BY <3>1, <3>2
  <2> QED
    BY <2>5, <2>6
<1>3. ASSUME DeleteStep(c), alone', answered
      PROVE  AloneInv' /\ GoneInv'
  <2>1. alone /\ UNCHANGED daemon
    BY <1>3 DEF DeleteStep, DeleteWaited, DeleteTimesOut, DeleteChecks, DeletePops, DeleteRow,
                DeleteApprovals, Disturbs
  <2>2. /\ active = 0 /\ row = "none" /\ ~approvals /\ NoneAlive /\ daemon.pc # "read"
        /\ \A d \in Client :
              /\ call[d].pc \in {"idle", "reading", "looking", "checking"}
              /\ call[d].pc = "checking" => ~call[d].found
    BY <1>1, <1>3, <2>1 DEF GoneInv
  <2>3. DeleteChecks(c) /\ call[c].pc = "checking"
    BY <1>3, <2>2 DEF DeleteStep, DeleteWaited, DeleteTimesOut, DeleteChecks, DeletePops, DeleteRow,
                      DeleteApprovals, Busy
  <2>4. Ends(c) /\ UNCHANGED <<active, row, approvals, pipe, answered>>
    BY <2>2, <2>3 DEF DeleteChecks
  <2>5. call'[c].pc = "idle" /\ \A d \in Client \ {c} : call'[d] = call[d]
    BY <1>1, <2>4, EndsType, Records DEF CallKept
  <2>6. NoneAlive'
    BY <2>2, <2>4 DEF NoneAlive, Alive
  <2> QED
    BY <1>3, <2>1, <2>2, <2>4, <2>5, <2>6 DEF AloneInv, GoneInv
<1>4. ASSUME DeleteStep(c), alone', ~answered
      PROVE  AloneInv' /\ GoneInv'
  <2>1. alone /\ call[c].pc # "idle" /\ ~DeleteTimesOut(c) /\ UNCHANGED daemon
    BY <1>4 DEF DeleteStep, DeleteWaited, DeleteTimesOut, DeleteChecks, DeletePops, DeleteRow,
                DeleteApprovals, Disturbs, Busy
  <2>2. /\ DeletesAlone(c) /\ daemon' = NoTick /\ \A p \in Pipe : Alive(p) => p = tracked
        /\ \A d \in Client \ {c} : call[d].pc = "idle"
    BY <1>1, <1>4, <2>1, OthersIdle
  <2>3. NoneAlive
    <3>1. CASE DeleteWaited(c)
      BY <2>2, <3>1, Numbers DEF DeleteWaited, Busy, DeletesAlone, PipelineOver, NoneAlive
    <3>2. CASE ~DeleteWaited(c)
      BY <1>4, <2>1, <2>2, <3>2 DEF DeleteStep, DeleteChecks, DeletePops, DeleteRow,
                                    DeleteApprovals, Busy, DeletesAlone
    <3> QED
      BY <3>1, <3>2
  <2>4. UNCHANGED pipe /\ NoneAlive'
    <3>1. UNCHANGED pipe
      BY <1>4, <2>3 DEF DeleteStep, DeleteWaited, DeleteTimesOut, DeleteChecks, DeletePops,
                        DeleteRow, DeleteApprovals, NoneAlive, Alive, At
    <3> QED
      BY <2>3, <3>1 DEF NoneAlive, Alive
  <2>5. CASE DeleteApprovals(c)
    <3>1. /\ approvals' = FALSE /\ answered' = TRUE /\ UNCHANGED <<active, row>>
          /\ active = 0 /\ row = "none"
      BY <2>2, <2>5 DEF DeleteApprovals, Busy, DeletesAlone
    <3>2. call'[c].pc = "idle" /\ \A d \in Client \ {c} : call'[d] = call[d]
      BY <1>1, <2>5, EndsType, Records DEF DeleteApprovals, CallKept
    <3>3. \A d \in Client : call'[d].pc = "idle"
      BY <2>2, <3>2
    <3> QED
      BY <2>2, <2>4, <3>1, <3>3 DEF AloneInv, GoneInv, NoTick
  <2>6. CASE ~DeleteApprovals(c)
    <3>1. UNCHANGED answered
      BY <1>4, <2>6 DEF DeleteStep, DeleteWaited, DeleteTimesOut, DeleteChecks, DeletePops, DeleteRow
    <3>2. PICK pc \in {"checking", "popping", "deleting", "clearing", "idle"} :
              Moves(c, pc) \/ (pc = "idle" /\ Ends(c))
      BY <1>4, <2>6 DEF DeleteStep, DeleteWaited, DeleteTimesOut, DeleteChecks, DeletePops, DeleteRow
    <3>3. call'[c].pc = pc /\ \A d \in Client \ {c} : call'[d] = call[d]
      BY <1>1, <3>2, CallMoves, EndsType, Records DEF CallPlace, CallKept
    <3>4. call'[c].pc \in {"deleting", "clearing"} => active' = 0
      <4>1. CASE DeletePops(c)
        BY <4>1 DEF DeletePops
      <4>2. CASE DeleteRow(c)
        BY <2>2, <4>2 DEF DeleteRow, Busy, DeletesAlone
      <4>3. CASE DeleteWaited(c) \/ DeleteChecks(c)
        <5>1. Moves(c, "checking") \/ Moves(c, "popping") \/ Ends(c)
          BY <4>3 DEF DeleteWaited, DeleteChecks
        <5>2. call'[c].pc \in {"checking", "popping", "idle"}
          BY <1>1, <5>1, CallMoves, EndsType, Records DEF CallPlace
        <5> QED
          BY <5>2
      <4> QED
        BY <1>4, <2>1, <2>6, <4>1, <4>2, <4>3 DEF DeleteStep
    <3>5. call'[c].pc = "clearing" => row' = "none"
      <4>1. CASE DeleteRow(c)
        BY <4>1 DEF DeleteRow
      <4>2. CASE DeleteWaited(c) \/ DeleteChecks(c) \/ DeletePops(c)
        <5>1. Moves(c, "checking") \/ Moves(c, "popping") \/ Moves(c, "deleting") \/ Ends(c)
          BY <4>2 DEF DeleteWaited, DeleteChecks, DeletePops
        <5>2. call'[c].pc \in {"checking", "popping", "deleting", "idle"}
          BY <1>1, <5>1, CallMoves, EndsType, Records DEF CallPlace
        <5> QED
          BY <5>2
      <4> QED
        BY <1>4, <2>1, <2>6, <4>1, <4>2 DEF DeleteStep
    <3>6. DeletesAlone(c)'
      BY <2>4, <3>3, <3>4, <3>5 DEF DeletesAlone
    <3>7. AloneInv'
      BY <2>2, <2>4, <3>3, <3>6, AloneNow DEF NoneAlive
    <3> QED
      BY <1>4, <3>1, <3>7 DEF GoneInv
  <2> QED
    BY <2>5, <2>6
<1>5. CASE ~alone'
  BY <1>5 DEF AloneInv, GoneInv
<1> QED
  BY <1>2, <1>3, <1>4, <1>5

LEMMA DeletionStep == DeletionInv /\ [Next]_vars => DeletionInv'
<1> SUFFICES ASSUME DeletionInv, [Next]_vars PROVE DeletionInv'
  OBVIOUS
<1>1. TypeInv'
  BY TypeStep DEF DeletionInv
<1>2. CASE UNCHANGED vars
  BY <1>1, <1>2 DEF vars, DeletionInv, AloneInv, GoneInv, DeletesAlone, NoneAlive, Alive
<1>3. CASE Next
  BY <1>1, <1>3, PipeDeletion, ReplyDeletion, CancelDeletion, DeleteDeletion, DaemonDeletion
     DEF Next, DeletionInv
<1> QED
  BY <1>2, <1>3

\* runtime_manager.py:602 - a run that delete_run has deleted while nobody else was at it stays
\* deleted, whatever clients and the daemon ask for afterwards and in whatever order.
THEOREM DeletionCorrect == Spec => []DeletedStaysDeleted
<1>1. DeletionInv => DeletedStaysDeleted
  BY DEF DeletionInv, GoneInv, DeletedStaysDeleted, NoneAlive
<1> QED
  BY DeletionInit, DeletionStep, <1>1, PTL DEF Spec
=============================================================================
