--------------------------- MODULE RecorderProofs ----------------------------
(***************************************************************************)
(* Proofs about Recorder, for any transactions, resources and lines: the    *)
(* rows are well typed, and status and events tell the same story.  Both    *)
(* are about one row at a time: what follows shows that every way to change *)
(* a row keeps them.                                                        *)
(***************************************************************************)
EXTENDS Recorder, TLAPS

\* The part of the invariant about status and events, for one row.
Told(t) ==
  \A i \in Telling(t) :
    (\A j \in Telling(t) : j <= i) => t.status \in Tells[t.events[i].type]

RowInv(t) == t \in Transaction /\ Told(t)

IInv == TypeOK /\ \A u \in TxUid : RowInv(tx[u])

-----------------------------------------------------------------------------
(* Events.                                                                  *)

\* Appending an event keeps the events there are, and keeps a row a row.
LEMMA AddEventTyped ==
  ASSUME NEW t \in Transaction, NEW e \in EventType, NEW n \in RM \cup {Server}
  PROVE  /\ AddEvent(t, e, n) \in Transaction
         /\ AddEvent(t, e, n).status = t.status
         /\ AddEvent(t, e, n).participants = t.participants
         /\ AddEvent(t, e, n).events = Append(t.events, [type |-> e, entity |-> n])
<1>1. Append(t.events, [type |-> e, entity |-> n]) \in Seq(Event)
  BY DEF Transaction, Event
<1> QED
  BY <1>1 DEF AddEvent, Transaction

\* It is a further telling event if it tells of a status, and no other changes.
LEMMA AddEventTelling ==
  ASSUME NEW t \in Transaction, NEW e \in EventType, NEW n \in RM \cup {Server}
  PROVE  /\ \A i : i \in Telling(AddEvent(t, e, n)) <=>
                   \/ i \in Telling(t)
                   \/ i = Len(t.events) + 1 /\ n = Server /\ e \in DOMAIN Tells
         /\ \A i \in Telling(t) : i \in Nat /\ i <= Len(t.events)
         /\ \A i \in Telling(t) : AddEvent(t, e, n).events[i] = t.events[i]
         /\ AddEvent(t, e, n).events[Len(t.events) + 1] = [type |-> e, entity |-> n]
         /\ Len(t.events) \in Nat
<1> DEFINE v == [type |-> e, entity |-> n]
           d == DOMAIN Tells
<1>1. AddEvent(t, e, n).events = Append(t.events, v)
  BY AddEventTyped
<1>2. t.events \in Seq(Event) /\ v \in Event
  BY DEF Transaction, Event
<1>3. v.type = e /\ v.entity = n
  OBVIOUS
<1> HIDE DEF v, d
<1>4. /\ Len(t.events) \in Nat
      /\ \A i \in DOMAIN t.events : i \in Nat /\ i <= Len(t.events)
      /\ \A i \in DOMAIN t.events : Append(t.events, v)[i] = t.events[i]
      /\ Append(t.events, v)[Len(t.events) + 1] = v
      /\ \A i : i \in DOMAIN Append(t.events, v) <=>
                i \in DOMAIN t.events \/ i = Len(t.events) + 1
  BY <1>2
<1>5. \A s, i : i \in Telling(s) <=>
                 i \in DOMAIN s.events /\ s.events[i].entity = Server /\ s.events[i].type \in d
  BY DEF Telling, d
<1>6. \A i : i \in Telling(AddEvent(t, e, n)) <=>
               \/ i \in Telling(t)
               \/ i = Len(t.events) + 1 /\ n = Server /\ e \in d
  BY <1>1, <1>3, <1>4, <1>5
<1> QED
  BY <1>1, <1>4, <1>5, <1>6 DEF v, d

\* An event that tells of no status, or is of a resource, keeps a row sound.
LEMMA AddEventKeeps ==
  ASSUME NEW t, RowInv(t), NEW e \in EventType, NEW n \in RM \cup {Server},
         n # Server \/ e \notin DOMAIN Tells
  PROVE  RowInv(AddEvent(t, e, n))
<1>1. t \in Transaction
  BY DEF RowInv
<1>2. \A i : i \in Telling(AddEvent(t, e, n)) <=> i \in Telling(t)
  BY <1>1, AddEventTelling
<1>3. \A i \in Telling(t) : AddEvent(t, e, n).events[i] = t.events[i]
  BY <1>1, AddEventTelling
<1> QED
  BY <1>1, <1>2, <1>3, AddEventTyped DEF RowInv, Told

\* An event of the transaction itself makes a row sound that has a status it
\* tells of, whatever the row told before: it is the last one.
LEMMA AddEventTells ==
  ASSUME NEW t \in Transaction, NEW e \in EventType, e \in DOMAIN Tells,
         t.status \in Tells[e]
  PROVE  RowInv(AddEvent(t, e, Server))
<1> DEFINE u == AddEvent(t, e, Server)
           last == Len(t.events) + 1
<1>1. Server \in RM \cup {Server}
  OBVIOUS
<1>2. u \in Transaction /\ u.status = t.status
  BY <1>1, AddEventTyped
<1>3. /\ \A i : i \in Telling(u) <=> i \in Telling(t) \/ i = last
      /\ \A i \in Telling(t) : i \in Nat /\ i <= Len(t.events)
      /\ u.events[last] = [type |-> e, entity |-> Server]
      /\ Len(t.events) \in Nat
  BY <1>1, AddEventTelling, Zenon
<1>4. \A i \in Telling(u) : i \in Nat /\ (i >= last => i = last)
  BY <1>3
<1> HIDE DEF u
<1>5. last \in Telling(u) /\ last \in Nat /\ u.events[last].type = e
  BY <1>3
<1> HIDE DEF last
<1>6. ASSUME NEW i \in Telling(u), \A j \in Telling(u) : j <= i
      PROVE  u.status \in Tells[u.events[i].type]
  <2>1. last \in Nat /\ last <= i /\ i \in Nat
    BY <1>4, <1>5, <1>6
  <2>2. i = last
    BY <1>4, <2>1
  <2> QED
    BY <1>2, <1>5, <2>2
<1>7. RowInv(u)
  BY <1>2, <1>6 DEF RowInv, Told
<1> QED
  BY <1>7 DEF u

-----------------------------------------------------------------------------
(* The other changes of a row.                                              *)

\* Soundness is about status and events only.
LEMMA SameEventsKeep ==
  ASSUME NEW t, RowInv(t), NEW s \in Transaction,
         s.status = t.status, s.events = t.events
  PROVE  RowInv(s)
<1>1. Telling(s) = Telling(t)
  BY DEF Telling
<1> QED
  BY <1>1 DEF RowInv, Told

\* A new row is sound, and so is one that is not there.
LEMMA NewTransactionSound ==
  RowInv(NewTransaction) /\ RowInv(NoTransaction)
<1> DEFINE e == [type |-> "BEGIN", entity |-> Server]
<1>1. e \in Event /\ <<e>> \in Seq(Event) /\ <<>> \in Seq(Event)
  BY DEF Event, EventType
<1>2. <<>> \in Seq(Participant)
  OBVIOUS
<1>3. NewTransaction \in Transaction
  BY <1>1, <1>2 DEF NewTransaction, Transaction, Status
<1>4. NoTransaction \in Transaction
  BY <1>1, <1>2 DEF NoTransaction, Transaction, Status
<1>5. Told(NewTransaction)
  <2>1. ASSUME NEW i \in Telling(NewTransaction)
        PROVE  NewTransaction.events[i] = e
    BY DEF Telling, NewTransaction
  <2>2. NewTransaction.status \in Tells[e.type]
    BY DEF NewTransaction, Tells
  <2> QED
    BY <2>1, <2>2 DEF Told
<1>6. Told(NoTransaction)
  BY DEF Told, Telling, NoTransaction
<1> QED
  BY <1>3, <1>4, <1>5, <1>6 DEF RowInv

\* Another status, for a moment without its event.
LEMMA StatusTyped ==
  ASSUME NEW t \in Transaction, NEW s \in Status, NEW b \in BOOLEAN
  PROVE  /\ [t EXCEPT !.status = s, !.ended = @ \/ b] \in Transaction
         /\ [t EXCEPT !.status = s, !.ended = @ \/ b].status = s
BY DEF Transaction

\* setStatus() of the entity, for the statuses that come with an event.
LEMMA SetStatusKeeps ==
  ASSUME NEW t, RowInv(t), NEW s \in EventfulStatus
  PROVE  RowInv(SetStatus(t, s))
<1> DEFINE v == [t EXCEPT !.status = s, !.ended = @ \/ s \in EndingStatus]
<1>1. s \in Status /\ t \in Transaction
  BY DEF EventfulStatus, Status, RowInv
<1>2. v \in Transaction /\ v.status = s
  BY <1>1, StatusTyped
<1>3. SetStatus(t, s) = AddEvent(v, StatusEvent(s), Server)
  BY DEF SetStatus
<1>4. StatusEvent(s) \in EventType
  BY DEF EventfulStatus, StatusEvent, EventType
<1>5. StatusEvent(s) \in DOMAIN Tells /\ s \in Tells[StatusEvent(s)]
  BY DEF EventfulStatus, StatusEvent, Tells
<1> HIDE DEF v
<1> QED
  BY <1>2, <1>3, <1>4, <1>5, AddEventTells

\* setStatus() of HandlerService: of phase two of what is not prepared only a
\* replay is recorded, which tells nothing.
LEMMA AfterSetStatusKeeps ==
  ASSUME NEW t, RowInv(t), NEW s \in EventfulStatus
  PROVE  RowInv(AfterSetStatus(t, s))
<1>1. "REPLAY_PHASE2" \in EventType /\ "REPLAY_PHASE2" \notin DOMAIN Tells
  BY DEF EventType, Tells
<1>2. RowInv(AddEvent(t, "REPLAY_PHASE2", Server))
  BY <1>1, AddEventKeeps
<1> QED
  BY <1>2, SetStatusKeeps DEF AfterSetStatus

\* end() writes the status first and its event after: only the two together keep
\* a row sound.
LEMMA AfterEndKeeps ==
  ASSUME NEW t, RowInv(t), NEW a \in ActionStatus
  PROVE  RowInv(AfterEnd(t, a))
<1> DEFINE s == EndStatus(a)
           v == [t EXCEPT !.status = s, !.ended = @ \/ s \in EndingStatus]
<1>1. s \in Status /\ s \notin EventfulStatus
  BY DEF ActionStatus, EndStatus, Status, EventfulStatus
<1>2. EndEvent(a) \in EventType
  BY DEF ActionStatus, EndEvent, EndStatus, EventType
<1>3. EndEvent(a) \in DOMAIN Tells /\ s \in Tells[EndEvent(a)]
  BY DEF ActionStatus, EndEvent, EndStatus, Tells
<1>4. v \in Transaction /\ v.status = s
  BY <1>1, StatusTyped DEF RowInv
<1>5. AfterEnd(t, a) = AddEvent(v, EndEvent(a), Server)
  BY <1>1 DEF AfterEnd, SetStatus
<1> HIDE DEF v, s
<1> QED
  BY <1>2, <1>3, <1>4, <1>5, AddEventTells

\* A participant is added with the event of its resource.
LEMMA AddParticipantKeeps ==
  ASSUME NEW t, RowInv(t), NEW rm \in RM, NEW id \in RmUid \cup {NoRmUid}
  PROVE  RowInv(AddParticipant(t, rm, id))
<1> DEFINE p == [rm |-> rm, rmuid |-> id, vote |-> "UNKNOWN", xaException |-> FALSE]
           v == [t EXCEPT !.participants = Append(@, p)]
<1>1. p \in Participant
  BY DEF Participant, Vote
<1>2. t \in Transaction /\ Append(t.participants, p) \in Seq(Participant)
  BY <1>1 DEF RowInv, Transaction
<1>3. v \in Transaction /\ v.status = t.status /\ v.events = t.events
  BY <1>2 DEF Transaction
<1>4. AddParticipant(t, rm, id) = AddEvent(v, "ENLIST", rm)
  BY DEF AddParticipant
<1> HIDE DEF v
<1>5. RowInv(v)
  BY <1>3, SameEventsKeep
<1>6. rm # Server /\ "ENLIST" \in EventType
  BY RecorderAssumption DEF EventType
<1> QED
  BY <1>4, <1>5, <1>6, AddEventKeeps

\* Votes and exceptions are written to a participant, and nothing else.
LEMMA VotesKeep ==
  ASSUME NEW t, RowInv(t), NEW i \in DOMAIN t.participants, NEW v \in Vote
  PROVE  /\ RowInv(SetVote(t, i, v))
         /\ RowInv(Blame(t, i))
         /\ DOMAIN SetVote(t, i, v).participants = DOMAIN t.participants
<1> DEFINE p == t.participants[i]
           votes == [t.participants EXCEPT ![i] = [p EXCEPT !.vote = v]]
           blames == [t.participants EXCEPT ![i] = [p EXCEPT !.xaException = TRUE]]
<1>1. t \in Transaction /\ t.participants \in Seq(Participant) /\ p \in Participant
  BY DEF RowInv, Transaction
<1>2. [p EXCEPT !.vote = v] \in Participant /\ [p EXCEPT !.xaException = TRUE] \in Participant
  BY <1>1 DEF Participant
<1>3. votes \in Seq(Participant) /\ blames \in Seq(Participant)
  BY <1>1, <1>2
<1>4. /\ SetVote(t, i, v) = [t EXCEPT !.participants = votes]
      /\ Blame(t, i) = [t EXCEPT !.participants = blames]
  BY <1>1 DEF SetVote, Blame, Transaction
<1>5. DOMAIN votes = DOMAIN t.participants
  BY <1>1
<1> HIDE DEF votes, blames
<1>6. /\ SetVote(t, i, v) \in Transaction /\ SetVote(t, i, v).status = t.status
      /\ SetVote(t, i, v).events = t.events
      /\ SetVote(t, i, v).participants = votes
  BY <1>1, <1>3, <1>4 DEF Transaction
<1>7. /\ Blame(t, i) \in Transaction /\ Blame(t, i).status = t.status
      /\ Blame(t, i).events = t.events
  BY <1>1, <1>3, <1>4 DEF Transaction
<1> QED
  BY <1>5, <1>6, <1>7, SameEventsKeep

\* The entity of a participant's event is a resource.
LEMMA ParticipantRM ==
  ASSUME NEW t, RowInv(t), NEW i \in DOMAIN t.participants
  PROVE  t.participants[i].rm \in RM /\ t.participants[i].rm # Server
<1>1. t.participants \in Seq(Participant)
  BY DEF RowInv, Transaction
<1>2. t.participants[i] \in Participant
  BY <1>1
<1> QED
  BY <1>2, RecorderAssumption DEF Participant

\* An outcome adds an event of the resource and perhaps a vote.
LEMMA AfterOutcomeKeeps ==
  ASSUME NEW t, RowInv(t), NEW i \in DOMAIN t.participants, NEW o \in TwoPhaseOutcome
  PROVE  RowInv(AfterOutcome(t, i, o))
<1>1. RowInv(AfterVote(t, i, o))
  <2>1. RowInv(SetVote(t, i, "COMMIT")) /\ RowInv(SetVote(t, i, "ABORT"))
    BY VotesKeep DEF Vote
  <2> QED
    BY <2>1 DEF AfterVote
<1>2. OutcomeEvent(o) \in EventType
  BY DEF OutcomeEvent, TwoPhaseOutcome, EventType
<1>3. t.participants[i].rm \in RM /\ t.participants[i].rm # Server
  BY ParticipantRM
<1> QED
  BY <1>1, <1>2, <1>3, AddEventKeeps DEF AfterOutcome

-----------------------------------------------------------------------------
(* The steps.                                                               *)

\* Nothing is recorded to begin with.
LEMMA InitIInv == Init => IInv
BY NewTransactionSound DEF Init, IInv, TypeOK, RowInv

\* A handler that puts a sound row in the place of one keeps the invariant.
LEMMA UpdateKeeps ==
  ASSUME IInv, NEW u \in TxUid, NEW t, RowInv(t), Update(u, t)
  PROVE  IInv'
<1>1. t \in Transaction
  BY DEF RowInv
<1>2. TypeOK'
  BY <1>1 DEF IInv, TypeOK, Update
<1>3. ASSUME NEW v \in TxUid
      PROVE  RowInv(tx'[v])
  BY DEF IInv, TypeOK, Update
<1> QED
  BY <1>2, <1>3 DEF IInv

\* A line that is lost changes nothing.
LEMMA LostKeeps == IInv /\ UNCHANGED dbVars => IInv'
<1> SUFFICES ASSUME IInv, UNCHANGED dbVars PROVE IInv'
  OBVIOUS
<1>1. rows' = rows /\ tx' = tx /\ linked' = linked /\ managers' = managers
  BY DEF dbVars
<1> QED
  BY <1>1 DEF IInv, TypeOK

\* A line about a transaction that has no row, or several, is lost.
LEMMA OnTransactionKeeps ==
  ASSUME IInv, NEW u \in TxUid, NEW t, RowInv(t), OnTransaction(u, t)
  PROVE  IInv'
BY UpdateKeeps, LostKeeps DEF OnTransaction, Lost

\* Lines about the status of a transaction.
LEMMA StatusLineKeeps ==
  ASSUME IInv, NEW u \in TxUid,
         \/ Prepare(u) \/ Phase2Commit(u) \/ OnePhaseCommit(u) \/ Abort(u)
         \/ Phase2Abort(u) \/ TxPrepareFailed(u)
         \/ \E a \in ActionStatus : End(u, a)
  PROVE  IInv'
<1>1. RowInv(tx[u])
  BY DEF IInv
<1>2. ASSUME NEW s \in EventfulStatus, RecordStatus(u, s) PROVE IInv'
  BY <1>1, <1>2, AfterSetStatusKeeps, OnTransactionKeeps DEF RecordStatus
<1>3. CASE Prepare(u) \/ Phase2Commit(u) \/ OnePhaseCommit(u) \/ Abort(u) \/ Phase2Abort(u)
  BY <1>2, <1>3 DEF Prepare, Phase2Commit, OnePhaseCommit, Abort, Phase2Abort,
     EventfulStatus
<1>4. CASE TxPrepareFailed(u)
  <2>1. "PREPARE_FAILED" \in EventType /\ "PREPARE_FAILED" \notin DOMAIN Tells
    BY DEF EventType, Tells
  <2>2. RowInv(AddEvent(tx[u], "PREPARE_FAILED", Server))
    BY <1>1, <2>1, AddEventKeeps
  <2> QED
    BY <1>4, <2>2, OnTransactionKeeps DEF TxPrepareFailed
<1>5. ASSUME NEW a \in ActionStatus, End(u, a) PROVE IInv'
  BY <1>1, <1>5, AfterEndKeeps, OnTransactionKeeps DEF End
<1> QED
  BY <1>3, <1>4, <1>5

\* begin() writes a new row, and only where there was none.
LEMMA BeginKeeps ==
  ASSUME IInv, NEW u \in TxUid, Begin(u)
  PROVE  IInv'
<1>1. NewTransaction \in Transaction /\ RowInv(NewTransaction)
  BY NewTransactionSound DEF RowInv
<1>2. TypeOK'
  BY <1>1 DEF IInv, TypeOK, Begin
<1>3. ASSUME NEW v \in TxUid PROVE RowInv(tx'[v])
  BY <1>1 DEF IInv, TypeOK, Begin
<1> QED
  BY <1>2, <1>3 DEF IInv

\* cleanup() leaves no row, and a changed hierarchy leaves the row alone.
LEMMA CleanupKeeps ==
  ASSUME IInv, NEW u \in TxUid, Cleanup(u) \/ ChangeHierarchy(u)
  PROVE  IInv'
<1>1. NoTransaction \in Transaction /\ RowInv(NoTransaction)
  BY NewTransactionSound DEF RowInv
<1>2. CASE Cleanup(u) /\ ~Lost
  <2>1. /\ rows' = [rows EXCEPT ![u] = 0]
        /\ tx' = [tx EXCEPT ![u] = NoTransaction]
        /\ UNCHANGED <<linked, managers>>
    BY <1>2 DEF Cleanup
  <2>2. TypeOK'
    BY <1>1, <2>1 DEF IInv, TypeOK
  <2>3. ASSUME NEW v \in TxUid PROVE RowInv(tx'[v])
    BY <1>1, <2>1 DEF IInv, TypeOK
  <2> QED
    BY <2>2, <2>3 DEF IInv
<1>3. CASE Lost
  BY <1>3, LostKeeps DEF Lost
<1>4. CASE ChangeHierarchy(u)
  BY <1>4 DEF ChangeHierarchy, IInv, TypeOK
<1> QED
  BY <1>2, <1>3, <1>4

\* The row of a resource manager is of no account.
LEMMA ManagerKeeps ==
  ASSUME IInv, NEW rm \in RM, InsertManager(rm)
  PROVE  IInv'
BY DEF InsertManager, IInv, TypeOK

\* Lines that enlist a participant, also when another node wins the race for
\* the row of its resource manager.
LEMMA EnlistKeeps ==
  ASSUME IInv, NEW u \in TxUid, NEW rm \in RM, NEW id \in RmUid \cup {NoRmUid},
         Enlist(u, rm, id)
  PROVE  IInv'
<1> DEFINE t == AddParticipant(tx[u], rm, id)
<1>1. RowInv(t) /\ t \in Transaction
  BY AddParticipantKeeps DEF IInv, RowInv
<1> HIDE DEF t
<1>2. CASE Lost
  BY <1>2, LostKeeps DEF Lost
<1>3. CASE InsertManager(rm)
  BY <1>3, ManagerKeeps
<1>4. CASE /\ managers' = managers \cup {rm}
           /\ tx' = [tx EXCEPT ![u] = t]
           /\ UNCHANGED <<rows, linked>>
  <2>1. TypeOK'
    BY <1>1, <1>4 DEF IInv, TypeOK
  <2>2. ASSUME NEW v \in TxUid PROVE RowInv(tx'[v])
    BY <1>1, <1>4 DEF IInv, TypeOK
  <2> QED
    BY <2>1, <2>2 DEF IInv
<1> QED
  BY <1>2, <1>3, <1>4 DEF Enlist, t

\* Lines that enlist a participant with an rmuid may be refused altogether.
LEMMA EnlistJTSKeeps ==
  ASSUME IInv, NEW u \in TxUid, NEW rm \in RM, NEW id \in RmUid,
         EnlistResourceManagerJTS(u, rm, id)
  PROVE  IInv'
BY EnlistKeeps, LostKeeps, ManagerKeeps DEF EnlistResourceManagerJTS, Lost

\* Lines about the vote of a JTA participant, found by name.
LEMMA ResourceVoteKeeps ==
  ASSUME IInv, NEW u \in TxUid, NEW rm \in RM,
         ResourcePreparedJTA(u, rm) \/ ResourceFailedToPrepareJTA(u, rm)
  PROVE  IInv'
<1>1. ASSUME NEW i \in ByName(u, rm)
      PROVE  RowInv(SetVote(tx[u], i, "COMMIT")) /\ RowInv(VoteAgainst(tx[u], i))
  <2>1. RowInv(tx[u]) /\ i \in DOMAIN tx[u].participants
    BY DEF IInv, ByName
  <2>2. /\ RowInv(SetVote(tx[u], i, "COMMIT")) /\ RowInv(SetVote(tx[u], i, "ABORT"))
        /\ i \in DOMAIN SetVote(tx[u], i, "ABORT").participants
    BY <2>1, VotesKeep DEF Vote
  <2>3. RowInv(Blame(SetVote(tx[u], i, "ABORT"), i))
    BY <2>2, VotesKeep DEF Vote
  <2> QED
    BY <2>2, <2>3 DEF VoteAgainst
<1>2. CASE ResourcePreparedJTA(u, rm)
  BY <1>1, <1>2, UpdateKeeps, LostKeeps DEF ResourcePreparedJTA, Lost
<1>3. CASE ResourceFailedToPrepareJTA(u, rm)
  BY <1>1, <1>3, UpdateKeeps, LostKeeps DEF ResourceFailedToPrepareJTA, Lost
<1> QED
  BY <1>2, <1>3

\* Lines about a JTS participant, found by its rmuid.
LEMMA ResourceLineKeeps ==
  ASSUME IInv, NEW id \in RmUid,
         \/ \E e \in {"PREPARE", "COMMIT", "ABORT"} : ResourceStatusBeginJTS(id, e)
         \/ \E o \in TwoPhaseOutcome : ResourceStatusOutcomeJTS(id, o)
         \/ ResourceThrewException(id)
  PROVE  IInv'
<1>1. ASSUME NEW u \in TxUid, NEW i \in ByRmUid(u, id)
      PROVE  /\ RowInv(tx[u]) /\ i \in DOMAIN tx[u].participants
             /\ tx[u].participants[i].rm \in RM /\ tx[u].participants[i].rm # Server
  BY ParticipantRM DEF IInv, ByRmUid
<1>2. ASSUME NEW e \in {"PREPARE", "COMMIT", "ABORT"}, ResourceStatusBeginJTS(id, e)
      PROVE  IInv'
  <2>1. ASSUME NEW u \in TxUid, NEW i \in ByRmUid(u, id)
        PROVE  RowInv(AddEvent(tx[u], e, tx[u].participants[i].rm))
    BY <1>1, <2>1, AddEventKeeps DEF EventType
  <2> QED
    BY <1>2, <2>1, UpdateKeeps, LostKeeps DEF ResourceStatusBeginJTS, Lost
<1>3. ASSUME NEW o \in TwoPhaseOutcome, ResourceStatusOutcomeJTS(id, o)
      PROVE  IInv'
  <2>1. ASSUME NEW u \in TxUid, NEW i \in ByRmUid(u, id)
        PROVE  RowInv(AfterOutcome(tx[u], i, o))
    BY <1>1, <2>1, AfterOutcomeKeeps
  <2> QED
    BY <1>3, <2>1, UpdateKeeps, LostKeeps DEF ResourceStatusOutcomeJTS, Lost
<1>4. CASE ResourceThrewException(id)
  <2>1. ASSUME NEW u \in TxUid, NEW i \in ByRmUid(u, id)
        PROVE  RowInv(Blame(tx[u], i))
    BY <1>1, <2>1, VotesKeep DEF Vote
  <2> QED
    BY <1>4, <2>1, UpdateKeeps, LostKeeps DEF ResourceThrewException, Lost
<1> QED
  BY <1>2, <1>3, <1>4

\* The groups a line has, by its type.
LEMMA LineGroups ==
  ASSUME NEW l \in Line
  PROVE  /\ l.type \in BasicActionLine \cup
                {"prepare_failed", "get_status", "End", "XAResourceRecord",
                 "topLevelPrepare", "XAException", "enlistResource"} => l.txuid \in TxUid
         /\ l.type \in {"XAResourceRecord", "topLevelPrepare", "XAException",
                         "enlistResource"} => l.rm \in RM
         /\ l.type \in {"enlistResource", "topLevel", "doResult", "JTSException"}
              => l.rmuid \in RmUid
         /\ l.type = "End" => l.result \in ActionStatus
         /\ l.type = "topLevel" => l.action \in {"Prepare", "Commit", "Abort"}
         /\ l.type = "doResult" => l.outcome \in TwoPhaseOutcome
BY DEF Line, BasicActionLine

\* Whatever handler takes a line, it keeps the invariant.
LEMMA HandleKeeps ==
  ASSUME IInv, NEW l \in Line, Handle(l)
  PROVE  IInv'
<1>1. CASE BasicActionHandler(l)
  <2>1. l.txuid \in TxUid
    BY <1>1, LineGroups DEF BasicActionHandler, BasicActionLine
  <2> QED
    BY <1>1, <2>1, BeginKeeps, StatusLineKeeps DEF BasicActionHandler
<1>2. CASE TxPrepareFailedHandler(l) \/ TxFinalStatusHandler(l)
  BY <1>2, LineGroups, StatusLineKeeps DEF TxPrepareFailedHandler, TxFinalStatusHandler
<1>3. CASE ArjunaTransactionImpleHandler(l)
  BY <1>3, LineGroups, CleanupKeeps DEF ArjunaTransactionImpleHandler
<1>4. CASE JTACreateResourceRecordHandler(l)
  BY <1>4, LineGroups, EnlistKeeps
     DEF JTACreateResourceRecordHandler, EnlistResourceManagerJTA
<1>5. CASE JTAResourceRecordHandler(l) \/ JTAResourceExceptionHandler(l)
  BY <1>5, LineGroups, ResourceVoteKeeps
     DEF JTAResourceRecordHandler, JTAResourceExceptionHandler
<1>6. CASE JTSCreateResourceRecordHandler(l)
  BY <1>6, LineGroups, EnlistJTSKeeps DEF JTSCreateResourceRecordHandler
<1>7. CASE JTSResourceRecordHandler(l)
  <2>1. l.rmuid \in RmUid /\ ActionEvent[l.action] \in {"PREPARE", "COMMIT", "ABORT"}
    BY <1>7, LineGroups DEF JTSResourceRecordHandler, ActionEvent
  <2> QED
    BY <1>7, <2>1, ResourceLineKeeps DEF JTSResourceRecordHandler
<1>8. CASE JTSResourceStatusChangeHandler(l) \/ JTSResourceExceptionHandler(l)
  BY <1>8, LineGroups, ResourceLineKeeps
     DEF JTSResourceStatusChangeHandler, JTSResourceExceptionHandler
<1> QED
  BY <1>1, <1>2, <1>3, <1>4, <1>5, <1>6, <1>7, <1>8 DEF Handle

\* Every step keeps the invariant.
LEMMA NextIInv == IInv /\ [Next]_dbVars => IInv'
<1> SUFFICES ASSUME IInv, [Next]_dbVars PROVE IInv'
  OBVIOUS
<1>1. CASE UNCHANGED dbVars
  BY <1>1, LostKeeps
<1>2. ASSUME NEW l \in Line, Handle(l) PROVE IInv'
  BY <1>2, HandleKeeps
<1>3. ASSUME NEW u \in TxUid, ChangeHierarchy(u) PROVE IInv'
  BY <1>3, CleanupKeeps
<1> QED
  BY <1>1, <1>2, <1>3 DEF Next

-----------------------------------------------------------------------------
(* The theorems.                                                            *)

\* The invariant holds in every behaviour.
LEMMA Invariance == Spec => []IInv
BY InitIInv, NextIInv, PTL DEF Spec

\* For any transactions, resources and lines the rows are well typed.
THEOREM TypeCorrect == Spec => []TypeOK
<1>1. IInv => TypeOK
  BY DEF IInv
<1> QED
  BY <1>1, Invariance, PTL

\* For any transactions, resources and lines: whatever is lost, repeated or out
\* of order, the status of a row is what the last event of the transaction itself
\* tells of (HandlerService:147-172 and 184-201, Transaction:159-177).
THEOREM StatusToldCorrect == Spec => []StatusTold
<1>1. IInv => StatusTold
  BY DEF IInv, RowInv, Told, StatusTold
<1> QED
  BY <1>1, Invariance, PTL

=============================================================================
