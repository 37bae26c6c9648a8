------------------------------ MODULE Recorder -------------------------------
(***************************************************************************)
(* What HandlerService records about the transactions of one node: status,  *)
(* events, end time and participants, line by line.  Only the node's own    *)
(* monitor writes these, one line at a time, so a handler is one step; what *)
(* several monitors do to the shared hierarchy is the subject of Hierarchy. *)
(*                                                                          *)
(* Lines come in any order and any number: a monitor deployed mid           *)
(* transaction misses the first lines, one that starts over reads lines     *)
(* again, and recovery repeats phase two.  The text of a line is abstracted *)
(* to the handler it selects and the groups that handler passes on.         *)
(***************************************************************************)
EXTENDS Naturals, Sequences, FiniteSets

CONSTANTS
  TxUid,      \* transaction uids on this node
  RM,         \* jndi names of resource managers
  RmUid,      \* uids of JTS resource records
  NoRmUid,    \* the null rmuid of a JTA participant
  Server,     \* the node id: the entity of the events of a transaction itself
  MaxEvents   \* bound: events recorded for a transaction

ASSUME RecorderAssumption ==
  NoRmUid \notin RmUid /\ Server \notin RM /\ MaxEvents \in Nat

VARIABLES
  rows,    \* rows[u]: the number of rows with this node's id and txuid u
  tx,      \* tx[u]: the oldest of these rows, the only one that ever changes
  linked,  \* linked[u]: it has a parent or subordinates (see Hierarchy)
  managers \* rows of ResourceManager, which all the nodes share

dbVars == <<rows, tx, linked, managers>>

Status ==
  {"IN_FLIGHT", "PREPARE", "COMMIT", "COMMITTED", "ONE_PHASE_COMMIT",
   "PHASE_ONE_ABORT", "PHASE_TWO_ABORT", "ABORTED", "HEURISTIC_COMMIT",
   "HEURISTIC_ROLLBACK", "HEURISTIC_MIXED", "HEURISTIC_HAZARD"}

EventType ==
  {"BEGIN", "ENLIST", "PREPARE", "PREPARE_FAILED", "PREPARE_OK", "COMMIT",
   "ABORT", "HEURISTIC_COMMIT", "HEURISTIC_ROLLBACK", "HEURISTIC_MIXED",
   "HEURISTIC_HAZARD", "FINISH_OK", "FINISH_ERROR", "REPLAY_PHASE2"}

Vote == {"UNKNOWN", "COMMIT", "ABORT"}

Event == [type : EventType, entity : RM \cup {Server}]

Participant ==
  [rm : RM, rmuid : RmUid \cup {NoRmUid}, vote : Vote, xaException : BOOLEAN]

Transaction ==
  [status : Status, ended : BOOLEAN, events : Seq(Event),
   participants : Seq(Participant)]

\* Types of the recorded rows.
TypeOK ==
  /\ rows \in [TxUid -> Nat]
  /\ tx \in [TxUid -> Transaction]
  /\ linked \in [TxUid -> BOOLEAN]
  /\ managers \subseteq RM

-----------------------------------------------------------------------------
(* The entity Transaction.                                                  *)

AddEvent(t, type, entity) ==
  [t EXCEPT !.events = Append(@, [type |-> type, entity |-> entity])]

\* Statuses that come with an event of the transaction.
EventfulStatus ==
  {"PREPARE", "COMMIT", "ONE_PHASE_COMMIT", "PHASE_ONE_ABORT", "PHASE_TWO_ABORT"}

StatusEvent(s) ==
  CASE s = "PREPARE" -> "PREPARE"
    [] s \in {"COMMIT", "ONE_PHASE_COMMIT"} -> "COMMIT"
    [] s \in {"PHASE_ONE_ABORT", "PHASE_TWO_ABORT"} -> "ABORT"

\* All of them but PREPARE set the end time.
EndingStatus == EventfulStatus \ {"PREPARE"}

\* Variant with a bug: only the status that ends a commit sets the end time.
SetStatusNoEnd(t, s) ==
  LET u == [t EXCEPT !.status = s, !.ended = @ \/ s = "COMMIT"]
  IN  IF s \in EventfulStatus THEN AddEvent(u, StatusEvent(s), Server) ELSE u

\* Transaction.setStatus()
SetStatus(t, s) ==
  LET u == [t EXCEPT !.status = s, !.ended = @ \/ s \in EndingStatus]
  IN  IF s \in EventfulStatus THEN AddEvent(u, StatusEvent(s), Server) ELSE u

\* new Transaction(txuid, nodeid, timestamp)
NewTransaction ==
  [status |-> "IN_FLIGHT", ended |-> FALSE,
   events |-> <<[type |-> "BEGIN", entity |-> Server]>>, participants |-> <<>>]

NoTransaction ==
  [status |-> "IN_FLIGHT", ended |-> FALSE, events |-> <<>>, participants |-> <<>>]

\* new ParticipantRecord(tx, rm, timestamp), added to the transaction
AddParticipant(t, rm, id) ==
  AddEvent([t EXCEPT !.participants =
              Append(@, [rm |-> rm, rmuid |-> id, vote |-> "UNKNOWN",
                         xaException |-> FALSE])],
           "ENLIST", rm)

-----------------------------------------------------------------------------
(* Queries.                                                                 *)

\* Transaction.findNatural has exactly one answer.  With none, the handler
\* returns or fails on a null; with several, getSingleResult throws.  Either
\* way the line is lost: intercept() swallows the exception.
Found(u) == rows[u] = 1

Lost == UNCHANGED dbVars

Update(u, t) == tx' = [tx EXCEPT ![u] = t] /\ UNCHANGED <<rows, linked, managers>>

OnTransaction(u, t) == IF Found(u) THEN Update(u, t) ELSE Lost

\* Variant with a bug: the query leaves out the name, its first answer is taken.
ByNameFirst(u, rm) == {i \in DOMAIN tx[u].participants : i = 1}

\* ParticipantRecord.findNatural: by transaction and jndi name (JTA)
ByName(u, rm) ==
  {i \in DOMAIN tx[u].participants : tx[u].participants[i].rm = rm}

\* ParticipantRecord.findByRmuid (JTS)
ByRmUid(u, id) ==
  {i \in DOMAIN tx[u].participants : tx[u].participants[i].rmuid = id}

\* ParticipantRecord.setVote() and setXaException()
SetVote(t, i, v) == [t EXCEPT !.participants[i].vote = v]
Blame(t, i) == [t EXCEPT !.participants[i].xaException = TRUE]

-----------------------------------------------------------------------------
(* The methods of HandlerService.                                           *)

\* begin(): nothing keeps a second row for the same transaction out.
Begin(u) ==
  /\ rows' = [rows EXCEPT ![u] = @ + 1]
  /\ tx' = IF rows[u] = 0 THEN [tx EXCEPT ![u] = NewTransaction] ELSE tx
  /\ UNCHANGED <<linked, managers>>

\* Variant with a bug: phase two is recorded whatever the status.
AfterSetStatusAlways(t, s) == SetStatus(t, s)

\* Variant with a bug: what is prepared is taken for a replay.
AfterSetStatusInverted(t, s) ==
  IF s \in {"COMMIT", "PHASE_TWO_ABORT"} /\ t.status = "PREPARE"
  THEN AddEvent(t, "REPLAY_PHASE2", Server)
  ELSE SetStatus(t, s)

\* HandlerService.setStatus(): phase two of what is not prepared is a replay.
AfterSetStatus(t, s) ==
  IF s \in {"COMMIT", "PHASE_TWO_ABORT"} /\ t.status # "PREPARE"
  THEN AddEvent(t, "REPLAY_PHASE2", Server)
  ELSE SetStatus(t, s)

RecordStatus(u, s) == OnTransaction(u, AfterSetStatus(tx[u], s))

Prepare(u) == RecordStatus(u, "PREPARE")
Phase2Commit(u) == RecordStatus(u, "COMMIT")
OnePhaseCommit(u) == RecordStatus(u, "ONE_PHASE_COMMIT")
Abort(u) == RecordStatus(u, "PHASE_ONE_ABORT")
Phase2Abort(u) == RecordStatus(u, "PHASE_TWO_ABORT")

TxPrepareFailed(u) == OnTransaction(u, AddEvent(tx[u], "PREPARE_FAILED", Server))

\* Results of End() that the switch knows; any other leaves the row alone.
ActionStatus ==
  {"COMMITTED", "ABORTED", "H_COMMIT", "H_ROLLBACK", "H_MIXED", "H_HAZARD"}

\* Variant with a bug: the ActionStatus itself is stored.
EndStatusRaw(a) == a

\* end(): the status and the event for an ActionStatus
EndStatus(a) ==
  CASE a = "H_COMMIT" -> "HEURISTIC_COMMIT"
    [] a = "H_ROLLBACK" -> "HEURISTIC_ROLLBACK"
    [] a = "H_MIXED" -> "HEURISTIC_MIXED"
    [] a = "H_HAZARD" -> "HEURISTIC_HAZARD"
    [] OTHER -> a

EndEvent(a) == IF a \in {"COMMITTED", "ABORTED"} THEN "FINISH_OK" ELSE EndStatus(a)

\* Variant with a bug: the status is left as it is.
AfterEndEventOnly(t, a) == AddEvent(t, EndEvent(a), Server)

AfterEnd(t, a) == AddEvent(SetStatus(t, EndStatus(a)), EndEvent(a), Server)

End(u, a) == OnTransaction(u, AfterEnd(tx[u], a))

\* The row of a resource manager is inserted, but no participant.
InsertManager(rm) ==
  managers' = managers \cup {rm} /\ UNCHANGED <<rows, tx, linked>>

\* What both methods for a new participant do.  retrieveOrCreateResourceManager
\* looks before it inserts: when a monitor of another node inserts the same
\* jndi name in between, the key is violated at the commit, and the
\* RollbackException is taken for a missing transaction.
Enlist(u, rm, id) ==
  \/ /\ Found(u)
     /\ managers' = managers \cup {rm}
     /\ tx' = [tx EXCEPT ![u] = AddParticipant(tx[u], rm, id)]
     /\ UNCHANGED <<rows, linked>>
  \/ ~Found(u) /\ Lost
  \/ rm \notin managers /\ InsertManager(rm)

EnlistResourceManagerJTA(u, rm) == Enlist(u, rm, NoRmUid)

\* The rmuid is a unique key: a second record of a resource is refused, and the
\* database transaction left open, whatever then becomes of the manager's row.
EnlistResourceManagerJTS(u, rm, id) ==
  IF \A v \in TxUid : ByRmUid(v, id) = {}
  THEN Enlist(u, rm, id)
  ELSE Lost \/ InsertManager(rm)

\* The query by name has one answer, or the line is lost.
NamedOnce(u, rm) == \E i \in ByName(u, rm) : ByName(u, rm) = {i}

\* Variant with a bug: the exception is recorded, the vote is left.
VoteAgainstNot(t, i) == Blame(t, i)

VoteAgainst(t, i) == Blame(SetVote(t, i, "ABORT"), i)

\* resourcePreparedJTA(): the line is written before the resource is asked.
ResourcePreparedJTA(u, rm) ==
  IF NamedOnce(u, rm)
  THEN \E i \in ByName(u, rm) : Update(u, SetVote(tx[u], i, "COMMIT"))
  ELSE Lost

ResourceFailedToPrepareJTA(u, rm) ==
  IF NamedOnce(u, rm)
  THEN \E i \in ByName(u, rm) : Update(u, VoteAgainst(tx[u], i))
  ELSE Lost

\* resourceStatusBeginJTS(): a resource is about to prepare, commit or abort.
ResourceStatusBeginJTS(id, eventType) ==
  IF \E u \in TxUid : ByRmUid(u, id) # {}
  THEN \E u \in TxUid : \E i \in ByRmUid(u, id) :
         Update(u, AddEvent(tx[u], eventType, tx[u].participants[i].rm))
  ELSE Lost

\* resourceStatusOutcomeJTS(): the event, and the vote, for a TwoPhaseOutcome.
TwoPhaseOutcome ==
  {"PREPARE_OK", "PREPARE_READONLY", "PREPARE_NOTOK", "FINISH_OK", "FINISH_ERROR",
   "ONE_PHASE_ERROR", "INVALID_TRANSACTION", "HEURISTIC_COMMIT",
   "HEURISTIC_HAZARD", "HEURISTIC_MIXED", "HEURISTIC_ROLLBACK"}

OutcomeEvent(o) ==
  CASE o = "PREPARE_READONLY" -> "PREPARE_OK"
    [] o = "PREPARE_NOTOK" -> "PREPARE_FAILED"
    [] o \in {"ONE_PHASE_ERROR", "INVALID_TRANSACTION"} -> "FINISH_ERROR"
    [] OTHER -> o

\* Variant with a bug: a resource that finished is taken for one that voted.
AfterVoteFinished(t, i, o) ==
  CASE o \in {"PREPARE_OK", "PREPARE_READONLY", "FINISH_OK"} -> SetVote(t, i, "COMMIT")
    [] o = "PREPARE_NOTOK" -> SetVote(t, i, "ABORT")
    [] OTHER -> t

AfterVote(t, i, o) ==
  CASE o \in {"PREPARE_OK", "PREPARE_READONLY"} -> SetVote(t, i, "COMMIT")
    [] o = "PREPARE_NOTOK" -> SetVote(t, i, "ABORT")
    [] OTHER -> t

AfterOutcome(t, i, o) ==
  AddEvent(AfterVote(t, i, o), OutcomeEvent(o), t.participants[i].rm)

ResourceStatusOutcomeJTS(id, outcome) ==
  IF \E u \in TxUid : ByRmUid(u, id) # {}
  THEN \E u \in TxUid : \E i \in ByRmUid(u, id) :
         Update(u, AfterOutcome(tx[u], i, outcome))
  ELSE Lost

ResourceThrewException(id) ==
  IF \E u \in TxUid : ByRmUid(u, id) # {}
  THEN \E u \in TxUid : \E i \in ByRmUid(u, id) :
         Update(u, Blame(tx[u], i))
  ELSE Lost

\* cleanup(): a transaction without participants and outside any hierarchy
Cleanup(u) ==
  IF Found(u) /\ tx[u].participants = <<>> /\ ~linked[u]
  THEN /\ rows' = [rows EXCEPT ![u] = 0]
       /\ tx' = [tx EXCEPT ![u] = NoTransaction]
       /\ UNCHANGED <<linked, managers>>
  ELSE Lost

\* createHierarchy() of any monitor makes u part of a hierarchy; the rewrite of
\* a bag or the removal of the other end can undo that (see Hierarchy).
ChangeHierarchy(u) ==
  /\ Found(u)
  /\ linked' = [linked EXCEPT ![u] = ~@]
  /\ UNCHANGED <<rows, tx, managers>>

-----------------------------------------------------------------------------
(* The handlers of as8.handlers.  A line is the handler's pattern and the   *)
(* groups it captures; what two handlers can be told apart by is its type.  *)

BasicActionLine ==
  {"Begin", "prepare", "Abort", "phase2Abort", "phase2Commit", "onePhaseCommit"}

Line ==
  [type : BasicActionLine \cup {"prepare_failed", "get_status"}, txuid : TxUid]
    \cup [type : {"End"}, txuid : TxUid, result : ActionStatus]
    \cup [type : {"XAResourceRecord", "topLevelPrepare", "XAException"},
          txuid : TxUid, rm : RM]
    \cup [type : {"enlistResource"}, txuid : TxUid, rm : RM, rmuid : RmUid]
    \cup [type : {"topLevel"}, rmuid : RmUid, action : {"Prepare", "Commit", "Abort"}]
    \cup [type : {"doResult"}, rmuid : RmUid, outcome : TwoPhaseOutcome]
    \cup [type : {"JTSException"}, rmuid : RmUid]

BasicActionHandler(l) ==
  \/ l.type = "Begin" /\ Begin(l.txuid)
  \/ l.type = "prepare" /\ Prepare(l.txuid)
  \/ l.type = "Abort" /\ Abort(l.txuid)
  \/ l.type = "phase2Abort" /\ Phase2Abort(l.txuid)
  \/ l.type = "phase2Commit" /\ Phase2Commit(l.txuid)
  \/ l.type = "onePhaseCommit" /\ OnePhaseCommit(l.txuid)

TxPrepareFailedHandler(l) == l.type = "prepare_failed" /\ TxPrepareFailed(l.txuid)

TxFinalStatusHandler(l) == l.type = "End" /\ End(l.txuid, l.result)

ArjunaTransactionImpleHandler(l) == l.type = "get_status" /\ Cleanup(l.txuid)

JTACreateResourceRecordHandler(l) ==
  l.type = "XAResourceRecord" /\ EnlistResourceManagerJTA(l.txuid, l.rm)

JTAResourceRecordHandler(l) ==
  l.type = "topLevelPrepare" /\ ResourcePreparedJTA(l.txuid, l.rm)

JTAResourceExceptionHandler(l) ==
  l.type = "XAException" /\ ResourceFailedToPrepareJTA(l.txuid, l.rm)

JTSCreateResourceRecordHandler(l) ==
  l.type = "enlistResource" /\ EnlistResourceManagerJTS(l.txuid, l.rm, l.rmuid)

ActionEvent == [Prepare |-> "PREPARE", Commit |-> "COMMIT", Abort |-> "ABORT"]

JTSResourceRecordHandler(l) ==
  l.type = "topLevel" /\ ResourceStatusBeginJTS(l.rmuid, ActionEvent[l.action])

JTSResourceStatusChangeHandler(l) ==
  l.type = "doResult" /\ ResourceStatusOutcomeJTS(l.rmuid, l.outcome)

JTSResourceExceptionHandler(l) ==
  l.type = "JTSException" /\ ResourceThrewException(l.rmuid)

\* LogParser.handle(): one handler takes the line.  The twelfth,
\* JTSInterpositionHandler, does not write these rows (see Hierarchy).
Handle(l) ==
  \/ BasicActionHandler(l) \/ TxPrepareFailedHandler(l) \/ TxFinalStatusHandler(l)
  \/ ArjunaTransactionImpleHandler(l)
  \/ JTACreateResourceRecordHandler(l) \/ JTAResourceRecordHandler(l)
  \/ JTAResourceExceptionHandler(l)
  \/ JTSCreateResourceRecordHandler(l) \/ JTSResourceRecordHandler(l)
  \/ JTSResourceStatusChangeHandler(l) \/ JTSResourceExceptionHandler(l)

-----------------------------------------------------------------------------
Init ==
  /\ rows = [u \in TxUid |-> 0]
  /\ tx = [u \in TxUid |-> NoTransaction]
  /\ linked = [u \in TxUid |-> FALSE]
  /\ managers = {}

\* The bounds: room for the two events a line can add, and three rows at most.
Room == \A u \in TxUid : Len(tx[u].events) + 2 <= MaxEvents

RowRoom(l) == l.type = "Begin" => rows[l.txuid] < 3

Next ==
  /\ Room
  /\ \/ \E l \in Line : RowRoom(l) /\ Handle(l)
     \/ \E u \in TxUid : ChangeHierarchy(u)

Spec == Init /\ [][Next]_dbVars

-----------------------------------------------------------------------------
(* Properties.                                                              *)

\* The statuses an event of the transaction itself tells of.  The replay of phase
\* two and a resource that failed to prepare tell of none.
Tells ==
  [BEGIN |-> {"IN_FLIGHT"}, PREPARE |-> {"PREPARE"},
   COMMIT |-> {"COMMIT", "ONE_PHASE_COMMIT"},
   ABORT |-> {"PHASE_ONE_ABORT", "PHASE_TWO_ABORT"},
   FINISH_OK |-> {"COMMITTED", "ABORTED"},
   HEURISTIC_COMMIT |-> {"HEURISTIC_COMMIT"},
   HEURISTIC_ROLLBACK |-> {"HEURISTIC_ROLLBACK"},
   HEURISTIC_MIXED |-> {"HEURISTIC_MIXED"},
   HEURISTIC_HAZARD |-> {"HEURISTIC_HAZARD"}]

\* Positions of these events, as against those of the resources.
Telling(t) ==
  {i \in DOMAIN t.events :
     t.events[i].entity = Server /\ t.events[i].type \in DOMAIN Tells}

\* The status of a row and its events, which the page shows side by side, tell the
\* same story: the status is what the last event of the transaction itself tells
\* of, whatever lines were lost before and whatever replays and events of its
\* resources, of the same types, follow (HandlerService:147-172 and 184-201,
\* Transaction:159-177).
StatusTold ==
  \A u \in TxUid : \A i \in Telling(tx[u]) :
    (\A j \in Telling(tx[u]) : j <= i) =>
      tx[u].status \in Tells[tx[u].events[i].type]

=============================================================================
