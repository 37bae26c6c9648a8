----------------------------- MODULE Commitment ------------------------------
(***************************************************************************)
(* A transaction manager that commits transactions, local ones (JTA) or     *)
(* such as may be distributed (JTS), and logs what it does, and the monitor *)
(* on the same node that records it: the coordinator is Narayana's          *)
(* BasicAction, external to the repository and modelled from the lines the  *)
(* handlers of as8.handlers expect and from the sample logs in              *)
(* src/etc/logs; the recording is that of Recorder.                         *)
(*                                                                          *)
(* The question is what the recorded rows are worth: they are made from     *)
(* lines written before the things they speak of have happened, read any    *)
(* time later, and lost when the server or only the monitor starts over.    *)
(***************************************************************************)
EXTENDS Naturals, FiniteSets, SequencesExt

CONSTANTS
  TxUid,       \* transactions begun on the node
  RM,          \* jndi names; a transaction enlists each at most once
  NoRmUid, Server, MaxEvents,  \* see Recorder
  Services,    \* the transaction services a server may be set up with
  EndLogged,   \* whether BasicAction logs the result of End(): old versions do not
  MaxRestarts, \* bound, by service: restarts of the server or of the monitor
  MaxUnread,   \* bound: unread lines at which the server goes on to write
  MaxReplays   \* bound, by service: unsuccessful attempts to recover a transaction

ASSUME CommitmentAssumption ==
  /\ IsFiniteSet(RM) /\ NoRmUid \notin TxUid \X RM
  /\ Services \subseteq {"JTA", "JTS"} /\ EndLogged \subseteq BOOLEAN
  /\ {MaxRestarts, MaxReplays} \subseteq [{"JTA", "JTS"} -> Nat] /\ MaxUnread \in Nat

VARIABLES
  rows, tx, linked, managers,  \* what is recorded, see Recorder
  service,   \* the transaction service of the server
  stage,     \* stage[u]: how far the coordinator of u is
  branch,    \* branch[u][rm]: how far it is with a resource
  decision,  \* decision[u]: what it decided
  ended,     \* ended[u]: what End() returned
  log,       \* lines of server.log the Tailer has not read yet
  gap,       \* a monitor or a server was restarted with work unread or undone
  restarts, replays  \* counters of the bounds

dbVars == <<rows, tx, linked, managers>>
serverVars == <<service, stage, branch, decision, ended>>
vars == <<dbVars, serverVars, log, gap, restarts, replays>>

\* Every enlistment makes a JTS resource record of its own.
RmUid == TxUid \X RM

Rec == INSTANCE Recorder

Stages == {"none", "active", "one_phase", "preparing", "committing", "aborting",
           "in_doubt", "done"}
Branch == {"out", "in", "asked", "ok", "failed"}

\* ActionStatus values that End() returns, by the decision before.
Results ==
  [commit |-> {"COMMITTED", "H_ROLLBACK", "H_MIXED", "H_HAZARD"},
   abort |-> {"ABORTED", "H_COMMIT", "H_MIXED", "H_HAZARD"}]

\* Types of the coordinator, the log and the recorded rows.
TypeOK ==
  /\ Rec!TypeOK
  /\ service \in Services
  /\ stage \in [TxUid -> Stages]
  /\ branch \in [TxUid -> [RM -> Branch]]
  /\ decision \in [TxUid -> {"none", "commit", "abort"}]
  /\ ended \in [TxUid -> {"none", "commit", "abort", "heuristic"}]
  /\ log \in Seq(Rec!Line)
  /\ gap \in BOOLEAN
  /\ restarts \in Nat
  /\ replays \in Nat

-----------------------------------------------------------------------------
(* The transaction manager.                                                 *)

L(type, u) == [type |-> type, txuid |-> u]
LRm(type, u, rm) == [type |-> type, txuid |-> u, rm |-> rm]

\* Lines of the JTS alone: a resource is called, has answered, has thrown.
TopLevel(u, rm, action) ==
  [type |-> "topLevel", rmuid |-> <<u, rm>>, action |-> action]
Outcome(u, rm, o) == [type |-> "doResult", rmuid |-> <<u, rm>>, outcome |-> o]
Threw(u, rm) == [type |-> "JTSException", rmuid |-> <<u, rm>>]

Write(lines) == Len(log) <= MaxUnread /\ log' = log \o lines

\* One line or the other
Wording(jta, jts) == IF service = "JTA" THEN jta ELSE jts

Enlisted(u) == {rm \in RM : branch[u][rm] # "out"}

\* A step of u's coordinator.
At(u, s) == stage[u] = s /\ UNCHANGED <<service, dbVars, gap, restarts, replays>>
Goto(u, s) == stage' = [stage EXCEPT ![u] = s]
Decides(u, d) == decision' = [decision EXCEPT ![u] = d]

\* What the second phase of u logs: the JTS calls the resources in the order of
\* its list, and any of them may throw.  No handler reads what the JTA logs of it.
SecondPhase(u, action) ==
  LET order == SetToSeq(Enlisted(u))
      Visit(rm, throws) ==
        IF throws
        THEN <<TopLevel(u, rm, action), Threw(u, rm), Outcome(u, rm, "FINISH_ERROR")>>
        ELSE <<TopLevel(u, rm, action), Outcome(u, rm, "FINISH_OK")>>
  IN  Wording({<<>>},
        {FlattenSeq([i \in DOMAIN order |-> Visit(order[i], order[i] \in throwing)]) :
           throwing \in SUBSET Enlisted(u)})

BeginTx(u) ==
  /\ At(u, "none") /\ Goto(u, "active")
  /\ Write(<<L("Begin", u)>>)
  /\ UNCHANGED <<branch, decision, ended>>

EnlistResource(u, rm) ==
  /\ At(u, "active")
  /\ branch[u][rm] = "out"
  /\ branch' = [branch EXCEPT ![u][rm] = "in"]
  /\ Write(<<Wording(LRm("XAResourceRecord", u, rm),
                     [type |-> "enlistResource", txuid |-> u, rm |-> rm,
                      rmuid |-> <<u, rm>>])>>)
  /\ UNCHANGED <<stage, decision, ended>>

Rollback(u) ==
  /\ At(u, "active") /\ Goto(u, "done")
  /\ Decides(u, "abort")
  /\ \E lines \in SecondPhase(u, "Abort") : Write(<<L("Abort", u)>> \o lines)
  /\ UNCHANGED <<branch, ended>>

\* With one resource at most there is nothing to prepare.
StartOnePhase(u) ==
  /\ At(u, "active") /\ Goto(u, "one_phase")
  /\ Cardinality(Enlisted(u)) <= 1
  /\ Write(<<L("onePhaseCommit", u)>>)
  /\ UNCHANGED <<branch, decision, ended>>

\* The resource commits or refuses, after the line is written.
AnswerOnePhase(u) ==
  /\ At(u, "one_phase")
  /\ \/ Decides(u, "commit") /\ Goto(u, "committing")
     \/ Decides(u, "abort") /\ Goto(u, "aborting")
  /\ UNCHANGED <<branch, ended, log>>

StartPrepare(u) ==
  /\ At(u, "active") /\ Goto(u, "preparing")
  /\ Cardinality(Enlisted(u)) > 1
  /\ Write(<<L("prepare", u)>>)
  /\ UNCHANGED <<branch, decision, ended>>

\* The resources are asked one after the other, until one fails.
AskResource(u, rm) ==
  /\ At(u, "preparing")
  /\ branch[u][rm] = "in"
  /\ \A r \in Enlisted(u) : branch[u][r] \in {"in", "ok"}
  /\ branch' = [branch EXCEPT ![u][rm] = "asked"]
  /\ Write(<<Wording(LRm("topLevelPrepare", u, rm), TopLevel(u, rm, "Prepare"))>>)
  /\ UNCHANGED <<stage, decision, ended>>

ResourcePrepared(u, rm) ==
  /\ At(u, "preparing")
  /\ branch[u][rm] = "asked"
  /\ branch' = [branch EXCEPT ![u][rm] = "ok"]
  /\ Write(Wording(<<>>, <<Outcome(u, rm, "PREPARE_OK")>>))
  /\ UNCHANGED <<stage, decision, ended>>

ResourceFailed(u, rm) ==
  /\ At(u, "preparing")
  /\ branch[u][rm] = "asked"
  /\ branch' = [branch EXCEPT ![u][rm] = "failed"]
  /\ Write(Wording(<<LRm("XAException", u, rm)>>,
                   <<Threw(u, rm), Outcome(u, rm, "PREPARE_NOTOK")>>))
  /\ UNCHANGED <<stage, decision, ended>>

StartCommit(u) ==
  /\ At(u, "preparing") /\ Goto(u, "committing")
  /\ \A rm \in Enlisted(u) : branch[u][rm] = "ok"
  /\ Decides(u, "commit")
  /\ \E lines \in SecondPhase(u, "Commit") : Write(<<L("phase2Commit", u)>> \o lines)
  /\ UNCHANGED <<branch, ended>>

StartAbort(u) ==
  /\ At(u, "preparing") /\ Goto(u, "aborting")
  /\ \E rm \in RM : branch[u][rm] = "failed"
  /\ Decides(u, "abort")
  /\ \E lines \in SecondPhase(u, "Abort") :
       Write(<<L("prepare_failed", u), L("phase2Abort", u)>> \o lines)
  /\ UNCHANGED <<branch, ended>>

\* Only a transaction with a second phase is kept in the object store.
Recoverable(u) == Cardinality(Enlisted(u)) > 1

\* With the JTS a client may ask for the status of a transaction it has committed.
GetStatus(u) ==
  {<<>>} \cup IF decision[u] = "commit" THEN Wording({}, {<<L("get_status", u)>>}) ELSE {}

\* End() returns; some versions log the result.  A resource that did not answer
\* or decided for itself leaves the transaction to the recovery manager.
Finish(u) ==
  /\ stage[u] \in {"committing", "aborting"}
  /\ At(u, stage[u])
  /\ Goto(u, "done") \/ (Recoverable(u) /\ Goto(u, "in_doubt"))
  /\ \E result \in Results[decision[u]], logged \in EndLogged :
       /\ ended' = [ended EXCEPT ![u] =
                      IF result \in {"COMMITTED", "ABORTED"} THEN decision[u]
                                                            ELSE "heuristic"]
       /\ \E query \in GetStatus(u) :
            Write((IF logged THEN <<[type |-> "End", txuid |-> u, result |-> result]>>
                             ELSE <<>>) \o query)
  /\ UNCHANGED <<branch, decision>>

Coordinator(u) ==
  \/ BeginTx(u) \/ Rollback(u)
  \/ StartOnePhase(u) \/ AnswerOnePhase(u)
  \/ StartPrepare(u) \/ StartCommit(u) \/ StartAbort(u) \/ Finish(u)
  \/ \E rm \in RM : \/ EnlistResource(u, rm) \/ AskResource(u, rm)
                    \/ ResourcePrepared(u, rm) \/ ResourceFailed(u, rm)

\* The recovery manager takes up a second phase that a crash or a resource cut
\* short, again and again until every resource is back: every attempt starts the
\* phase anew and logs it, and none of them passes through End().
Recover(u) ==
  /\ stage[u] = "in_doubt"
  /\ \/ Goto(u, "done") /\ UNCHANGED replays
     \/ replays < MaxReplays[service] /\ replays' = replays + 1 /\ UNCHANGED stage
  /\ IF decision[u] = "commit"
     THEN \E lines \in SecondPhase(u, "Commit") : Write(<<L("phase2Commit", u)>> \o lines)
     ELSE \E lines \in SecondPhase(u, "Abort") : Write(<<L("phase2Abort", u)>> \o lines)
  /\ UNCHANGED <<dbVars, service, branch, decision, ended, gap, restarts>>

-----------------------------------------------------------------------------
(* The monitor.                                                             *)

ReadLine ==
  /\ log # <<>>
  /\ Rec!Handle(Head(log))
  /\ log' = Tail(log)
  /\ UNCHANGED <<serverVars, gap, restarts, replays>>

\* The monitor alone is deployed again: its Tailer starts at the end of the file.
Redeploy ==
  /\ restarts < MaxRestarts[service]
  /\ restarts' = restarts + 1
  /\ log # <<>>
  /\ log' = <<>>
  /\ gap' = TRUE
  /\ UNCHANGED <<dbVars, serverVars, replays>>

\* The server and the monitor in it crash.  What was not decided is aborted,
\* without a line; what was to be committed is recovered.
Crash ==
  /\ restarts < MaxRestarts[service]
  /\ restarts' = restarts + 1
  /\ \E u \in TxUid : stage[u] \notin {"none", "done"}
  /\ \E answer \in [TxUid -> {"commit", "abort"}] :
       decision' = [u \in TxUid |->
                      IF stage[u] \in {"active", "preparing"} THEN "abort"
                      ELSE IF stage[u] = "one_phase" THEN answer[u]
                      ELSE decision[u]]
  /\ stage' = [u \in TxUid |->
                 IF stage[u] = "none" THEN "none"
                 ELSE IF stage[u] = "in_doubt" \/
                         (stage[u] = "committing" /\ Recoverable(u)) THEN "in_doubt"
                 ELSE "done"]
  /\ log' = <<>>
  /\ gap' = TRUE
  /\ UNCHANGED <<dbVars, service, branch, ended, replays>>

-----------------------------------------------------------------------------
Init ==
  /\ Rec!Init
  /\ service \in Services
  /\ stage = [u \in TxUid |-> "none"]
  /\ branch = [u \in TxUid |-> [rm \in RM |-> "out"]]
  /\ decision = [u \in TxUid |-> "none"]
  /\ ended = [u \in TxUid |-> "none"]
  /\ log = <<>>
  /\ gap = FALSE
  /\ restarts = 0
  /\ replays = 0

Next ==
  \/ \E u \in TxUid : Coordinator(u) \/ Recover(u)
  \/ ReadLine \/ Redeploy \/ Crash

Spec == Init /\ [][Next]_vars

\* The Tailer reads on as long as there are lines.
FairSpec == Spec /\ WF_vars(ReadLine)

-----------------------------------------------------------------------------
(* Properties.                                                              *)

Participants(u) ==
  {tx[u].participants[i] : i \in DOMAIN tx[u].participants}

\* No line about u is waiting, and none was lost.
About(l, u) == IF "txuid" \in DOMAIN l THEN l.txuid = u ELSE l.rmuid[1] = u
CaughtUp(u) == ~gap /\ \A i \in DOMAIN log : ~ About(log[i], u)

\* A vote against is never invented: a resource that the record blames did
\* refuse, and what it is blamed for was never committed; however many lines
\* were lost.  An exception of the JTS is no blame: it may be of any phase.
NoFalseBlame ==
  \A u \in TxUid : \A p \in Participants(u) :
    (p.vote = "ABORT" \/ (p.xaException /\ service = "JTA")) =>
      branch[u][p.rm] = "failed" /\ decision[u] # "commit"

\* Once the monitor has caught up, every participant it knows shows how far
\* its resource is.  The JTA's line for a vote is written before the vote, so
\* that one that is still asked shows as a vote for the commit.
VotesExplained ==
  \A u \in TxUid : CaughtUp(u) =>
    \A p \in Participants(u) :
      p.vote = CASE branch[u][p.rm] = "in" -> "UNKNOWN"
                 [] branch[u][p.rm] = "asked" -> Wording("COMMIT", "UNKNOWN")
                 [] branch[u][p.rm] = "ok" -> "COMMIT"
                 [] branch[u][p.rm] = "failed" -> "ABORT"

\* Once the monitor has caught up, a transaction shows as preparing or in
\* flight, and so can be reported as wedged, only while its coordinator has not
\* decided (WedgedTxPlugin:46-66 counts on it); a transaction shows as ended
\* in one phase or by an abort of the client only if that is how it ended.
StatusCurrent ==
  \A u \in TxUid : (CaughtUp(u) /\ rows[u] = 1) =>
    /\ tx[u].status = "IN_FLIGHT" => stage[u] = "active"
    /\ tx[u].status = "PREPARE" => stage[u] = "preparing"
    /\ tx[u].status = "ONE_PHASE_COMMIT" => Cardinality(Enlisted(u)) <= 1
    /\ tx[u].status \in {"PHASE_ONE_ABORT", "PHASE_TWO_ABORT"} =>
         decision[u] = "abort"

\* A transaction has an end time, and a duration that stands still, only if its
\* status is that of an end; and as long as no line was lost, whenever it is.
\* The end time comes with the line that starts the last phase alone: when that
\* line is lost and only the result of End() is read, the status is final, there
\* is no end time, and the duration grows on
\* (Transaction:154-177, 317-319, HandlerService:147-172).
EndTimed ==
  \A u \in TxUid :
    LET final == tx[u].status \notin {"IN_FLIGHT", "PREPARE"}
    IN  /\ tx[u].ended => final
        /\ (final /\ ~ gap) => tx[u].ended

\* "Rollbacks were caused in transactions" (RMRollbackPlugin:85-89): what the
\* plugin counts as a rollback that a resource caused, a participant with an
\* exception (:68-76), is not of a transaction that was to be committed.
RollbackCaused ==
  \A u \in TxUid : \A p \in Participants(u) : p.xaException => decision[u] # "commit"

\* What the status of u tells of its end.
Shown(u) ==
  CASE tx[u].status \in {"COMMIT", "COMMITTED"} -> "commit"
    [] tx[u].status \in {"PHASE_ONE_ABORT", "PHASE_TWO_ABORT", "ABORTED"} -> "abort"
    [] tx[u].status \in {"HEURISTIC_COMMIT", "HEURISTIC_ROLLBACK",
                         "HEURISTIC_MIXED", "HEURISTIC_HAZARD"} -> "heuristic"
    [] OTHER -> "none"

V == INSTANCE Verdict WITH decided <- decision,
                           shown <- [u \in TxUid |-> Shown(u)],
                           known <- [u \in TxUid |-> tx[u].participants # <<>>]

\* The record lags but never contradicts the coordinator, and takes no verdict
\* back: through lost lines, crashes and replays of phase two (what the guard
\* at HandlerService:190-196 is for).  Only cleanup() takes a record away, that
\* of a committed transaction of which no resource is known.
VerdictSpec == V!Spec

\* What is recorded of a resource of u.
RecordOf(u, rm) ==
  IF \E p \in Participants(u) : p.rm = rm
  THEN LET p == CHOOSE q \in Participants(u) : q.rm = rm
       IN  [vote |-> p.vote, xaException |-> p.xaException]
  ELSE [vote |-> "none", xaException |-> FALSE]

Bal == INSTANCE Ballot WITH
       Branch <- TxUid, Resource <- RM,
       record <- [u \in TxUid |-> [rm \in RM |-> RecordOf(u, rm)]]

\* Whatever is lost, and however far the monitor lags, the record of a
\* participant comes once and is not taken back: its vote changes once, or with
\* an exception, and none for the commit follows one (HandlerService:305-485).
BallotSpec == Bal!Spec

\* Every result of End() that is logged comes to be shown, unless it is lost by
\* a restart: also where the status told of something else, or of a commit in
\* one phase that was refused (HandlerService:104, 143-175).
EndShown ==
  \A u \in TxUid : \A e \in {"commit", "abort", "heuristic"} :
    (ended[u] = e /\ \E i \in DOMAIN log : log[i].type = "End" /\ log[i].txuid = u)
      ~> (Shown(u) = e \/ gap)

=============================================================================
