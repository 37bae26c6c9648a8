--------------------------- MODULE CommitmentProofs --------------------------
(***************************************************************************)
(* Proofs about Commitment, for any transactions, any finite set of         *)
(* resources, and any number of restarts and of unread lines: the types,    *)
(* what the status of a transaction tells (StatusCurrent), when it has an   *)
(* end time (EndTimed), and that the recorded rows are a Verdict.  The      *)
(* votes are in CommitmentVoteProofs.                                       *)
(***************************************************************************)
EXTENDS Commitment, FiniteSetTheorems, WellFoundedInduction, TLAPS

-----------------------------------------------------------------------------
(* Sequences.                                                               *)

\* Any set of naturals has a least element.
LEMMA LeastNat ==
  ASSUME NEW T \in SUBSET Nat, T # {}
  PROVE  \E n \in T : \A m \in T : n <= m
<1> DEFINE R == OpToRel(<, Nat)
<1>1. \A m, n \in Nat : <<m, n>> \in R <=> m < n
  BY DEF OpToRel
<1>2. IsWellFoundedOn(R, Nat)
  BY NatLessThanWellFounded
<1> HIDE DEF R
<1>3. PICK n \in T : \A m \in T : ~ (<<m, n>> \in R)
  BY <1>2, WFMin
<1> SUFFICES ASSUME NEW m \in T PROVE n <= m
  OBVIOUS
<1>4. m \in Nat /\ n \in Nat /\ ~ (m < n)
  BY <1>1, <1>3
<1> QED
  BY <1>4

\* The concatenation of sequences over a set is one.
LEMMA FlattenSeqType ==
  ASSUME NEW S, NEW s \in Seq(Seq(S))
  PROVE  FlattenSeq(s) \in Seq(S)
<1> DEFINE D(n) == 1..n
           Rhs(f, n) == [i \in D(n) |-> IF i = 1 THEN s[i] ELSE f[i-1] \o s[i]]
           Good(n) == \E f : f = Rhs(f, n) /\ \A i \in D(n) : f[i] \in Seq(S)
           Bad == {n \in 0..Len(s) : ~ Good(n)}
<1>1. Good(0)
  <2>1. D(0) = {}
    OBVIOUS
  <2>2. Rhs(<<>>, 0) = <<>>
    BY <2>1
  <2> QED
    BY <2>1, <2>2
<1>2. ASSUME NEW n \in 0..Len(s), n # 0, Good(n-1)
      PROVE  Good(n)
  <2>1. PICK f : f = Rhs(f, n-1) /\ \A i \in D(n-1) : f[i] \in Seq(S)
    BY <1>2
  <2> DEFINE v == IF n = 1 THEN s[n] ELSE f[n-1] \o s[n]
             g == [i \in D(n) |-> IF i = n THEN v ELSE f[i]]
  <2>2. v \in Seq(S)
    BY <1>2, <2>1
  <2>3. \A i \in D(n) : i # n => i \in D(n-1) /\ (i # 1 => i-1 \in D(n-1))
    BY <1>2
  <2>4. \A i \in D(n) : g[i] \in Seq(S)
    BY <2>1, <2>2, <2>3
  <2>5. \A i \in D(n) : g[i] = IF i = 1 THEN s[i] ELSE g[i-1] \o s[i]
    <3> SUFFICES ASSUME NEW i \in D(n) PROVE g[i] = IF i = 1 THEN s[i] ELSE g[i-1] \o s[i]
      OBVIOUS
    <3>1. i # 1 => i-1 \in D(n) /\ i-1 # n /\ g[i-1] = f[i-1]
      BY <1>2
    <3>2. CASE i = n
      BY <3>1, <3>2
    <3>3. CASE i # n
      <4>1. i \in D(n-1)
        BY <2>3, <3>3
      <4>2. f[i] = IF i = 1 THEN s[i] ELSE f[i-1] \o s[i]
        BY <2>1, <4>1
      <4> QED
        BY <3>1, <3>3, <4>2
    <3> QED
      BY <3>2, <3>3
  <2>6. g = Rhs(g, n)
    BY <2>5
  <2> QED
    BY <2>4, <2>6
<1> HIDE DEF Good
<1>3. Bad = {}
  <2> SUFFICES ASSUME Bad # {} PROVE FALSE
    OBVIOUS
  <2>0. Bad \in SUBSET Nat
    OBVIOUS
  <2> HIDE DEF Bad
  <2>1. PICK n \in Bad : \A m \in Bad : n <= m
    BY <2>0, LeastNat
  <2> USE DEF Bad
  <2>2. n # 0 /\ n-1 \in 0..Len(s) /\ n-1 \notin Bad
    BY <1>1, <2>1
  <2> QED
    BY <1>2, <2>1, <2>2
<1>4. Good(Len(s))
  BY <1>3
<1> DEFINE flat == CHOOSE f : f = Rhs(f, Len(s))
<1>5. flat = Rhs(flat, Len(s))
  BY <1>4 DEF Good
<1>6. \A i \in D(Len(s)) : flat[i] \in Seq(S)
  <2> DEFINE B == {i \in D(Len(s)) : flat[i] \notin Seq(S)}
  <2> SUFFICES ASSUME B # {} PROVE FALSE
    OBVIOUS
  <2> HIDE DEF flat
  <2>0. B \in SUBSET Nat
    OBVIOUS
  <2> HIDE DEF B
  <2>1. PICK i \in B : \A m \in B : i <= m
    BY <2>0, LeastNat
  <2> USE DEF B
  <2>2. flat[i] = IF i = 1 THEN s[i] ELSE flat[i-1] \o s[i]
    BY <1>5
  <2>3. i # 1 => i-1 \in D(Len(s)) /\ i-1 \notin B
    BY <2>1
  <2>4. s[i] \in Seq(S) /\ (i # 1 => flat[i-1] \in Seq(S))
    BY <2>3
  <2>5. flat[i] \in Seq(S)
    BY <2>2, <2>4
  <2> QED
    BY <2>5
<1>7. CASE Len(s) = 0
  BY <1>7 DEF FlattenSeq
<1>8. CASE Len(s) # 0
  <2>1. FlattenSeq(s) = flat[Len(s)]
    BY <1>8 DEF FlattenSeq
  <2> HIDE DEF flat
  <2> QED
    BY <1>6, <1>8, <2>1
<1> QED
  BY <1>7, <1>8
-----------------------------------------------------------------------------
(* The invariant.                                                           *)

\* Lines after which a transaction shows how far it is, and such as tell of
\* its decision or its end.
Opening(l) == l.type \in {"Begin", "prepare", "onePhaseCommit"}
Telling(l) == l.type \in {"Abort", "phase2Commit", "phase2Abort", "End", "get_status"}

EndOf(result) ==
  CASE result = "COMMITTED" -> "commit" [] result = "ABORTED" -> "abort" [] OTHER -> "heuristic"

\* The coordinator of u: what it decided, how it ended and how its resources
\* answered go with the stage it is at.
CoordInv(u) ==
  /\ decision[u] = "none" <=> stage[u] \in {"none", "active", "one_phase", "preparing"}
  /\ stage[u] = "committing" => decision[u] = "commit"
  /\ stage[u] = "aborting" => decision[u] = "abort"
  /\ ended[u] # "none" => stage[u] \in {"in_doubt", "done"}
  /\ ended[u] \in {"commit", "abort"} => ended[u] = decision[u]
  /\ \A rm \in RM :
       /\ stage[u] = "none" => branch[u][rm] = "out"
       /\ stage[u] \in {"active", "one_phase"} => branch[u][rm] \in {"out", "in"}
       /\ decision[u] = "commit" => branch[u][rm] # "failed"
  /\ stage[u] = "one_phase" => ~ Recoverable(u)

\* An unread line about u: the coordinator is past what the line tells of, and
\* what comes first in a log has not been read if this has not.
LineInv(l, u) ==
  /\ stage[u] # "none"
  /\ l.type = "Begin" => rows[u] = 0
  /\ l.type = "prepare" => stage[u] \notin {"active", "one_phase"} /\ Recoverable(u)
  /\ l.type = "onePhaseCommit" => stage[u] # "active" /\ ~ Recoverable(u)
  /\ l.type = "Abort" => stage[u] = "done" /\ decision[u] = "abort" /\ ended[u] = "none"
  /\ l.type \in {"phase2Commit", "get_status"} => decision[u] = "commit"
  /\ l.type = "phase2Abort" => decision[u] = "abort"
  /\ l.type = "End" => ended[u] = EndOf(l.result)
  /\ l.type = "enlistResource" => l.rmuid = <<l.txuid, l.rm>>
  /\ Opening(l) => Shown(u) = "none"

\* The row of u: it shows nothing but what was decided or how u ended.
RowInv(u) ==
  /\ rows[u] \in {0, 1}
  /\ rows[u] = 0 => tx[u].status = "IN_FLIGHT" /\ tx[u].participants = <<>>
  /\ rows[u] = 1 => stage[u] # "none"
  /\ Shown(u) \in {"none", decision[u], ended[u]}
  /\ tx[u].status = "PREPARE" =>
       stage[u] \notin {"none", "active", "one_phase"} /\ Recoverable(u)
  /\ tx[u].status = "ONE_PHASE_COMMIT" =>
       stage[u] \notin {"none", "active"} /\ ~ Recoverable(u)
  /\ \A i \in DOMAIN tx[u].participants :
       LET p == tx[u].participants[i] IN p.rmuid \in {NoRmUid, <<u, p.rm>>}

\* Lines about u are in the order in which a coordinator writes them.
OrderInv(u) ==
  \A i, j \in DOMAIN log :
    (i < j /\ About(log[i], u) /\ About(log[j], u)) =>
      /\ log[j].type # "Begin"
      /\ Opening(log[j]) => ~ Telling(log[i])

Pending(u, types) == \E i \in DOMAIN log : About(log[i], u) /\ log[i].type \in types

PhaseTwo == {"phase2Commit", "phase2Abort"}

\* As long as nothing is lost, what makes the status of u wrong is unread.
ProgressInv(u) ==
  ~ gap =>
    /\ (/\ stage[u] \notin {"none", "active"}
        /\ rows[u] = 1 \/ Pending(u, {"Begin"})
        /\ tx[u].status = "IN_FLIGHT")
         => Pending(u, {"prepare", "onePhaseCommit", "Abort"})
    /\ stage[u] \notin {"none", "active", "preparing"} =>
         /\ tx[u].status = "PREPARE" => Pending(u, PhaseTwo)
         /\ \A i \in DOMAIN log :
              (About(log[i], u) /\ log[i].type = "prepare") =>
                \E j \in DOMAIN log :
                  i < j /\ About(log[j], u) /\ log[j].type \in PhaseTwo

LogInv(u) == \A i \in DOMAIN log : About(log[i], u) => LineInv(log[i], u)

UInv(u) == CoordInv(u) /\ RowInv(u) /\ LogInv(u) /\ OrderInv(u) /\ ProgressInv(u)

IInv == TypeOK /\ \A u \in TxUid : UInv(u)

-----------------------------------------------------------------------------
(* The log.                                                                 *)

\* The positions of a log, and what is written to it stands behind the rest.
LEMMA Appended ==
  ASSUME log \in Seq(Rec!Line), NEW lines \in Seq(Rec!Line), log' = log \o lines
  PROVE  /\ log' \in Seq(Rec!Line)
         /\ \A i \in DOMAIN log : i \in Nat /\ i <= Len(log) /\ log[i] \in Rec!Line
         /\ \A i \in DOMAIN log : i \in DOMAIN log' /\ log'[i] = log[i]
         /\ \A i \in DOMAIN log' :
              \/ i \in DOMAIN log
              \/ \E k \in DOMAIN lines : i = Len(log) + k /\ log'[i] = lines[k]
         /\ \A k \in DOMAIN lines :
              Len(log) + k \in DOMAIN log' /\ log'[Len(log) + k] = lines[k]
         /\ Len(log) \in Nat
         /\ DOMAIN lines \subseteq Nat \ {0}
<1>1. ASSUME NEW i \in DOMAIN log', i \notin DOMAIN log
      PROVE  i - Len(log) \in DOMAIN lines /\ i = Len(log) + (i - Len(log))
               /\ log'[i] = lines[i - Len(log)]
  BY <1>1
<1>2. \A i \in DOMAIN log : i \in Nat /\ i <= Len(log) /\ log[i] \in Rec!Line
  OBVIOUS
<1>3. \A i \in DOMAIN log : i \in DOMAIN log' /\ log'[i] = log[i]
  OBVIOUS
<1>4. \A k \in DOMAIN lines :
        Len(log) + k \in DOMAIN log' /\ log'[Len(log) + k] = lines[k]
  OBVIOUS
<1>5. log' \in Seq(Rec!Line) /\ Len(log) \in Nat /\ DOMAIN lines \subseteq Nat \ {0}
  OBVIOUS
<1> QED
  BY <1>1, <1>2, <1>3, <1>4, <1>5

\* What is read was first, and the rest moves up.
LEMMA Popped ==
  ASSUME log \in Seq(Rec!Line), log # <<>>, log' = Tail(log)
  PROVE  /\ log' \in Seq(Rec!Line)
         /\ 1 \in DOMAIN log /\ Head(log) = log[1] /\ Head(log) \in Rec!Line
         /\ \A i \in DOMAIN log : i \in Nat /\ i >= 1 /\ log[i] \in Rec!Line
         /\ \A i \in DOMAIN log' :
              i \in Nat /\ i >= 1 /\ i + 1 \in DOMAIN log /\ log'[i] = log[i + 1]
         /\ \A i \in DOMAIN log : i = 1 \/ (i - 1 \in DOMAIN log' /\ log'[i - 1] = log[i])
OBVIOUS

\* The lines of a second phase that are not about a decision.
PhaseTwoLine(u) ==
  {l \in Rec!Line :
     /\ l.type \in {"topLevel", "JTSException", "doResult"}
     /\ \E rm \in Enlisted(u) : l.rmuid = <<u, rm>>
     /\ l.type = "doResult" => l.outcome \in {"FINISH_OK", "FINISH_ERROR"}}

\* A finite set has an order, and SetToSeq() is one.
LEMMA SetToSeqRange ==
  ASSUME NEW S, IsFiniteSet(S)
  PROVE  SetToSeq(S) \in Seq(S)
<1>1. Cardinality(S) \in Nat /\ ExistsBijection(1..Cardinality(S), S)
  BY FS_CardinalityType
<1>2. \E f \in [1..Cardinality(S) -> S] : IsInjective(f)
  BY <1>1 DEF ExistsBijection, Bijection, Injection, IsInjective
<1>3. SetToSeq(S) \in [1..Cardinality(S) -> S]
  BY <1>2 DEF SetToSeq
<1> QED
  BY <1>1, <1>3

\* What the second phase logs, whichever resources throw.
LEMMA SecondPhaseLines ==
  ASSUME NEW u \in TxUid, NEW action \in {"Commit", "Abort"},
         NEW lines \in SecondPhase(u, action)
  PROVE  lines \in Seq(PhaseTwoLine(u)) /\ (service = "JTA" => lines = <<>>)
<1> DEFINE order == SetToSeq(Enlisted(u))
           Visit(rm, throws) ==
             IF throws
             THEN <<TopLevel(u, rm, action), Threw(u, rm), Outcome(u, rm, "FINISH_ERROR")>>
             ELSE <<TopLevel(u, rm, action), Outcome(u, rm, "FINISH_OK")>>
           visits(throwing) == [i \in DOMAIN order |-> Visit(order[i], order[i] \in throwing)]
<1>1. CASE service = "JTA"
  BY <1>1 DEF SecondPhase, Wording
<1>2. CASE service # "JTA"
  <2>1. PICK throwing \in SUBSET Enlisted(u) : lines = FlattenSeq(visits(throwing))
    BY <1>2 DEF SecondPhase, Wording
  <2>2. order \in Seq(Enlisted(u))
    BY FS_Subset, SetToSeqRange, CommitmentAssumption DEF Enlisted
  <2>3. ASSUME NEW rm \in Enlisted(u)
        PROVE  {TopLevel(u, rm, action), Threw(u, rm), Outcome(u, rm, "FINISH_ERROR"),
                Outcome(u, rm, "FINISH_OK")} \subseteq PhaseTwoLine(u)
    BY DEF TopLevel, Threw, Outcome, PhaseTwoLine, Rec!Line, RmUid, Enlisted,
           Rec!TwoPhaseOutcome
  <2>4. ASSUME NEW rm \in Enlisted(u), NEW throwers
        PROVE  Visit(rm, rm \in throwers) \in Seq(PhaseTwoLine(u))
    BY <2>3
  <2> HIDE DEF Visit, order
  <2>5. visits(throwing) \in Seq(Seq(PhaseTwoLine(u)))
    <3>1. Len(order) \in Nat /\ DOMAIN order = 1..Len(order)
          /\ \A i \in DOMAIN order : order[i] \in Enlisted(u)
      BY <2>2
    <3>2. \A i \in DOMAIN order :
            Visit(order[i], order[i] \in throwing) \in Seq(PhaseTwoLine(u))
      BY <2>4, <3>1
    <3> QED
      BY <3>1, <3>2
  <2> QED
    BY <1>2, <2>1, <2>5, FlattenSeqType
<1> QED
  BY <1>1, <1>2

-----------------------------------------------------------------------------
(* Rows.                                                                    *)

\* The operators on a row: what they change, and what they leave.
LEMMA AddEventEffect ==
  ASSUME NEW t \in Rec!Transaction, NEW e \in Rec!EventType, NEW n \in RM \cup {Server}
  PROVE  /\ Rec!AddEvent(t, e, n) \in Rec!Transaction
         /\ Rec!AddEvent(t, e, n).status = t.status
         /\ Rec!AddEvent(t, e, n).ended = t.ended
         /\ Rec!AddEvent(t, e, n).participants = t.participants
<1>1. Append(t.events, [type |-> e, entity |-> n]) \in Seq(Rec!Event)
  BY DEF Rec!Transaction, Rec!Event
<1> QED
  BY <1>1 DEF Rec!AddEvent, Rec!Transaction

\* setStatus() changes the status and perhaps the end time, and no participant.
LEMMA SetStatusEffect ==
  ASSUME NEW t \in Rec!Transaction, NEW s \in Rec!Status
  PROVE  /\ Rec!SetStatus(t, s) \in Rec!Transaction
         /\ Rec!SetStatus(t, s).status = s
         /\ Rec!SetStatus(t, s).ended = IF s \in Rec!EndingStatus THEN TRUE ELSE t.ended
         /\ Rec!SetStatus(t, s).participants = t.participants
<1> DEFINE v == [t EXCEPT !.status = s, !.ended = @ \/ s \in Rec!EndingStatus]
<1>1. /\ v \in Rec!Transaction /\ v.status = s /\ v.participants = t.participants
      /\ v.ended = IF s \in Rec!EndingStatus THEN TRUE ELSE t.ended
  BY DEF Rec!Transaction
<1>2. s \in Rec!EventfulStatus => Rec!StatusEvent(s) \in Rec!EventType
  BY DEF Rec!EventfulStatus, Rec!StatusEvent, Rec!EventType
<1>3. Rec!SetStatus(t, s) = IF s \in Rec!EventfulStatus
                            THEN Rec!AddEvent(v, Rec!StatusEvent(s), Server) ELSE v
  BY DEF Rec!SetStatus
<1> HIDE DEF v
<1>4. CASE s \in Rec!EventfulStatus
  <2> DEFINE w == Rec!AddEvent(v, Rec!StatusEvent(s), Server)
  <2>1. /\ w \in Rec!Transaction /\ w.status = v.status /\ w.ended = v.ended
        /\ w.participants = v.participants
    BY <1>1, <1>2, <1>4, AddEventEffect
  <2>2. Rec!SetStatus(t, s) = w
    BY <1>3, <1>4
  <2> HIDE DEF w
  <2> QED
    BY <1>1, <2>1, <2>2
<1>5. CASE s \notin Rec!EventfulStatus
  BY <1>1, <1>3, <1>5
<1> QED
  BY <1>4, <1>5

\* The status a line leaves a row with whose status is s.
NewStatus(l, s) ==
  CASE l.type = "prepare" -> "PREPARE"
    [] l.type = "onePhaseCommit" -> "ONE_PHASE_COMMIT"
    [] l.type = "Abort" -> "PHASE_ONE_ABORT"
    [] l.type = "phase2Commit" /\ s = "PREPARE" -> "COMMIT"
    [] l.type = "phase2Abort" /\ s = "PREPARE" -> "PHASE_TWO_ABORT"
    [] l.type = "End" -> Rec!EndStatus(l.result)
    [] OTHER -> s

\* Whether the line leaves row t with an end time.
NewEnded(l, t) ==
  IF \/ l.type \in {"onePhaseCommit", "Abort"}
     \/ l.type \in {"phase2Commit", "phase2Abort"} /\ t.status = "PREPARE"
  THEN TRUE ELSE t.ended

\* What HandlerService sets a status for: phase two counts after a prepare only.
LEMMA AfterSetStatusEffect ==
  ASSUME NEW t \in Rec!Transaction, NEW s \in Rec!Status
  PROVE  /\ Rec!AfterSetStatus(t, s) \in Rec!Transaction
         /\ Rec!AfterSetStatus(t, s).participants = t.participants
         /\ Rec!AfterSetStatus(t, s).status =
              IF s \in {"COMMIT", "PHASE_TWO_ABORT"} /\ t.status # "PREPARE"
              THEN t.status ELSE s
         /\ Rec!AfterSetStatus(t, s).ended =
              IF /\ s \in Rec!EndingStatus
                 /\ s \in {"COMMIT", "PHASE_TWO_ABORT"} => t.status = "PREPARE"
              THEN TRUE ELSE t.ended
BY AddEventEffect, SetStatusEffect DEF Rec!AfterSetStatus, Rec!EventType

\* The result of End() replaces whatever status there is, and sets no end time.
LEMMA AfterEndEffect ==
  ASSUME NEW t \in Rec!Transaction, NEW a \in Rec!ActionStatus
  PROVE  /\ Rec!AfterEnd(t, a) \in Rec!Transaction
         /\ Rec!AfterEnd(t, a).participants = t.participants
         /\ Rec!AfterEnd(t, a).status = Rec!EndStatus(a)
         /\ Rec!AfterEnd(t, a).ended = t.ended
<1>1. Rec!EndStatus(a) \in Rec!Status \ Rec!EndingStatus
  BY DEF Rec!ActionStatus, Rec!EndStatus, Rec!Status, Rec!EndingStatus, Rec!EventfulStatus
<1>2. Rec!EndEvent(a) \in Rec!EventType
  BY DEF Rec!ActionStatus, Rec!EndEvent, Rec!EndStatus, Rec!EventType
<1> DEFINE v == Rec!SetStatus(t, Rec!EndStatus(a))
<1>3. /\ v \in Rec!Transaction /\ v.status = Rec!EndStatus(a) /\ v.ended = t.ended
      /\ v.participants = t.participants
  BY <1>1, SetStatusEffect
<1>4. Rec!AfterEnd(t, a) = Rec!AddEvent(v, Rec!EndEvent(a), Server)
  BY DEF Rec!AfterEnd
<1> HIDE DEF v
<1> QED
  BY <1>2, <1>3, <1>4, AddEventEffect

\* A new participant is the last, has no vote, and leaves the status alone.
LEMMA AddParticipantEffect ==
  ASSUME NEW t \in Rec!Transaction, NEW rm \in RM, NEW id \in RmUid \cup {NoRmUid}
  PROVE  /\ Rec!AddParticipant(t, rm, id) \in Rec!Transaction
         /\ Rec!AddParticipant(t, rm, id).status = t.status
         /\ Rec!AddParticipant(t, rm, id).ended = t.ended
         /\ Rec!AddParticipant(t, rm, id).participants =
              Append(t.participants,
                     [rm |-> rm, rmuid |-> id, vote |-> "UNKNOWN", xaException |-> FALSE])
<1> DEFINE p == [rm |-> rm, rmuid |-> id, vote |-> "UNKNOWN", xaException |-> FALSE]
           v == [t EXCEPT !.participants = Append(@, p)]
<1>1. p \in Rec!Participant
  BY DEF Rec!Participant, Rec!Vote
<1>2. Append(t.participants, p) \in Seq(Rec!Participant)
  BY <1>1 DEF Rec!Transaction
<1> HIDE DEF p
<1>3. v \in Rec!Transaction /\ v.status = t.status /\ v.ended = t.ended
      /\ v.participants = Append(t.participants, p)
  BY <1>2 DEF Rec!Transaction
<1>4. Rec!AddParticipant(t, rm, id) = Rec!AddEvent(v, "ENLIST", rm)
  BY DEF Rec!AddParticipant, p
<1>5. rm \in RM \cup {Server} /\ "ENLIST" \in Rec!EventType
  BY DEF Rec!EventType
<1> HIDE DEF v
<1> QED
  BY <1>3, <1>4, <1>5, AddEventEffect DEF p

\* Status and end time are the same.
SameHead(s, t) == s.status = t.status /\ s.ended = t.ended

\* A vote or an exception changes one participant, and not what it is of.
LEMMA ParticipantEffect ==
  ASSUME NEW t \in Rec!Transaction, NEW i \in DOMAIN t.participants,
         NEW p \in Rec!Participant
  PROVE  LET new == [t.participants EXCEPT ![i] = p]
             s == [t EXCEPT !.participants = new]
         IN  s \in Rec!Transaction /\ SameHead(s, t) /\ s.participants = new
<1> DEFINE new == [t.participants EXCEPT ![i] = p]
<1>1. new \in Seq(Rec!Participant)
  BY DEF Rec!Transaction
<1> HIDE DEF new
<1>2. LET s == [t EXCEPT !.participants = new]
      IN  s \in Rec!Transaction /\ SameHead(s, t) /\ s.participants = new
  BY <1>1 DEF Rec!Transaction, SameHead
<1> QED
  BY <1>2 DEF new

\* A vote changes the one participant it is of.
LEMMA VoteEffect ==
  ASSUME NEW t \in Rec!Transaction, NEW i \in DOMAIN t.participants, NEW v \in Rec!Vote
  PROVE  /\ Rec!SetVote(t, i, v) \in Rec!Transaction
         /\ SameHead(Rec!SetVote(t, i, v), t)
         /\ Rec!SetVote(t, i, v).participants =
              [t.participants EXCEPT ![i] = [t.participants[i] EXCEPT !.vote = v]]
<1> DEFINE p == [t.participants[i] EXCEPT !.vote = v]
<1>0. t.participants \in Seq(Rec!Participant) /\ t.participants[i] \in Rec!Participant
  BY DEF Rec!Transaction
<1>1. p \in Rec!Participant
  BY <1>0 DEF Rec!Participant
<1>2. Rec!SetVote(t, i, v) =
        [t EXCEPT !.participants = [t.participants EXCEPT ![i] = p]]
  BY DEF Rec!SetVote, Rec!Transaction
<1> HIDE DEF p
<1>3. LET new == [t.participants EXCEPT ![i] = p]
          s == [t EXCEPT !.participants = new]
      IN  s \in Rec!Transaction /\ SameHead(s, t) /\ s.participants = new
  BY <1>1, ParticipantEffect
<1> QED
  BY <1>2, <1>3 DEF p

\* An exception marks the one participant it is of.
LEMMA BlameEffect ==
  ASSUME NEW t \in Rec!Transaction, NEW i \in DOMAIN t.participants
  PROVE  /\ Rec!Blame(t, i) \in Rec!Transaction
         /\ SameHead(Rec!Blame(t, i), t)
         /\ Rec!Blame(t, i).participants =
              [t.participants EXCEPT ![i] = [t.participants[i] EXCEPT !.xaException = TRUE]]
<1> DEFINE p == [t.participants[i] EXCEPT !.xaException = TRUE]
<1>0. t.participants \in Seq(Rec!Participant) /\ t.participants[i] \in Rec!Participant
  BY DEF Rec!Transaction
<1>1. p \in Rec!Participant
  BY <1>0 DEF Rec!Participant
<1>2. Rec!Blame(t, i) =
        [t EXCEPT !.participants = [t.participants EXCEPT ![i] = p]]
  BY DEF Rec!Blame, Rec!Transaction
<1> HIDE DEF p
<1>3. LET new == [t.participants EXCEPT ![i] = p]
          s == [t EXCEPT !.participants = new]
      IN  s \in Rec!Transaction /\ SameHead(s, t) /\ s.participants = new
  BY <1>1, ParticipantEffect
<1> QED
  BY <1>2, <1>3 DEF p

-----------------------------------------------------------------------------
(* What the monitor does with a line.                                       *)

ResourceTypes == {"topLevel", "doResult", "JTSException"}
VotingTypes == {"topLevelPrepare", "XAException", "doResult", "JTSException"}
EnlistingTypes == {"XAResourceRecord", "enlistResource"}

\* The groups a line has, by its type.
LEMMA LineGroups ==
  ASSUME NEW l \in Rec!Line
  PROVE  /\ l.type \in Rec!BasicActionLine \cup ResourceTypes \cup VotingTypes
                         \cup EnlistingTypes \cup {"prepare_failed", "get_status", "End"}
         /\ l.type \notin ResourceTypes => "txuid" \in DOMAIN l /\ l.txuid \in TxUid
         /\ l.type \in {"topLevelPrepare", "XAException"} \cup EnlistingTypes => l.rm \in RM
         /\ l.type \in {"enlistResource"} \cup ResourceTypes => l.rmuid \in TxUid \X RM
         /\ l.type \in ResourceTypes => "txuid" \notin DOMAIN l
         /\ l.type = "End" => l.result \in Rec!ActionStatus
         /\ l.type = "topLevel" => l.action \in {"Prepare", "Commit", "Abort"}
         /\ l.type = "doResult" => l.outcome \in Rec!TwoPhaseOutcome
BY DEF Rec!Line, Rec!BasicActionLine, ResourceTypes, VotingTypes, EnlistingTypes, RmUid

\* A line is about one transaction.
LEMMA AboutOne ==
  ASSUME NEW l \in Rec!Line
  PROVE  /\ \E u \in TxUid : About(l, u)
         /\ \A u, v : About(l, u) /\ About(l, v) => u = v
         /\ \A u : About(l, u) =>
              /\ u \in TxUid
              /\ l.type \notin ResourceTypes => l.txuid = u
              /\ l.type \in ResourceTypes => \E rm \in RM : l.rmuid = <<u, rm>>
BY LineGroups DEF About

\* The participants of u that a line is about, and what it makes of each.
Concerned(l, u) ==
  IF l.type \in ResourceTypes THEN Rec!ByRmUid(u, l.rmuid) ELSE Rec!ByName(u, l.rm)

Voted(l, p) ==
  CASE l.type = "topLevelPrepare" -> [p EXCEPT !.vote = "COMMIT"]
    [] l.type = "XAException" -> [p EXCEPT !.vote = "ABORT", !.xaException = TRUE]
    [] l.type = "JTSException" -> [p EXCEPT !.xaException = TRUE]
    [] l.type = "doResult" /\ l.outcome \in {"PREPARE_OK", "PREPARE_READONLY"} ->
         [p EXCEPT !.vote = "COMMIT"]
    [] l.type = "doResult" /\ l.outcome = "PREPARE_NOTOK" -> [p EXCEPT !.vote = "ABORT"]
    [] OTHER -> p

NewParticipant(l) ==
  [rm |-> l.rm, rmuid |-> IF l.type = "enlistResource" THEN l.rmuid ELSE NoRmUid,
   vote |-> "UNKNOWN", xaException |-> FALSE]

\* What a line may do to the participants of u.
ParticipantsAfter(l, u) ==
  LET old == tx[u].participants
      new == tx'[u].participants
  IN  /\ l.type \notin VotingTypes \cup EnlistingTypes => new = old
      /\ l.type \in VotingTypes =>
           \/ new = old /\ ~ \E i \in DOMAIN old : Concerned(l, u) = {i}
           \/ \E i \in Concerned(l, u) :
                i \in DOMAIN old /\ new = [old EXCEPT ![i] = Voted(l, old[i])]
      /\ l.type \in EnlistingTypes =>
           new = old \/ (rows[u] = 1 /\ new = Append(old, NewParticipant(l)))

\* What a line about u, other than its Begin, does.
Read(l, u) ==
  /\ Rec!TypeOK'
  /\ \A v \in TxUid : v # u => tx'[v] = tx[v] /\ rows'[v] = rows[v]
  /\ \/ /\ rows'[u] = rows[u]
        /\ tx'[u].status = IF rows[u] = 1 THEN NewStatus(l, tx[u].status) ELSE tx[u].status
        /\ tx'[u].ended = IF rows[u] = 1 THEN NewEnded(l, tx[u]) ELSE tx[u].ended
        /\ ParticipantsAfter(l, u)
     \/ /\ l.type = "get_status" /\ tx[u].participants = <<>>
        /\ rows'[u] = 0 /\ tx'[u] = Rec!NoTransaction

Owned == \A u \in TxUid : \A i \in DOMAIN tx[u].participants :
           LET p == tx[u].participants[i] IN p.rmuid \in {NoRmUid, <<u, p.rm>>}

\* A line that changes the row of u to t.
LEMMA UpdateReads ==
  ASSUME Rec!TypeOK, NEW l, NEW u \in TxUid, NEW t \in Rec!Transaction, Rec!Update(u, t),
         SameHead(t, tx[u]) \/ rows[u] = 1,
         t.status = NewStatus(l, tx[u].status), t.ended = NewEnded(l, tx[u]),
         ParticipantsAfter(l, u)
  PROVE  Read(l, u)
BY DEF Rec!TypeOK, Rec!Update, Read, SameHead

\* The line leaves status and end time of a row alone.
NoHead(l) == \A t : NewStatus(l, t.status) = t.status /\ NewEnded(l, t) = t.ended

\* A line that is lost, of a type that has not the row's status to set.
LEMMA LostReads ==
  ASSUME Rec!TypeOK, NEW l, NEW u \in TxUid, Rec!Lost,
         rows[u] # 1 \/ NoHead(l),
         ParticipantsAfter(l, u)
  PROVE  Read(l, u)
BY DEF Rec!TypeOK, Rec!Lost, Rec!dbVars, Read, NoHead

\* A line about the transaction as a whole is read.
LEMMA StatusLineReads ==
  ASSUME Rec!TypeOK, NEW l \in Rec!Line, NEW u \in TxUid, About(l, u), l.type # "Begin",
         Rec!BasicActionHandler(l) \/ Rec!TxPrepareFailedHandler(l)
           \/ Rec!TxFinalStatusHandler(l)
  PROVE  Read(l, u)
<1>1. l.type \notin ResourceTypes \cup VotingTypes \cup EnlistingTypes => l.txuid = u
  BY AboutOne
<1>2. tx[u] \in Rec!Transaction
  BY DEF Rec!TypeOK
<1>3. ASSUME NEW t \in Rec!Transaction, Rec!OnTransaction(u, t),
             l.type \notin VotingTypes \cup EnlistingTypes,
             t.participants = tx[u].participants,
             t.status = NewStatus(l, tx[u].status), t.ended = NewEnded(l, tx[u])
      PROVE  Read(l, u)
  <2>1. tx'[u].participants = tx[u].participants
    BY <1>3 DEF Rec!OnTransaction, Rec!Update, Rec!Lost, Rec!dbVars, Rec!TypeOK
  <2>2. ParticipantsAfter(l, u)
    BY <1>3, <2>1 DEF ParticipantsAfter
  <2> QED
    BY <1>3, <2>2, UpdateReads, LostReads DEF Rec!OnTransaction, Rec!Found
<1>4. ASSUME NEW s \in Rec!Status, Rec!RecordStatus(u, s),
             l.type \notin VotingTypes \cup EnlistingTypes,
             NewStatus(l, tx[u].status) =
               IF s \in {"COMMIT", "PHASE_TWO_ABORT"} /\ tx[u].status # "PREPARE"
               THEN tx[u].status ELSE s,
             NewEnded(l, tx[u]) =
               IF /\ s \in Rec!EndingStatus
                  /\ s \in {"COMMIT", "PHASE_TWO_ABORT"} => tx[u].status = "PREPARE"
               THEN TRUE ELSE tx[u].ended
      PROVE  Read(l, u)
  BY <1>2, <1>3, <1>4, AfterSetStatusEffect DEF Rec!RecordStatus
<1>5. CASE Rec!BasicActionHandler(l)
  BY <1>1, <1>4, <1>5
     DEF Rec!BasicActionHandler, Rec!Prepare, Rec!Abort, Rec!Phase2Abort, Rec!Phase2Commit,
         Rec!OnePhaseCommit, Rec!Status, Rec!EndingStatus, Rec!EventfulStatus,
         NewStatus, NewEnded, ResourceTypes, VotingTypes, EnlistingTypes
<1>6. CASE Rec!TxPrepareFailedHandler(l)
  <2>1. Rec!AddEvent(tx[u], "PREPARE_FAILED", Server) \in Rec!Transaction
        /\ SameHead(Rec!AddEvent(tx[u], "PREPARE_FAILED", Server), tx[u])
        /\ Rec!AddEvent(tx[u], "PREPARE_FAILED", Server).participants = tx[u].participants
    BY <1>2, AddEventEffect DEF Rec!EventType, SameHead
  <2>2. l.type = "prepare_failed" /\ Rec!TxPrepareFailed(u)
    BY <1>1, <1>6 DEF Rec!TxPrepareFailedHandler, ResourceTypes, VotingTypes, EnlistingTypes
  <2> QED
    BY <1>3, <2>1, <2>2
       DEF Rec!TxPrepareFailed, NewStatus, NewEnded, SameHead, VotingTypes, EnlistingTypes
<1>7. CASE Rec!TxFinalStatusHandler(l)
  <2>1. l.type = "End" /\ Rec!End(u, l.result) /\ l.result \in Rec!ActionStatus
    BY <1>1, <1>7, LineGroups
       DEF Rec!TxFinalStatusHandler, ResourceTypes, VotingTypes, EnlistingTypes
  <2> QED
    BY <1>2, <1>3, <2>1, AfterEndEffect
       DEF Rec!End, NewStatus, NewEnded, VotingTypes, EnlistingTypes
<1> QED
  BY <1>5, <1>6, <1>7

\* The line of a status query is read: the transaction may be removed.
LEMMA CleanupReads ==
  ASSUME Rec!TypeOK, NEW l \in Rec!Line, NEW u \in TxUid, About(l, u),
         Rec!ArjunaTransactionImpleHandler(l)
  PROVE  Read(l, u)
<1>1. l.type = "get_status" /\ Rec!Cleanup(u)
  BY AboutOne DEF Rec!ArjunaTransactionImpleHandler, ResourceTypes
<1>2. CASE Rec!Lost
  <2>1. ParticipantsAfter(l, u)
    BY <1>1, <1>2 DEF ParticipantsAfter, VotingTypes, EnlistingTypes, Rec!Lost, Rec!dbVars
  <2> QED
    BY <1>1, <1>2, <2>1, LostReads DEF NewStatus, NewEnded, NoHead
<1>3. CASE ~ Rec!Lost
  <2>1. Rec!NoTransaction \in Rec!Transaction
    BY DEF Rec!NoTransaction, Rec!Transaction, Rec!Status
  <2> QED
    BY <1>1, <1>3, <2>1 DEF Rec!Cleanup, Read, Rec!TypeOK
<1> QED
  BY <1>2, <1>3

\* A line of an enlistment is read.
LEMMA EnlistReads ==
  ASSUME Rec!TypeOK, NEW l \in Rec!Line, NEW u \in TxUid, About(l, u),
         Rec!JTACreateResourceRecordHandler(l) \/ Rec!JTSCreateResourceRecordHandler(l)
  PROVE  Read(l, u)
<1> DEFINE id == IF l.type = "enlistResource" THEN l.rmuid ELSE NoRmUid
<1>1. /\ l.type \in EnlistingTypes /\ l.rm \in RM /\ id \in RmUid \cup {NoRmUid}
      /\ Rec!Enlist(u, l.rm, id) \/ Rec!Lost \/ Rec!InsertManager(l.rm)
  BY AboutOne, LineGroups
     DEF Rec!JTACreateResourceRecordHandler, Rec!JTSCreateResourceRecordHandler,
         Rec!EnlistResourceManagerJTA, Rec!EnlistResourceManagerJTS,
         EnlistingTypes, ResourceTypes, RmUid
<1> HIDE DEF id
<1>2. NoHead(l)
  BY <1>1 DEF NewStatus, NewEnded, NoHead, EnlistingTypes
<1>3. l.type \notin VotingTypes
  BY <1>1 DEF VotingTypes, EnlistingTypes
<1>4. tx[u] \in Rec!Transaction
  BY DEF Rec!TypeOK
<1>5. CASE tx' = tx /\ rows' = rows /\ linked' = linked /\ managers' \subseteq RM
  BY <1>1, <1>2, <1>3, <1>5 DEF Read, Rec!TypeOK, ParticipantsAfter, NoHead
<1>6. CASE /\ managers' = managers \cup {l.rm} /\ rows[u] = 1
           /\ tx' = [tx EXCEPT ![u] = Rec!AddParticipant(tx[u], l.rm, id)]
           /\ UNCHANGED <<rows, linked>>
  <2>1. /\ Rec!AddParticipant(tx[u], l.rm, id) \in Rec!Transaction
        /\ SameHead(Rec!AddParticipant(tx[u], l.rm, id), tx[u])
        /\ Rec!AddParticipant(tx[u], l.rm, id).participants =
             Append(tx[u].participants, NewParticipant(l))
    BY <1>1, <1>4, AddParticipantEffect DEF NewParticipant, SameHead, id
  <2> QED
    BY <1>1, <1>2, <1>3, <1>6, <2>1
       DEF Read, Rec!TypeOK, ParticipantsAfter, NoHead, SameHead
<1> QED
  BY <1>1, <1>5, <1>6 DEF Rec!Enlist, Rec!Found, Rec!Lost, Rec!InsertManager, Rec!dbVars, Rec!TypeOK

\* A vote or an exception, written to one of the participants it concerns.
LEMMA VoteReads ==
  ASSUME Rec!TypeOK, NEW l, l.type \in VotingTypes, NEW u \in TxUid,
         NEW i \in Concerned(l, u), i \in DOMAIN tx[u].participants,
         NEW t \in Rec!Transaction, Rec!Update(u, t), SameHead(t, tx[u]),
         t.participants = [tx[u].participants EXCEPT ![i] = Voted(l, tx[u].participants[i])]
  PROVE  Read(l, u)
<1>1. l.type \notin EnlistingTypes /\ NoHead(l)
  BY DEF VotingTypes, EnlistingTypes, NewStatus, NewEnded, NoHead
<1>2. tx'[u] = t
  BY DEF Rec!Update, Rec!TypeOK
<1>3. ParticipantsAfter(l, u)
  BY <1>1, <1>2 DEF ParticipantsAfter
<1> QED
  BY <1>1, <1>3, UpdateReads DEF NoHead, SameHead

\* One that concerns no participant, or cannot tell which.
LEMMA NoVoteReads ==
  ASSUME Rec!TypeOK, NEW l, l.type \in VotingTypes, NEW u \in TxUid, Rec!Lost,
         ~ \E i \in DOMAIN tx[u].participants : Concerned(l, u) = {i}
  PROVE  Read(l, u)
<1>1. l.type \notin EnlistingTypes /\ NoHead(l)
  BY DEF VotingTypes, EnlistingTypes, NewStatus, NewEnded, NoHead
<1>2. ParticipantsAfter(l, u)
  BY <1>1 DEF ParticipantsAfter, Rec!Lost, Rec!dbVars
<1> QED
  BY <1>1, <1>2, LostReads

\* A line of the JTA about a resource's vote is read.
LEMMA VoteLineReads ==
  ASSUME Rec!TypeOK, NEW l \in Rec!Line, NEW u \in TxUid, About(l, u),
         Rec!JTAResourceRecordHandler(l) \/ Rec!JTAResourceExceptionHandler(l)
  PROVE  Read(l, u)
<1>1. l.type \in {"topLevelPrepare", "XAException"} /\ l.txuid = u
      /\ Concerned(l, u) = Rec!ByName(u, l.rm) /\ l.type \in VotingTypes
  BY AboutOne DEF Rec!JTAResourceRecordHandler, Rec!JTAResourceExceptionHandler,
                  Concerned, ResourceTypes, VotingTypes
<1>2. \A i \in Concerned(l, u) : i \in DOMAIN tx[u].participants
  BY <1>1 DEF Rec!ByName
<1>3. tx[u] \in Rec!Transaction
  BY DEF Rec!TypeOK
<1>4. CASE ~ Rec!NamedOnce(u, l.rm)
  <2>1. Rec!Lost
    BY <1>1, <1>4 DEF Rec!JTAResourceRecordHandler, Rec!JTAResourceExceptionHandler,
                      Rec!ResourcePreparedJTA, Rec!ResourceFailedToPrepareJTA
  <2>2. ~ \E i \in DOMAIN tx[u].participants : Concerned(l, u) = {i}
    BY <1>1, <1>4 DEF Rec!NamedOnce
  <2> QED
    BY <1>1, <2>1, <2>2, NoVoteReads
<1>5. CASE Rec!JTAResourceRecordHandler(l) /\ Rec!NamedOnce(u, l.rm)
  <2>1. PICK i \in Concerned(l, u) : Rec!Update(u, Rec!SetVote(tx[u], i, "COMMIT"))
    BY <1>1, <1>5 DEF Rec!JTAResourceRecordHandler, Rec!ResourcePreparedJTA
  <2>2. /\ Rec!SetVote(tx[u], i, "COMMIT") \in Rec!Transaction
        /\ SameHead(Rec!SetVote(tx[u], i, "COMMIT"), tx[u])
        /\ Rec!SetVote(tx[u], i, "COMMIT").participants =
             [tx[u].participants EXCEPT ![i] = [tx[u].participants[i] EXCEPT !.vote = "COMMIT"]]
    BY <1>2, <1>3, VoteEffect DEF Rec!Vote
  <2>3. Voted(l, tx[u].participants[i]) = [tx[u].participants[i] EXCEPT !.vote = "COMMIT"]
    BY <1>5 DEF Voted, Rec!JTAResourceRecordHandler
  <2> QED
    BY <1>1, <1>2, <2>1, <2>2, <2>3, VoteReads
<1>6. CASE Rec!JTAResourceExceptionHandler(l) /\ Rec!NamedOnce(u, l.rm)
  <2>1. PICK i \in Concerned(l, u) : Rec!Update(u, Rec!VoteAgainst(tx[u], i))
    BY <1>1, <1>6 DEF Rec!JTAResourceExceptionHandler, Rec!ResourceFailedToPrepareJTA
  <2> DEFINE p == tx[u].participants[i]
             t == Rec!SetVote(tx[u], i, "ABORT")
  <2>2. /\ t \in Rec!Transaction /\ SameHead(t, tx[u])
        /\ t.participants = [tx[u].participants EXCEPT ![i] = [p EXCEPT !.vote = "ABORT"]]
    BY <1>2, <1>3, VoteEffect DEF Rec!Vote
  <2>3. i \in DOMAIN t.participants /\ t.participants[i] = [p EXCEPT !.vote = "ABORT"]
    BY <1>2, <2>2
  <2> HIDE DEF t
  <2>4. /\ Rec!Blame(t, i) \in Rec!Transaction /\ SameHead(Rec!Blame(t, i), tx[u])
        /\ Rec!Blame(t, i).participants =
             [t.participants EXCEPT ![i] = [t.participants[i] EXCEPT !.xaException = TRUE]]
    BY <2>2, <2>3, BlameEffect DEF SameHead
  <2>5. Rec!VoteAgainst(tx[u], i) = Rec!Blame(t, i)
    BY DEF Rec!VoteAgainst, t
  <2>6. p \in Rec!Participant
    BY <1>2, <1>3 DEF Rec!Transaction
  <2>7. Voted(l, p) = [[p EXCEPT !.vote = "ABORT"] EXCEPT !.xaException = TRUE]
    BY <1>6, <2>6 DEF Voted, Rec!JTAResourceExceptionHandler, Rec!Participant
  <2>8. Rec!Blame(t, i).participants = [tx[u].participants EXCEPT ![i] = Voted(l, p)]
    BY <2>2, <2>3, <2>4, <2>7
  <2> QED
    BY <1>1, <1>2, <2>1, <2>2, <2>4, <2>5, <2>8, VoteReads
<1> QED
  BY <1>4, <1>5, <1>6

\* A resource has one transaction: its uid tells which.
LEMMA ResourceOwner ==
  ASSUME Owned, NEW u \in TxUid, NEW v \in TxUid, NEW rm \in RM, NEW id, id = <<u, rm>>,
         NEW i \in Rec!ByRmUid(v, id)
  PROVE  v = u /\ i \in DOMAIN tx[u].participants
BY CommitmentAssumption DEF Owned, Rec!ByRmUid

\* A line of the JTS about a resource is read: it names no transaction, and
\* finds that of the participant with its id.
LEMMA ResourceLineReads ==
  ASSUME Rec!TypeOK, Owned, NEW l \in Rec!Line, NEW u \in TxUid, About(l, u),
         Rec!JTSResourceRecordHandler(l) \/ Rec!JTSResourceStatusChangeHandler(l)
           \/ Rec!JTSResourceExceptionHandler(l)
  PROVE  Read(l, u)
<1>1. /\ l.type \in ResourceTypes /\ l.type \notin EnlistingTypes
      /\ l.type # "topLevel" => l.type \in VotingTypes
  BY DEF Rec!JTSResourceRecordHandler, Rec!JTSResourceStatusChangeHandler,
         Rec!JTSResourceExceptionHandler, ResourceTypes, VotingTypes, EnlistingTypes
<1>2. PICK rm \in RM : l.rmuid = <<u, rm>>
  BY <1>1, AboutOne
<1>3. \A v \in TxUid : \A i \in Rec!ByRmUid(v, l.rmuid) :
        v = u /\ i \in DOMAIN tx[u].participants
  BY <1>2, ResourceOwner
<1>4. Concerned(l, u) = Rec!ByRmUid(u, l.rmuid)
  BY <1>1 DEF Concerned
<1>5. tx[u] \in Rec!Transaction /\ tx[u].participants \in Seq(Rec!Participant)
      /\ \A i \in DOMAIN tx[u].participants : tx[u].participants[i] \in Rec!Participant
  BY DEF Rec!TypeOK, Rec!Transaction
<1>6. NoHead(l)
  BY <1>1 DEF NewStatus, NewEnded, NoHead, ResourceTypes
<1>7. ASSUME Rec!Lost, ~ \E v \in TxUid : Rec!ByRmUid(v, l.rmuid) # {}
      PROVE  Read(l, u)
  <2>1. Concerned(l, u) = {}
    BY <1>4, <1>7
  <2>2. ParticipantsAfter(l, u)
    BY <1>1, <1>7, <2>1 DEF ParticipantsAfter, Rec!Lost, Rec!dbVars
  <2> QED
    BY <1>6, <1>7, <2>2, LostReads
<1>8. CASE Rec!JTSResourceRecordHandler(l)
  <2>1. l.type = "topLevel" /\ Rec!ActionEvent[l.action] \in Rec!EventType
        /\ Rec!ResourceStatusBeginJTS(l.rmuid, Rec!ActionEvent[l.action])
    BY <1>8, LineGroups DEF Rec!JTSResourceRecordHandler, Rec!ActionEvent, Rec!EventType
  <2>2. CASE \E v \in TxUid : Rec!ByRmUid(v, l.rmuid) # {}
    <3>1. PICK i \in Rec!ByRmUid(u, l.rmuid) :
            Rec!Update(u, Rec!AddEvent(tx[u], Rec!ActionEvent[l.action],
                                       tx[u].participants[i].rm))
      BY <1>3, <2>1, <2>2 DEF Rec!ResourceStatusBeginJTS
    <3>2. tx[u].participants[i].rm \in RM \cup {Server}
      BY <1>3, <1>5 DEF Rec!Participant
    <3> DEFINE t == Rec!AddEvent(tx[u], Rec!ActionEvent[l.action], tx[u].participants[i].rm)
    <3>3. t \in Rec!Transaction /\ SameHead(t, tx[u])
          /\ t.participants = tx[u].participants
      BY <1>5, <2>1, <3>2, AddEventEffect DEF SameHead
    <3> HIDE DEF t
    <3>4. tx'[u] = t
      BY <3>1 DEF t, Rec!Update, Rec!TypeOK
    <3>5. ParticipantsAfter(l, u)
      BY <1>1, <2>1, <3>3, <3>4 DEF ParticipantsAfter, VotingTypes
    <3>6. Rec!Update(u, t)
      BY <3>1 DEF t
    <3> QED
      BY <1>6, <3>3, <3>5, <3>6, UpdateReads DEF NoHead, SameHead
  <2> QED
    BY <1>7, <2>1, <2>2 DEF Rec!ResourceStatusBeginJTS
<1>9. CASE Rec!JTSResourceStatusChangeHandler(l)
  <2>1. l.type = "doResult" /\ l.outcome \in Rec!TwoPhaseOutcome
        /\ Rec!ResourceStatusOutcomeJTS(l.rmuid, l.outcome)
    BY <1>9, LineGroups DEF Rec!JTSResourceStatusChangeHandler
  <2>2. CASE \E v \in TxUid : Rec!ByRmUid(v, l.rmuid) # {}
    <3>1. PICK i \in Rec!ByRmUid(u, l.rmuid) :
            Rec!Update(u, Rec!AfterOutcome(tx[u], i, l.outcome))
      BY <1>3, <2>1, <2>2 DEF Rec!ResourceStatusOutcomeJTS
    <3> DEFINE p == tx[u].participants[i]
               v == Rec!AfterVote(tx[u], i, l.outcome)
    <3>2. i \in DOMAIN tx[u].participants /\ p \in Rec!Participant
          /\ p.rm \in RM \cup {Server}
      BY <1>3, <1>5 DEF Rec!Participant
    <3>3. /\ v \in Rec!Transaction /\ SameHead(v, tx[u])
          /\ v.participants = [tx[u].participants EXCEPT ![i] = Voted(l, p)]
      <4>1. CASE l.outcome \in {"PREPARE_OK", "PREPARE_READONLY"}
        <5>1. v = Rec!SetVote(tx[u], i, "COMMIT") /\ Voted(l, p) = [p EXCEPT !.vote = "COMMIT"]
          BY <2>1, <4>1 DEF Rec!AfterVote, Voted
        <5>2. LET s == Rec!SetVote(tx[u], i, "COMMIT")
              IN  /\ s \in Rec!Transaction /\ SameHead(s, tx[u])
                  /\ s.participants =
                       [tx[u].participants EXCEPT ![i] = [p EXCEPT !.vote = "COMMIT"]]
          BY <1>5, <3>2, VoteEffect DEF Rec!Vote
        <5> HIDE DEF v, p
        <5> QED
          BY <5>1, <5>2
      <4>2. CASE l.outcome = "PREPARE_NOTOK"
        <5>1. v = Rec!SetVote(tx[u], i, "ABORT") /\ Voted(l, p) = [p EXCEPT !.vote = "ABORT"]
          BY <2>1, <4>2 DEF Rec!AfterVote, Voted
        <5>2. LET s == Rec!SetVote(tx[u], i, "ABORT")
              IN  /\ s \in Rec!Transaction /\ SameHead(s, tx[u])
                  /\ s.participants =
                       [tx[u].participants EXCEPT ![i] = [p EXCEPT !.vote = "ABORT"]]
          BY <1>5, <3>2, VoteEffect DEF Rec!Vote
        <5> HIDE DEF v, p
        <5> QED
          BY <5>1, <5>2
      <4>3. CASE l.outcome \notin {"PREPARE_OK", "PREPARE_READONLY", "PREPARE_NOTOK"}
        <5>1. v = tx[u] /\ Voted(l, p) = p
          BY <2>1, <4>3 DEF Rec!AfterVote, Voted
        <5>2. tx[u].participants = [tx[u].participants EXCEPT ![i] = p]
          BY <1>5, <3>2
        <5> QED
          BY <1>5, <5>1, <5>2 DEF SameHead
      <4> QED
        BY <4>1, <4>2, <4>3
    <3> HIDE DEF v
    <3>4. Rec!OutcomeEvent(l.outcome) \in Rec!EventType
      BY <2>1 DEF Rec!OutcomeEvent, Rec!TwoPhaseOutcome, Rec!EventType
    <3> DEFINE t == Rec!AddEvent(v, Rec!OutcomeEvent(l.outcome), p.rm)
    <3>5. t \in Rec!Transaction /\ SameHead(t, tx[u])
          /\ t.participants = [tx[u].participants EXCEPT ![i] = Voted(l, p)]
      BY <3>2, <3>3, <3>4, AddEventEffect DEF SameHead
    <3>6. Rec!Update(u, t)
      BY <3>1 DEF Rec!AfterOutcome, v
    <3> HIDE DEF t
    <3> QED
      BY <1>1, <1>4, <2>1, <3>2, <3>5, <3>6, VoteReads
  <2> QED
    BY <1>7, <2>1, <2>2 DEF Rec!ResourceStatusOutcomeJTS
<1>10. CASE Rec!JTSResourceExceptionHandler(l)
  <2>1. l.type = "JTSException" /\ Rec!ResourceThrewException(l.rmuid)
    BY <1>10 DEF Rec!JTSResourceExceptionHandler
  <2>2. CASE \E v \in TxUid : Rec!ByRmUid(v, l.rmuid) # {}
    <3>1. PICK i \in Rec!ByRmUid(u, l.rmuid) : Rec!Update(u, Rec!Blame(tx[u], i))
      BY <1>3, <2>1, <2>2 DEF Rec!ResourceThrewException
    <3>2. i \in DOMAIN tx[u].participants
      BY <1>3
    <3>3. Voted(l, tx[u].participants[i]) = [tx[u].participants[i] EXCEPT !.xaException = TRUE]
      BY <2>1 DEF Voted
    <3>4. /\ Rec!Blame(tx[u], i) \in Rec!Transaction
          /\ SameHead(Rec!Blame(tx[u], i), tx[u])
          /\ Rec!Blame(tx[u], i).participants =
               [tx[u].participants EXCEPT ![i] = Voted(l, tx[u].participants[i])]
      BY <1>5, <3>2, <3>3, BlameEffect
    <3> QED
      BY <1>1, <1>4, <2>1, <3>1, <3>2, <3>4, VoteReads
  <2> QED
    BY <1>7, <2>1, <2>2 DEF Rec!ResourceThrewException
<1> QED
  BY <1>8, <1>9, <1>10

\* Whatever handler takes a line: Begin makes a row, any other line is read.
LEMMA HandleReads ==
  ASSUME Rec!TypeOK, Owned, NEW l \in Rec!Line, Rec!Handle(l), NEW u \in TxUid, About(l, u)
  PROVE  IF l.type = "Begin" THEN Rec!Begin(u) ELSE Read(l, u)
<1>1. CASE l.type = "Begin"
  <2>1. l.txuid = u
    BY <1>1, AboutOne DEF ResourceTypes
  <2> QED
    BY <1>1, <2>1
       DEF Rec!Handle, Rec!BasicActionHandler, Rec!TxPrepareFailedHandler,
           Rec!TxFinalStatusHandler, Rec!ArjunaTransactionImpleHandler,
           Rec!JTACreateResourceRecordHandler, Rec!JTAResourceRecordHandler,
           Rec!JTAResourceExceptionHandler, Rec!JTSCreateResourceRecordHandler,
           Rec!JTSResourceRecordHandler, Rec!JTSResourceStatusChangeHandler,
           Rec!JTSResourceExceptionHandler
<1>2. CASE l.type # "Begin"
  BY <1>2, StatusLineReads, CleanupReads, EnlistReads, VoteLineReads, ResourceLineReads
     DEF Rec!Handle
<1> QED
  BY <1>1, <1>2

-----------------------------------------------------------------------------
(* Steps that leave u alone.                                                *)

SameCoordinator(u) ==
  /\ stage'[u] = stage[u] /\ branch'[u] = branch[u]
  /\ decision'[u] = decision[u] /\ ended'[u] = ended[u]

SameRow(u) == tx'[u] = tx[u] /\ rows'[u] = rows[u]

\* The lines about u are the same, d positions nearer to the front.
Shifted(u, d) ==
  /\ DOMAIN log \subseteq Nat /\ DOMAIN log' \subseteq Nat
  /\ \A i \in DOMAIN log' :
       About(log'[i], u) => i + d \in DOMAIN log /\ log'[i] = log[i + d]
  /\ \A i \in DOMAIN log :
       About(log[i], u) => i - d \in DOMAIN log' /\ log'[i - d] = log[i]

\* What a step does not touch keeps the invariant.
LEMMA OthersKeep ==
  ASSUME NEW u \in TxUid, UInv(u), SameCoordinator(u), SameRow(u), gap' = gap,
         NEW d \in {0, 1}, Shifted(u, d)
  PROVE  UInv(u)'
<1>1. Recoverable(u)' <=> Recoverable(u)
  BY DEF Recoverable, Enlisted, SameCoordinator
<1>2. Shown(u)' = Shown(u)
  BY DEF Shown, SameRow
<1>3. CoordInv(u)'
  BY <1>1 DEF UInv, CoordInv, SameCoordinator
<1>4. RowInv(u)'
  BY <1>1, <1>2 DEF UInv, RowInv, SameCoordinator, SameRow
<1>5. LogInv(u)'
  BY <1>1, <1>2 DEF UInv, LogInv, LineInv, SameCoordinator, SameRow, Shifted
<1>6. OrderInv(u)'
  <2> SUFFICES ASSUME NEW i \in DOMAIN log', NEW j \in DOMAIN log', i < j,
                      About(log'[i], u), About(log'[j], u)
               PROVE  log'[j].type # "Begin" /\ (Opening(log'[j]) => ~ Telling(log'[i]))
    BY DEF OrderInv, About, Opening, Telling
  <2>1. /\ i + d \in DOMAIN log /\ j + d \in DOMAIN log /\ i + d < j + d
        /\ log'[i] = log[i + d] /\ log'[j] = log[j + d]
    BY DEF Shifted
  <2> QED
    BY <2>1 DEF UInv, OrderInv
<1>7. ProgressInv(u)'
  <2>1. ASSUME NEW types PROVE Pending(u, types)' <=> Pending(u, types)
    BY DEF Pending, Shifted, About
  <2>2. ASSUME NEW i \in DOMAIN log', About(log'[i], u),
               NEW j \in DOMAIN log, i + d < j, About(log[j], u)
        PROVE  j - d \in DOMAIN log' /\ i < j - d /\ log'[j - d] = log[j]
    BY <2>2 DEF Shifted
  <2>3. ASSUME NEW i \in DOMAIN log', About(log'[i], u), log'[i].type = "prepare", ~ gap,
               stage[u] \notin {"none", "active", "preparing"}
        PROVE  \E j \in DOMAIN log' :
                 i < j /\ About(log'[j], u) /\ log'[j].type \in PhaseTwo
    <3>1. i + d \in DOMAIN log /\ log'[i] = log[i + d]
      BY <2>3 DEF Shifted
    <3>2. PICK j \in DOMAIN log : i + d < j /\ About(log[j], u) /\ log[j].type \in PhaseTwo
      BY <2>3, <3>1 DEF UInv, ProgressInv
    <3> QED
      BY <2>2, <2>3, <3>2
  <2> QED
    BY <2>1, <2>3 DEF UInv, ProgressInv, SameCoordinator, SameRow, About
<1> QED
  BY <1>3, <1>4, <1>5, <1>6, <1>7 DEF UInv

-----------------------------------------------------------------------------
(* Steps of a coordinator.                                                  *)

\* A line that neither enlists a resource nor is a vote.
Quiet(l) ==
  /\ l.type \notin {"topLevelPrepare", "XAException"} \cup EnlistingTypes
  /\ l.type = "doResult" => l.outcome \in {"FINISH_OK", "FINISH_ERROR"}

\* What all of them have in common: u goes on, and writes lines that are true.
Advances(u, lines) ==
  /\ lines \in Seq(Rec!Line) /\ log' = log \o lines
  /\ UNCHANGED <<service, dbVars, gap>>
  /\ \A v \in TxUid : v # u => SameCoordinator(v)
  /\ CoordInv(u)'
  /\ stage'[u] # "none" /\ stage[u] # "done"
  /\ stage[u] \notin {"none", "active"} => stage'[u] \notin {"none", "active"}
  /\ stage[u] \notin {"none", "active", "one_phase"} => stage'[u] # "one_phase"
  /\ stage[u] \notin {"none", "active", "preparing"} => stage'[u] # "preparing"
  /\ stage'[u] # "active" => (Recoverable(u)' <=> Recoverable(u))
  /\ decision[u] # "none" => decision'[u] = decision[u]
  /\ ended[u] # "none" => ended'[u] = ended[u]
  /\ \A k \in DOMAIN lines :
       /\ About(lines[k], u) /\ LineInv(lines[k], u)'
       /\ lines[k].type = "Begin" => stage[u] = "none"
       /\ lines[k].type = "prepare" => stage'[u] = "preparing"
       /\ Opening(lines[k]) => k = 1 /\ decision[u] = "none"
  /\ (stage[u] \in {"none", "active"} /\ stage'[u] \notin {"none", "active"}) =>
       \E k \in DOMAIN lines : lines[k].type \in {"prepare", "onePhaseCommit", "Abort"}
  /\ (stage[u] = "preparing" /\ stage'[u] # "preparing") =>
       \E k \in DOMAIN lines : lines[k].type \in PhaseTwo
  /\ (stage'[u] # stage[u] \/ stage[u] \notin {"active", "preparing"}) =>
       branch' = branch /\ \A k \in DOMAIN lines : Quiet(lines[k])

\* The coordinator of one transaction leaves the others' invariant alone.
LEMMA AdvanceOthers ==
  ASSUME IInv, NEW u \in TxUid, NEW lines, Advances(u, lines), NEW v \in TxUid, v # u
  PROVE  UInv(v)'
<1>1. log \in Seq(Rec!Line) /\ lines \in Seq(Rec!Line)
  BY DEF IInv, TypeOK, Advances
<1>2. Shifted(v, 0)
  <2>1. \A k \in DOMAIN lines : ~ About(lines[k], v)
    BY <1>1, AboutOne DEF Advances
  <2>2. DOMAIN log \subseteq Nat /\ DOMAIN log' \subseteq Nat
    BY <1>1 DEF Advances
  <2> QED
    BY <1>1, <2>1, <2>2, Appended DEF Shifted, Advances
<1> QED
  BY <1>2, OthersKeep DEF IInv, Advances, SameRow, dbVars

\* An advance of the coordinator keeps the invariant of its transaction.
LEMMA AdvanceKeeps ==
  ASSUME IInv, NEW u \in TxUid, NEW lines, Advances(u, lines)
  PROVE  UInv(u)'
<1> DEFINE n == Len(log)
<1>1. lines \in Seq(Rec!Line) /\ log' = log \o lines /\ log \in Seq(Rec!Line)
  BY DEF IInv, TypeOK, Advances
<1>2. /\ \A i \in DOMAIN log : i \in Nat /\ i <= n /\ i \in DOMAIN log' /\ log'[i] = log[i]
      /\ \A i \in DOMAIN log' : \/ i \in DOMAIN log
                                \/ \E k \in DOMAIN lines : i = n + k /\ log'[i] = lines[k]
      /\ \A k \in DOMAIN lines : n + k \in DOMAIN log' /\ log'[n + k] = lines[k]
      /\ n \in Nat /\ DOMAIN lines \subseteq Nat \ {0}
  BY <1>1, Appended
<1> HIDE DEF n
<1>3. tx' = tx /\ rows' = rows /\ gap' = gap
  BY DEF Advances, dbVars
<1>4. Shown(u)' = Shown(u)
  BY <1>3 DEF Shown
<1>5. CoordInv(u) /\ RowInv(u) /\ LogInv(u) /\ OrderInv(u) /\ ProgressInv(u)
  BY DEF IInv, UInv
<1>6. CoordInv(u)'
  BY DEF Advances
<1>7. RowInv(u)'
  BY <1>3, <1>4, <1>5 DEF RowInv, Advances
<1>8. LogInv(u)'
  <2>1. ASSUME NEW l, LineInv(l, u) PROVE LineInv(l, u)'
    <3>1. l.type = "End" => ended[u] # "none"
      BY <2>1 DEF LineInv, EndOf
    <3> QED
      BY <1>3, <1>4, <1>5, <2>1, <3>1 DEF LineInv, Advances, CoordInv
  <2>2. ASSUME NEW i \in DOMAIN log', About(log'[i], u), NEW l, l = log'[i]
        PROVE  LineInv(l, u)'
    <3>1. CASE i \in DOMAIN log
      BY <1>2, <1>5, <2>1, <2>2, <3>1 DEF LogInv
    <3>2. CASE \E k \in DOMAIN lines : i = n + k /\ log'[i] = lines[k]
      BY <2>2, <3>2 DEF Advances
    <3> QED
      BY <1>2, <3>1, <3>2
  <2> QED
    BY <2>2 DEF LogInv, About, LineInv, Opening
<1>9. OrderInv(u)'
  <2> SUFFICES ASSUME NEW i \in DOMAIN log', NEW j \in DOMAIN log', i < j,
                      About(log'[i], u), About(log'[j], u)
               PROVE  log'[j].type # "Begin" /\ (Opening(log'[j]) => ~ Telling(log'[i]))
    BY DEF OrderInv, About, Opening, Telling
  <2>1. CASE i \in DOMAIN log /\ j \in DOMAIN log
    BY <1>2, <1>5, <2>1 DEF OrderInv
  <2>2. CASE i \in DOMAIN log /\ j \notin DOMAIN log
    <3>1. PICK k \in DOMAIN lines : log'[j] = lines[k]
      BY <1>2, <2>2
    <3>2. LineInv(log[i], u) /\ log'[i] = log[i]
      BY <1>2, <1>5, <2>2 DEF LogInv
    <3>3. Telling(log[i]) => decision[u] # "none"
      <4>1. log[i].type = "End" => ended[u] # "none"
        BY <3>2 DEF LineInv, EndOf
      <4> QED
        BY <1>5, <3>2, <4>1 DEF Telling, LineInv, CoordInv
    <3>4. stage[u] # "none"
      BY <3>2 DEF LineInv
    <3> QED
      BY <3>1, <3>2, <3>3, <3>4 DEF Advances
  <2>3. CASE i \notin DOMAIN log
    <3>1. PICK k \in DOMAIN lines : i = n + k /\ log'[i] = lines[k]
      BY <1>2, <2>3
    <3>2. j \notin DOMAIN log
      BY <1>2, <3>1
    <3>3. PICK m \in DOMAIN lines : j = n + m /\ log'[j] = lines[m]
      BY <1>2, <3>2
    <3>4. m # 1
      BY <1>2, <3>1, <3>3
    <3>5. ~ Opening(lines[m])
      BY <3>4 DEF Advances
    <3> QED
      BY <3>3, <3>5 DEF Opening
  <2> QED
    BY <2>1, <2>2, <2>3
<1>10. ProgressInv(u)'
  <2>1. ASSUME NEW types, Pending(u, types) PROVE Pending(u, types)'
    BY <1>2, <2>1 DEF Pending, About
  <2>2. ASSUME NEW types, NEW k \in DOMAIN lines, lines[k].type \in types
        PROVE  Pending(u, types)'
    <3>1. n + k \in DOMAIN log' /\ log'[n + k] = lines[k] /\ About(lines[k], u)
      BY <1>2 DEF Advances
    <3> QED
      BY <2>2, <3>1 DEF Pending, About
  <2>3. ASSUME NEW types, Pending(u, types)', ~ Pending(u, types)
        PROVE  \E k \in DOMAIN lines : lines[k].type \in types
    BY <1>2, <2>3 DEF Pending, About
  <2>4. ASSUME ~ gap, stage'[u] \notin {"none", "active"},
               rows[u] = 1 \/ Pending(u, {"Begin"})', tx[u].status = "IN_FLIGHT"
        PROVE  Pending(u, {"prepare", "onePhaseCommit", "Abort"})'
    <3>1. CASE stage[u] \in {"none", "active"}
      <4>1. PICK k \in DOMAIN lines : lines[k].type \in {"prepare", "onePhaseCommit", "Abort"}
        BY <2>4, <3>1 DEF Advances
      <4> QED
        BY <2>2, <4>1
    <3>2. CASE stage[u] \notin {"none", "active"}
      <4>1. \A k \in DOMAIN lines : lines[k].type # "Begin"
        BY <3>2 DEF Advances
      <4>2. rows[u] = 1 \/ Pending(u, {"Begin"})
        BY <2>3, <2>4, <4>1
      <4> QED
        BY <1>5, <2>1, <2>4, <3>2, <4>2 DEF ProgressInv
    <3> QED
      BY <3>1, <3>2
  <2>5. ASSUME ~ gap, stage'[u] \notin {"none", "active", "preparing"}, tx[u].status = "PREPARE"
        PROVE  Pending(u, PhaseTwo)'
    <3>1. stage[u] \notin {"none", "active"}
      BY <1>5, <2>5 DEF RowInv
    <3>2. CASE stage[u] = "preparing"
      <4>1. PICK k \in DOMAIN lines : lines[k].type \in PhaseTwo
        BY <2>5, <3>2 DEF Advances
      <4> QED
        BY <2>2, <4>1
    <3>3. CASE stage[u] # "preparing"
      BY <1>5, <2>1, <2>5, <3>1, <3>3 DEF ProgressInv
    <3> QED
      BY <3>2, <3>3
  <2>6. ASSUME ~ gap, stage'[u] \notin {"none", "active", "preparing"},
               NEW i \in DOMAIN log', About(log'[i], u), log'[i].type = "prepare"
        PROVE  \E j \in DOMAIN log' :
                 i < j /\ About(log'[j], u) /\ log'[j].type \in PhaseTwo
    <3>1. i \in DOMAIN log /\ log'[i] = log[i]
      BY <1>2, <2>6 DEF Advances
    <3>2. stage[u] \notin {"none", "active"}
      BY <1>5, <2>6, <3>1 DEF LogInv, LineInv
    <3>3. CASE stage[u] = "preparing"
      <4>1. PICK k \in DOMAIN lines : lines[k].type \in PhaseTwo
        BY <2>6, <3>3 DEF Advances
      <4>2. i < n + k /\ n + k \in DOMAIN log' /\ log'[n + k] = lines[k]
        BY <1>2, <3>1
      <4> QED
        BY <4>1, <4>2 DEF Advances
    <3>4. CASE stage[u] # "preparing"
      <4>1. PICK j \in DOMAIN log : i < j /\ About(log[j], u) /\ log[j].type \in PhaseTwo
        BY <1>5, <2>6, <3>1, <3>2, <3>4 DEF ProgressInv
      <4> QED
        BY <1>2, <4>1
    <3> QED
      BY <3>3, <3>4
  <2> QED
    BY <1>3, <2>4, <2>5, <2>6 DEF ProgressInv, About
<1> QED
  BY <1>6, <1>7, <1>8, <1>9, <1>10 DEF UInv

\* One line, or none, written by a coordinator.
LEMMA OneLine ==
  ASSUME NEW l
  PROVE  /\ DOMAIN <<l>> = {1} /\ <<l>>[1] = l /\ DOMAIN <<>> = {}
         /\ l \in Rec!Line => <<l>> \in Seq(Rec!Line) /\ <<>> \in Seq(Rec!Line)
OBVIOUS

\* The lines of a coordinator are lines about its transaction.
LEMMA LinesTyped ==
  ASSUME NEW u \in TxUid, NEW rm \in RM
  PROVE  /\ \A type \in Rec!BasicActionLine \cup {"prepare_failed", "get_status"} :
              /\ L(type, u) \in Rec!Line /\ About(L(type, u), u)
              /\ L(type, u).type = type
         /\ \A type \in {"XAResourceRecord", "topLevelPrepare", "XAException"} :
              /\ LRm(type, u, rm) \in Rec!Line /\ About(LRm(type, u, rm), u)
              /\ LRm(type, u, rm).type = type
         /\ LET l == TopLevel(u, rm, "Prepare") IN
              l \in Rec!Line /\ About(l, u) /\ l.type = "topLevel"
         /\ LET l == Threw(u, rm) IN
              l \in Rec!Line /\ About(l, u) /\ l.type = "JTSException"
         /\ \A o \in {"PREPARE_OK", "PREPARE_NOTOK"} :
              LET l == Outcome(u, rm, o) IN
              l \in Rec!Line /\ About(l, u) /\ l.type = "doResult"
         /\ LET l == [type |-> "enlistResource", txuid |-> u, rm |-> rm, rmuid |-> <<u, rm>>] IN
              l \in Rec!Line /\ About(l, u) /\ l.type = "enlistResource"
<1>1. \A type \in Rec!BasicActionLine \cup {"prepare_failed", "get_status"} :
        /\ L(type, u) \in Rec!Line /\ About(L(type, u), u)
        /\ L(type, u).type = type
  BY DEF L, Rec!Line, About
<1>2. \A type \in {"XAResourceRecord", "topLevelPrepare", "XAException"} :
        /\ LRm(type, u, rm) \in Rec!Line /\ About(LRm(type, u, rm), u)
        /\ LRm(type, u, rm).type = type
  BY DEF LRm, Rec!Line, About
<1>3. LET l == [type |-> "enlistResource", txuid |-> u, rm |-> rm, rmuid |-> <<u, rm>>] IN
        l \in Rec!Line /\ About(l, u) /\ l.type = "enlistResource"
  BY DEF Rec!Line, About, RmUid
<1>4. LET l == TopLevel(u, rm, "Prepare") IN
        l \in Rec!Line /\ About(l, u) /\ l.type = "topLevel"
  BY DEF TopLevel, Rec!Line, About, RmUid
<1>5. LET l == Threw(u, rm) IN l \in Rec!Line /\ About(l, u) /\ l.type = "JTSException"
  BY DEF Threw, Rec!Line, About, RmUid
<1>6. \A o \in {"PREPARE_OK", "PREPARE_NOTOK"} :
        LET l == Outcome(u, rm, o) IN l \in Rec!Line /\ About(l, u) /\ l.type = "doResult"
  BY DEF Outcome, Rec!Line, About, RmUid, Rec!TwoPhaseOutcome
<1> QED
  BY <1>1, <1>2, <1>3, <1>4, <1>5, <1>6

\* The types of what the recorder keeps, and of what a step of u changes.
LEMMA AdvanceTyped ==
  ASSUME IInv, NEW u \in TxUid, NEW lines \in Seq(Rec!Line), log' = log \o lines,
         UNCHANGED <<service, dbVars, gap>>, restarts' \in Nat, replays' \in Nat,
         NEW s \in Stages, stage' = [stage EXCEPT ![u] = s],
         branch' \in [TxUid -> [RM -> Branch]],
         \A v \in TxUid : v # u => branch'[v] = branch[v],
         decision' = decision \/ \E d \in {"none", "commit", "abort"} :
                                   decision' = [decision EXCEPT ![u] = d],
         ended' = ended \/ \E e \in {"none", "commit", "abort", "heuristic"} :
                             ended' = [ended EXCEPT ![u] = e]
  PROVE  /\ TypeOK' /\ \A v \in TxUid : v # u => SameCoordinator(v)
         /\ stage'[u] = s
         /\ \A d : decision' = [decision EXCEPT ![u] = d] => decision'[u] = d
         /\ \A e : ended' = [ended EXCEPT ![u] = e] => ended'[u] = e
<1>1. TypeOK
  BY DEF IInv
<1>2. log' \in Seq(Rec!Line)
  BY <1>1 DEF TypeOK
<1>3. Rec!TypeOK'
  BY <1>1 DEF TypeOK, Rec!TypeOK, dbVars
<1>5. stage' \in [TxUid -> Stages] /\ decision' \in [TxUid -> {"none", "commit", "abort"}]
      /\ ended' \in [TxUid -> {"none", "commit", "abort", "heuristic"}]
  BY <1>1 DEF TypeOK
<1>6. \A v \in TxUid : v # u => SameCoordinator(v)
  BY <1>1 DEF TypeOK, SameCoordinator
<1> QED
  BY <1>1, <1>2, <1>3, <1>5, <1>6 DEF TypeOK

\* The answer of one resource.
LEMMA BranchTyped ==
  ASSUME IInv, NEW u \in TxUid, NEW rm \in RM, NEW b \in Branch,
         branch' = [branch EXCEPT ![u][rm] = b]
  PROVE  /\ branch' \in [TxUid -> [RM -> Branch]]
         /\ \A v \in TxUid : v # u => branch'[v] = branch[v]
         /\ branch'[u][rm] = b
         /\ \A r \in RM : r # rm => branch'[u][r] = branch[u][r]
<1>1. branch \in [TxUid -> [RM -> Branch]] /\ branch[u] \in [RM -> Branch]
  BY DEF IInv, TypeOK
<1>2. [branch[u] EXCEPT ![rm] = b] \in [RM -> Branch]
  BY <1>1
<1>3. branch'[u] = [branch[u] EXCEPT ![rm] = b]
  BY <1>1
<1> QED
  BY <1>1, <1>2, <1>3

\* A transaction begins: its line is the first about it.
LEMMA BeginAdvances ==
  ASSUME IInv, NEW u \in TxUid, BeginTx(u)
  PROVE  TypeOK' /\ \E lines : Advances(u, lines)
<1> DEFINE l == L("Begin", u)
<1>1. CoordInv(u) /\ RowInv(u) /\ TypeOK
  BY DEF IInv, UInv
<1>2. /\ stage[u] = "none" /\ stage' = [stage EXCEPT ![u] = "active"]
      /\ log' = log \o <<l>> /\ UNCHANGED <<service, dbVars, gap>>
      /\ branch' = branch /\ decision' = decision /\ ended' = ended
      /\ restarts' = restarts /\ replays' = replays
  BY DEF BeginTx, At, Goto, Write
<1>3. l \in Rec!Line /\ About(l, u) /\ l.type = "Begin"
  BY LinesTyped DEF L, Rec!Line, About, Rec!BasicActionLine
<1> HIDE DEF l
<1>4. restarts' \in Nat /\ replays' \in Nat /\ "active" \in Stages /\ <<l>> \in Seq(Rec!Line)
  BY <1>1, <1>2, <1>3 DEF TypeOK, Stages
<1>5. TypeOK' /\ (\A v \in TxUid : v # u => SameCoordinator(v)) /\ stage'[u] = "active"
  BY <1>1, <1>2, <1>4, AdvanceTyped DEF TypeOK
<1>6. CoordInv(u)'
  BY <1>1, <1>2, <1>5 DEF CoordInv
<1>7. LineInv(l, u)'
  <2>1. rows[u] = 0 /\ tx[u].status = "IN_FLIGHT"
    BY <1>1, <1>2 DEF RowInv
  <2>2. Shown(u)' = "none"
    BY <1>2, <2>1 DEF Shown, dbVars
  <2> QED
    BY <1>2, <1>3, <1>5, <2>1, <2>2 DEF LineInv, dbVars
<1>8. Advances(u, <<l>>)
  BY <1>1, <1>2, <1>3, <1>4, <1>5, <1>6, <1>7, OneLine
     DEF Advances, CoordInv, Quiet, EnlistingTypes
<1> QED
  BY <1>5, <1>8

\* A resource is enlisted, while the transaction is active.
LEMMA EnlistAdvances ==
  ASSUME IInv, NEW u \in TxUid, NEW rm \in RM, EnlistResource(u, rm)
  PROVE  TypeOK' /\ \E lines : Advances(u, lines)
<1>1. CoordInv(u) /\ RowInv(u) /\ TypeOK
  BY DEF IInv, UInv
<1>0. PICK l : l = Wording(LRm("XAResourceRecord", u, rm),
                           [type |-> "enlistResource", txuid |-> u, rm |-> rm,
                            rmuid |-> <<u, rm>>])
  OBVIOUS
<1>2. /\ stage[u] = "active" /\ stage' = stage
      /\ log' = log \o <<l>> /\ UNCHANGED <<service, dbVars, gap>>
      /\ branch' = [branch EXCEPT ![u][rm] = "in"] /\ decision' = decision /\ ended' = ended
      /\ restarts' = restarts /\ replays' = replays
  BY <1>0 DEF EnlistResource, At, Write
<1>3. /\ l \in Rec!Line /\ About(l, u) /\ l.type \in EnlistingTypes
      /\ l.type = "enlistResource" => l.rmuid = <<l.txuid, l.rm>>
  BY <1>0, LinesTyped DEF Wording, EnlistingTypes, LRm
<1>4. /\ restarts' \in Nat /\ replays' \in Nat /\ "active" \in Stages /\ "in" \in Branch
      /\ <<l>> \in Seq(Rec!Line) /\ stage' = [stage EXCEPT ![u] = "active"]
  BY <1>1, <1>2, <1>3 DEF TypeOK, Stages, Branch
<1>9. /\ branch' \in [TxUid -> [RM -> Branch]]
      /\ \A v \in TxUid : v # u => branch'[v] = branch[v]
      /\ branch'[u][rm] = "in" /\ \A r \in RM : r # rm => branch'[u][r] = branch[u][r]
  BY <1>2, <1>4, BranchTyped
<1>5. TypeOK' /\ (\A v \in TxUid : v # u => SameCoordinator(v)) /\ stage'[u] = "active"
  BY <1>2, <1>4, <1>9, AdvanceTyped
<1>6. CoordInv(u)'
  BY <1>1, <1>2, <1>5, <1>9 DEF CoordInv
<1>7. LineInv(l, u)'
  BY <1>3, <1>5 DEF LineInv, EnlistingTypes, Opening
<1>8. Advances(u, <<l>>)
  BY <1>1, <1>2, <1>3, <1>4, <1>5, <1>6, <1>7, OneLine
     DEF Advances, CoordInv, Opening, EnlistingTypes
<1> QED
  BY <1>5, <1>8

\* A resource is asked or answers; none is enlisted any more.
LEMMA SameEnlisted ==
  ASSUME NEW u \in TxUid, NEW rm \in RM,
         branch[u][rm] # "out", branch'[u][rm] # "out",
         \A r \in RM : r # rm => branch'[u][r] = branch[u][r]
  PROVE  Recoverable(u)' <=> Recoverable(u)
<1>1. Enlisted(u)' = Enlisted(u)
  BY DEF Enlisted
<1> QED
  BY <1>1 DEF Recoverable

\* A resource that is asked or answers is an advance.
LEMMA AnswerAdvances ==
  ASSUME IInv, NEW u \in TxUid, NEW rm \in RM, NEW b \in {"asked", "ok", "failed"},
         stage[u] = "preparing", stage' = stage, branch[u][rm] # "out",
         branch' = [branch EXCEPT ![u][rm] = b], decision' = decision, ended' = ended,
         restarts' = restarts, replays' = replays, UNCHANGED <<service, dbVars, gap>>,
         NEW lines \in Seq(Rec!Line), log' = log \o lines,
         \A k \in DOMAIN lines :
           About(lines[k], u) /\ lines[k].type \in ResourceTypes \cup VotingTypes
  PROVE  TypeOK' /\ \E x : Advances(u, x)
<1>1. CoordInv(u) /\ RowInv(u) /\ TypeOK
  BY DEF IInv, UInv
<1>2. /\ restarts' \in Nat /\ replays' \in Nat /\ "preparing" \in Stages /\ b \in Branch
      /\ stage' = [stage EXCEPT ![u] = "preparing"]
  BY <1>1 DEF TypeOK, Stages, Branch
<1>0. /\ branch' \in [TxUid -> [RM -> Branch]]
      /\ \A v \in TxUid : v # u => branch'[v] = branch[v]
      /\ branch'[u][rm] = b /\ \A r \in RM : r # rm => branch'[u][r] = branch[u][r]
  BY <1>2, BranchTyped
<1>3. TypeOK' /\ (\A v \in TxUid : v # u => SameCoordinator(v)) /\ stage'[u] = "preparing"
  BY <1>0, <1>2, AdvanceTyped
<1>4. Recoverable(u)' <=> Recoverable(u)
  BY <1>0, SameEnlisted
<1>5. CoordInv(u)'
  BY <1>0, <1>1, <1>3 DEF CoordInv
<1>6. ASSUME NEW k \in DOMAIN lines
      PROVE  /\ LineInv(lines[k], u)' /\ ~ Opening(lines[k])
             /\ lines[k].type \notin {"Begin", "prepare"}
  BY <1>3 DEF LineInv, Opening, ResourceTypes, VotingTypes
<1>7. Advances(u, lines)
  BY <1>1, <1>3, <1>4, <1>5, <1>6 DEF Advances
<1> QED
  BY <1>3, <1>7

\* The steps of the first phase are advances.
LEMMA PrepareAdvances ==
  ASSUME IInv, NEW u \in TxUid, NEW rm \in RM,
         AskResource(u, rm) \/ ResourcePrepared(u, rm) \/ ResourceFailed(u, rm)
  PROVE  TypeOK' /\ \E lines : Advances(u, lines)
<1> USE DEF ResourceTypes, VotingTypes
<1>1. CASE AskResource(u, rm)
  <2> DEFINE l == Wording(LRm("topLevelPrepare", u, rm), TopLevel(u, rm, "Prepare"))
  <2>1. l \in Rec!Line /\ About(l, u) /\ l.type \in {"topLevelPrepare", "topLevel"}
    BY LinesTyped DEF Wording
  <2>2. log' = log \o <<l>>
    BY <1>1 DEF AskResource, Write
  <2> HIDE DEF l
  <2>3. <<l>> \in Seq(Rec!Line) /\ \A k \in DOMAIN <<l>> : <<l>>[k] = l
    BY <2>1
  <2> QED
    BY <1>1, <2>1, <2>2, <2>3, AnswerAdvances DEF AskResource, At
<1>2. CASE ResourcePrepared(u, rm)
  <2> DEFINE l == Outcome(u, rm, "PREPARE_OK")
             lines == Wording(<<>>, <<l>>)
  <2>1. l \in Rec!Line /\ About(l, u) /\ l.type = "doResult"
    BY LinesTyped
  <2>2. log' = log \o lines
    BY <1>2 DEF ResourcePrepared, Write
  <2> HIDE DEF l
  <2>3. lines \in Seq(Rec!Line) /\ \A k \in DOMAIN lines : lines[k] = l
    BY <2>1 DEF Wording
  <2> HIDE DEF lines
  <2> QED
    BY <1>2, <2>1, <2>2, <2>3, AnswerAdvances DEF ResourcePrepared, At
<1>3. CASE ResourceFailed(u, rm)
  <2> DEFINE x == LRm("XAException", u, rm)
             y == Threw(u, rm)
             z == Outcome(u, rm, "PREPARE_NOTOK")
             lines == Wording(<<x>>, <<y, z>>)
  <2>1. /\ x \in Rec!Line /\ About(x, u) /\ x.type = "XAException"
        /\ y \in Rec!Line /\ About(y, u) /\ y.type = "JTSException"
        /\ z \in Rec!Line /\ About(z, u) /\ z.type = "doResult"
    BY LinesTyped
  <2>2. log' = log \o lines
    BY <1>3 DEF ResourceFailed, Write
  <2> HIDE DEF x, y, z
  <2>3. lines \in Seq(Rec!Line) /\ \A k \in DOMAIN lines : lines[k] \in {x, y, z}
    BY <2>1 DEF Wording
  <2> HIDE DEF lines
  <2> QED
    BY <1>3, <2>1, <2>2, <2>3, AnswerAdvances DEF ResourceFailed, At
<1> QED
  BY <1>1, <1>2, <1>3

\* A step of u to another stage, with some lines and perhaps a second phase.
LEMMA GotoAdvances ==
  ASSUME IInv, NEW u \in TxUid, NEW s \in Stages, Goto(u, s), branch' = branch,
         decision' = decision \/ \E d \in {"none", "commit", "abort"} : Decides(u, d),
         ended' = ended \/ \E e \in {"none", "commit", "abort", "heuristic"} :
                             ended' = [ended EXCEPT ![u] = e],
         UNCHANGED <<service, dbVars, gap>>, restarts' \in Nat, replays' \in Nat,
         NEW heads \in Seq(Rec!Line), NEW rest \in Seq(PhaseTwoLine(u)),
         log' = log \o (heads \o rest),
         CoordInv(u)', s # "none", stage[u] # "done",
         stage[u] \notin {"none", "active"} => s \notin {"none", "active"},
         stage[u] \notin {"none", "active", "one_phase"} => s # "one_phase",
         stage[u] \notin {"none", "active", "preparing"} => s # "preparing",
         decision[u] # "none" => decision'[u] = decision[u],
         ended[u] # "none" => ended'[u] = ended[u],
         \A k \in DOMAIN heads :
           /\ About(heads[k], u) /\ LineInv(heads[k], u)' /\ Quiet(heads[k])
           /\ heads[k].type = "Begin" => stage[u] = "none"
           /\ heads[k].type = "prepare" => s = "preparing"
           /\ Opening(heads[k]) => k = 1 /\ decision[u] = "none",
         (stage[u] \in {"none", "active"} /\ s \notin {"none", "active"}) =>
            \E k \in DOMAIN heads : heads[k].type \in {"prepare", "onePhaseCommit", "Abort"},
         (stage[u] = "preparing" /\ s # "preparing") =>
            \E k \in DOMAIN heads : heads[k].type \in PhaseTwo
  PROVE  TypeOK' /\ \E lines : Advances(u, lines)
<1> DEFINE lines == heads \o rest
<1>1. TypeOK
  BY DEF IInv
<1>2. \A l \in PhaseTwoLine(u) :
        /\ l \in Rec!Line /\ About(l, u) /\ ~ Opening(l) /\ Quiet(l)
        /\ l.type \notin {"Begin", "prepare"} /\ l.type \in ResourceTypes
  <2> SUFFICES ASSUME NEW l \in PhaseTwoLine(u)
               PROVE  /\ l \in Rec!Line /\ About(l, u) /\ ~ Opening(l) /\ Quiet(l)
                      /\ l.type \notin {"Begin", "prepare"} /\ l.type \in ResourceTypes
    OBVIOUS
  <2>1. l \in Rec!Line /\ l.type \in ResourceTypes /\ \E rm \in RM : l.rmuid = <<u, rm>>
    BY DEF PhaseTwoLine, ResourceTypes, Enlisted
  <2>2. "txuid" \notin DOMAIN l
    BY <2>1, LineGroups
  <2>3. Quiet(l)
    BY DEF PhaseTwoLine, Quiet, EnlistingTypes
  <2> QED
    BY <2>1, <2>2, <2>3 DEF About, Opening, ResourceTypes
<1>3. rest \in Seq(Rec!Line) /\ \A k \in DOMAIN rest : rest[k] \in PhaseTwoLine(u)
  BY <1>2
<1>4. /\ lines \in Seq(Rec!Line) /\ Len(heads) \in Nat
      /\ \A k \in DOMAIN heads : k \in DOMAIN lines /\ lines[k] = heads[k]
  BY <1>3
<1>5. \A k \in DOMAIN lines :
        \/ k \in DOMAIN heads /\ lines[k] = heads[k]
        \/ k - Len(heads) \in DOMAIN rest /\ lines[k] = rest[k - Len(heads)]
  BY <1>3
<1>6. log' = log \o lines
  OBVIOUS
<1> HIDE DEF lines
<1>7. TypeOK' /\ (\A v \in TxUid : v # u => SameCoordinator(v)) /\ stage'[u] = s
  BY <1>1, <1>4, <1>6, AdvanceTyped DEF TypeOK, Goto, Decides
<1>8. Recoverable(u)' <=> Recoverable(u)
  BY DEF Recoverable, Enlisted
<1>9. \A l : l.type \in ResourceTypes => LineInv(l, u)'
  BY <1>7 DEF LineInv, ResourceTypes, Opening
<1>10. ASSUME NEW k \in DOMAIN lines
       PROVE  /\ About(lines[k], u) /\ LineInv(lines[k], u)' /\ Quiet(lines[k])
              /\ lines[k].type = "Begin" => stage[u] = "none"
              /\ lines[k].type = "prepare" => stage'[u] = "preparing"
              /\ Opening(lines[k]) => k = 1 /\ decision[u] = "none"
  <2>1. CASE k \in DOMAIN heads /\ lines[k] = heads[k]
    BY <1>7, <2>1
  <2>2. CASE k - Len(heads) \in DOMAIN rest /\ lines[k] = rest[k - Len(heads)]
    <3>1. lines[k] \in PhaseTwoLine(u)
      BY <1>3, <2>2
    <3> QED
      BY <1>2, <1>9, <3>1
  <2> QED
    BY <1>5, <2>1, <2>2
<1>11. Advances(u, lines)
  BY <1>4, <1>6, <1>7, <1>8, <1>10 DEF Advances
<1> QED
  BY <1>7, <1>11

\* No line, or one.
LEMMA NoSecondPhase ==
  ASSUME NEW u, NEW x \in Seq(Rec!Line)
  PROVE  <<>> \in Seq(PhaseTwoLine(u)) /\ x \o <<>> = x
OBVIOUS

\* Recoverable(u) or not, a transaction has a finite number of resources.
LEMMA OnePhaseOrTwo ==
  ASSUME NEW u \in TxUid
  PROVE  Cardinality(Enlisted(u)) <= 1 <=> ~ Recoverable(u)
<1>1. Cardinality(Enlisted(u)) \in Nat
  BY FS_Subset, FS_CardinalityType, CommitmentAssumption DEF Enlisted
<1> QED
  BY <1>1 DEF Recoverable

\* A transaction starts to end: in one phase, in two, or by a rollback.
LEMMA EndingAdvances ==
  ASSUME IInv, NEW u \in TxUid,
         Rollback(u) \/ StartOnePhase(u) \/ AnswerOnePhase(u) \/ StartPrepare(u)
  PROVE  TypeOK' /\ \E lines : Advances(u, lines)
<1>1. CoordInv(u) /\ RowInv(u) /\ TypeOK
  BY DEF IInv, UInv
<1>2. restarts' \in Nat /\ replays' \in Nat /\ UNCHANGED <<service, dbVars, gap>>
      /\ branch' = branch /\ ended' = ended
  BY <1>1 DEF Rollback, StartOnePhase, AnswerOnePhase, StartPrepare, At, TypeOK
<1>3. Recoverable(u)' <=> Recoverable(u)
  BY <1>2 DEF Recoverable, Enlisted
<1>4. Shown(u) = "none" \/ decision[u] # "none"
  BY <1>1 DEF RowInv, CoordInv
<1>5. Shown(u)' = Shown(u)
  BY <1>2 DEF Shown, dbVars
<1>6. \A type \in {"Abort", "onePhaseCommit", "prepare"} :
        /\ L(type, u) \in Rec!Line /\ About(L(type, u), u) /\ L(type, u).type = type
        /\ <<L(type, u)>> \in Seq(Rec!Line)
        /\ DOMAIN <<L(type, u)>> = {1} /\ <<L(type, u)>>[1] = L(type, u)
  BY DEF L, Rec!Line, About, Rec!BasicActionLine
<1>7. {"one_phase", "preparing", "committing", "aborting", "done"} \subseteq Stages
  BY DEF Stages
<1>8. CASE Rollback(u)
  <2>1. PICK rest \in SecondPhase(u, "Abort") : log' = log \o (<<L("Abort", u)>> \o rest)
    BY <1>8 DEF Rollback, Write
  <2>2. rest \in Seq(PhaseTwoLine(u))
    BY <2>1, SecondPhaseLines
  <2>3. stage[u] = "active" /\ Goto(u, "done") /\ Decides(u, "abort")
        /\ stage'[u] = "done" /\ decision'[u] = "abort"
    BY <1>1, <1>8 DEF Rollback, At, Goto, Decides, TypeOK
  <2>4. CoordInv(u)'
    BY <1>1, <1>2, <2>3 DEF CoordInv
  <2>5. LineInv(L("Abort", u), u)'
    BY <1>1, <1>2, <1>6, <2>3 DEF LineInv, CoordInv, Opening
  <2> DEFINE heads == <<L("Abort", u)>>
  <2>6. /\ heads \in Seq(Rec!Line) /\ 1 \in DOMAIN heads /\ heads[1].type = "Abort"
        /\ \A k \in DOMAIN heads :
             /\ About(heads[k], u) /\ LineInv(heads[k], u)' /\ heads[k].type = "Abort"
             /\ Quiet(heads[k])
    BY <1>6, <2>5 DEF Quiet, EnlistingTypes
  <2>7. log' = log \o (heads \o rest)
    BY <2>1
  <2> HIDE DEF heads
  <2>8. \E k \in DOMAIN heads : heads[k].type \in {"prepare", "onePhaseCommit", "Abort"}
    BY <2>6
  <2>9. decision[u] = "none" /\ "done" \in Stages
    BY <1>1, <1>7, <2>3 DEF CoordInv
  <2> QED
    BY <1>2, <2>2, <2>3, <2>4, <2>6, <2>7, <2>8, <2>9, GotoAdvances DEF Opening
<1>9. CASE StartOnePhase(u)
  <2>1. log' = log \o (<<L("onePhaseCommit", u)>> \o <<>>)
    BY <1>6, <1>9, NoSecondPhase DEF StartOnePhase, Write
  <2>2. stage[u] = "active" /\ Goto(u, "one_phase") /\ decision' = decision
        /\ stage'[u] = "one_phase" /\ ~ Recoverable(u)
    BY <1>1, <1>9, OnePhaseOrTwo DEF StartOnePhase, At, Goto, TypeOK
  <2>3. CoordInv(u)'
    BY <1>1, <1>2, <1>3, <2>2 DEF CoordInv
  <2>4. LineInv(L("onePhaseCommit", u), u)'
    BY <1>1, <1>3, <1>4, <1>5, <1>6, <2>2 DEF LineInv, CoordInv
  <2> DEFINE heads == <<L("onePhaseCommit", u)>>
             none == <<>>
  <2>5. /\ heads \in Seq(Rec!Line) /\ 1 \in DOMAIN heads /\ heads[1].type = "onePhaseCommit"
        /\ \A k \in DOMAIN heads :
             /\ About(heads[k], u) /\ LineInv(heads[k], u)' /\ heads[k].type = "onePhaseCommit"
             /\ k = 1 /\ Quiet(heads[k])
    BY <1>6, <2>4 DEF Quiet, EnlistingTypes
  <2>6. log' = log \o (heads \o none) /\ none \in Seq(PhaseTwoLine(u))
    BY <2>1, NoSecondPhase
  <2> HIDE DEF heads, none
  <2>7. \E k \in DOMAIN heads : heads[k].type \in {"prepare", "onePhaseCommit", "Abort"}
    BY <2>5
  <2>8. decision[u] = "none" /\ "one_phase" \in Stages
    BY <1>1, <1>7, <2>2 DEF CoordInv
  <2> QED
    BY <1>2, <2>2, <2>3, <2>5, <2>6, <2>7, <2>8, GotoAdvances DEF Opening
<1>10. CASE AnswerOnePhase(u)
  <2> DEFINE none == <<>>
  <2>1. PICK s \in {"committing", "aborting"}, d \in {"commit", "abort"} :
          /\ Goto(u, s) /\ Decides(u, d) /\ stage[u] = "one_phase" /\ log' = log
          /\ s = "committing" <=> d = "commit"
    BY <1>10 DEF AnswerOnePhase, At
  <2>2. /\ log' = log \o (none \o none) /\ none \in Seq(Rec!Line)
        /\ none \in Seq(PhaseTwoLine(u)) /\ DOMAIN none = {}
    BY <1>1, <2>1 DEF TypeOK
  <2> HIDE DEF none
  <2>3. stage'[u] = s /\ decision'[u] = d
    BY <1>1, <2>1 DEF Goto, Decides, TypeOK
  <2>4. CoordInv(u)'
    BY <1>1, <1>2, <2>1, <2>3 DEF CoordInv
  <2>5. decision[u] = "none"
    BY <1>1, <2>1 DEF CoordInv
  <2>6. s \in Stages /\ d \in {"none", "commit", "abort"}
    BY <1>7
  <2> QED
    BY <1>2, <2>1, <2>2, <2>4, <2>5, <2>6, GotoAdvances
<1>11. CASE StartPrepare(u)
  <2>1. log' = log \o (<<L("prepare", u)>> \o <<>>)
    BY <1>6, <1>11, NoSecondPhase DEF StartPrepare, Write
  <2>2. stage[u] = "active" /\ Goto(u, "preparing") /\ decision' = decision
        /\ stage'[u] = "preparing" /\ Recoverable(u)
    BY <1>1, <1>11 DEF StartPrepare, At, Goto, TypeOK, Recoverable
  <2>3. CoordInv(u)'
    BY <1>1, <1>2, <2>2 DEF CoordInv
  <2>4. LineInv(L("prepare", u), u)'
    BY <1>1, <1>3, <1>4, <1>5, <1>6, <2>2 DEF LineInv, CoordInv
  <2> DEFINE heads == <<L("prepare", u)>>
             none == <<>>
  <2>5. /\ heads \in Seq(Rec!Line) /\ 1 \in DOMAIN heads /\ heads[1].type = "prepare"
        /\ \A k \in DOMAIN heads :
             /\ About(heads[k], u) /\ LineInv(heads[k], u)' /\ heads[k].type = "prepare"
             /\ k = 1 /\ Quiet(heads[k])
    BY <1>6, <2>4 DEF Quiet, EnlistingTypes
  <2>6. log' = log \o (heads \o none) /\ none \in Seq(PhaseTwoLine(u))
    BY <2>1, NoSecondPhase
  <2> HIDE DEF heads, none
  <2>7. \E k \in DOMAIN heads : heads[k].type \in {"prepare", "onePhaseCommit", "Abort"}
    BY <2>5
  <2>8. decision[u] = "none" /\ "preparing" \in Stages
    BY <1>1, <1>7, <2>2 DEF CoordInv
  <2> QED
    BY <1>2, <2>2, <2>3, <2>5, <2>6, <2>7, <2>8, GotoAdvances DEF Opening
<1> QED
  BY <1>8, <1>9, <1>10, <1>11

\* The second phase starts, or recovery starts it anew.
LEMMA SecondPhaseAdvances ==
  ASSUME IInv, NEW u \in TxUid,
         StartCommit(u) \/ StartAbort(u) \/ Recover(u)
  PROVE  TypeOK' /\ \E lines : Advances(u, lines)
<1>1. CoordInv(u) /\ TypeOK
  BY DEF IInv, UInv
<1>2. /\ UNCHANGED <<service, dbVars, gap>> /\ branch' = branch /\ ended' = ended
      /\ restarts' \in Nat /\ replays' \in Nat
  BY <1>1 DEF StartCommit, StartAbort, Recover, At, TypeOK
<1>3. \A type \in {"phase2Commit", "phase2Abort", "prepare_failed"} :
        L(type, u) \in Rec!Line /\ About(L(type, u), u) /\ L(type, u).type = type
  BY DEF L, Rec!Line, About, Rec!BasicActionLine
<1>4. {"committing", "aborting", "in_doubt", "done"} \subseteq Stages
  BY DEF Stages
<1>5. stage[u] \in {"preparing", "in_doubt"}
  BY DEF StartCommit, StartAbort, Recover, At
<1>6. PICK s \in {"committing", "aborting", "in_doubt", "done"}, d \in {"commit", "abort"},
           type \in PhaseTwo, rest \in Seq(PhaseTwoLine(u)), heads \in Seq(Rec!Line) :
        /\ Goto(u, s)
        /\ stage[u] = "preparing" => s = IF d = "commit" THEN "committing" ELSE "aborting"
        /\ stage[u] = "in_doubt" => s \in {"in_doubt", "done"}
        /\ Decides(u, d)
        /\ decision[u] # "none" => decision[u] = d
        /\ d = "commit" => \A rm \in RM : branch[u][rm] # "failed"
        /\ type = IF d = "commit" THEN "phase2Commit" ELSE "phase2Abort"
        /\ \A k \in DOMAIN heads : heads[k] \in {L("prepare_failed", u), L(type, u)}
        /\ \E k \in DOMAIN heads : heads[k] = L(type, u)
        /\ log' = log \o (heads \o rest)
  <2>1. CASE StartCommit(u)
    <3>1. PICK rest \in SecondPhase(u, "Commit") : log' = log \o (<<L("phase2Commit", u)>> \o rest)
      BY <2>1 DEF StartCommit, Write
    <3> DEFINE heads == <<L("phase2Commit", u)>>
    <3>2. /\ heads \in Seq(Rec!Line) /\ \A k \in DOMAIN heads : heads[k] = L("phase2Commit", u)
          /\ 1 \in DOMAIN heads /\ log' = log \o (heads \o rest)
      BY <1>3, <3>1
    <3> HIDE DEF heads
    <3>3. stage[u] = "preparing" /\ Goto(u, "committing") /\ Decides(u, "commit")
      BY <2>1 DEF StartCommit, At
    <3>4. decision[u] = "none" /\ \A rm \in RM : branch[u][rm] # "failed"
      BY <1>1, <2>1, <3>3 DEF StartCommit, CoordInv, Enlisted
    <3>5. rest \in Seq(PhaseTwoLine(u))
      BY <3>1, SecondPhaseLines
    <3> QED
      BY <3>2, <3>3, <3>4, <3>5 DEF PhaseTwo
  <2>2. CASE StartAbort(u)
    <3>1. PICK rest \in SecondPhase(u, "Abort") :
            log' = log \o (<<L("prepare_failed", u), L("phase2Abort", u)>> \o rest)
      BY <2>2 DEF StartAbort, Write
    <3> DEFINE heads == <<L("prepare_failed", u), L("phase2Abort", u)>>
    <3>2. /\ heads \in Seq(Rec!Line)
          /\ \A k \in DOMAIN heads : heads[k] \in {L("prepare_failed", u), L("phase2Abort", u)}
          /\ 2 \in DOMAIN heads /\ heads[2] = L("phase2Abort", u)
          /\ log' = log \o (heads \o rest)
      BY <1>3, <3>1
    <3> HIDE DEF heads
    <3>3. stage[u] = "preparing" /\ Goto(u, "aborting") /\ Decides(u, "abort")
      BY <2>2 DEF StartAbort, At
    <3>4. decision[u] = "none"
      BY <1>1, <3>3 DEF CoordInv
    <3>5. rest \in Seq(PhaseTwoLine(u))
      BY <3>1, SecondPhaseLines
    <3> QED
      BY <3>2, <3>3, <3>4, <3>5 DEF PhaseTwo
  <2>3. CASE Recover(u)
    <3>1. stage[u] = "in_doubt" /\ decision' = decision /\ decision[u] \in {"commit", "abort"}
      BY <1>1, <2>3 DEF Recover, CoordInv, TypeOK
    <3>2. PICK s \in {"in_doubt", "done"} : Goto(u, s)
      BY <1>1, <2>3 DEF Recover, Goto, TypeOK
    <3>3. Decides(u, decision[u])
      BY <1>1, <3>1 DEF Decides, TypeOK
    <3>4. PICK type \in PhaseTwo, rest \in Seq(PhaseTwoLine(u)) :
            /\ type = IF decision[u] = "commit" THEN "phase2Commit" ELSE "phase2Abort"
            /\ log' = log \o (<<L(type, u)>> \o rest)
      <4>1. CASE decision[u] = "commit"
        BY <2>3, <4>1, SecondPhaseLines DEF Recover, Write, PhaseTwo
      <4>2. CASE decision[u] # "commit"
        BY <2>3, <4>2, SecondPhaseLines DEF Recover, Write, PhaseTwo
      <4> QED
        BY <4>1, <4>2
    <3> DEFINE heads == <<L(type, u)>>
    <3>5. /\ heads \in Seq(Rec!Line) /\ \A k \in DOMAIN heads : heads[k] = L(type, u)
          /\ 1 \in DOMAIN heads /\ log' = log \o (heads \o rest)
      BY <1>3, <3>4 DEF PhaseTwo
    <3> HIDE DEF heads
    <3>6. decision[u] = "commit" => \A rm \in RM : branch[u][rm] # "failed"
      BY <1>1 DEF CoordInv
    <3> QED
      BY <3>1, <3>2, <3>3, <3>4, <3>5, <3>6
  <2> QED
    BY <2>1, <2>2, <2>3
<1>7. stage'[u] = s /\ decision'[u] = d
  BY <1>1, <1>6 DEF Goto, Decides, TypeOK
<1>8. CoordInv(u)'
  BY <1>1, <1>2, <1>5, <1>6, <1>7 DEF CoordInv
<1>9. ASSUME NEW l \in {L("prepare_failed", u), L(type, u)}
      PROVE  About(l, u) /\ LineInv(l, u)' /\ l.type \in {"prepare_failed"} \cup PhaseTwo
  <2>1. About(l, u) /\ l.type \in {"prepare_failed", type}
    BY <1>3, <1>9 DEF PhaseTwo
  <2>2. LineInv(l, u)'
    BY <1>6, <1>7, <2>1 DEF LineInv, Opening, PhaseTwo
  <2> QED
    BY <2>1, <2>2
<1>10. ASSUME NEW k \in DOMAIN heads
       PROVE  /\ About(heads[k], u) /\ LineInv(heads[k], u)'
              /\ heads[k].type \notin {"Begin", "prepare"} /\ ~ Opening(heads[k])
              /\ Quiet(heads[k])
  <2>1. PICK l \in {L("prepare_failed", u), L(type, u)} : l = heads[k]
    BY <1>6
  <2> QED
    BY <1>9, <2>1 DEF PhaseTwo, Opening, Quiet, EnlistingTypes
<1>11. \E k \in DOMAIN heads : heads[k].type \in PhaseTwo
  BY <1>3, <1>6 DEF PhaseTwo
<1>12. s \in Stages /\ d \in {"none", "commit", "abort"}
  BY <1>4
<1> QED
  BY <1>2, <1>5, <1>6, <1>7, <1>8, <1>10, <1>11, <1>12, GotoAdvances

\* End() returns; the result it logs, if it does, is how u ended.
LEMMA FinishAdvances ==
  ASSUME IInv, NEW u \in TxUid, Finish(u)
  PROVE  TypeOK' /\ \E lines : Advances(u, lines)
<1>1. CoordInv(u) /\ TypeOK
  BY DEF IInv, UInv
<1>2. /\ UNCHANGED <<service, dbVars, gap>> /\ branch' = branch /\ decision' = decision
      /\ restarts' \in Nat /\ replays' \in Nat /\ stage[u] \in {"committing", "aborting"}
  BY <1>1 DEF Finish, At, TypeOK
<1>3. PICK s \in {"in_doubt", "done"} : Goto(u, s)
  BY DEF Finish
<1>4. decision[u] \in {"commit", "abort"} /\ ended[u] = "none"
  BY <1>1, <1>2 DEF CoordInv, TypeOK
<1>5. PICK result \in Results[decision[u]], logged \in EndLogged, query \in GetStatus(u) :
        /\ ended' = [ended EXCEPT ![u] =
                       IF result \in {"COMMITTED", "ABORTED"} THEN decision[u] ELSE "heuristic"]
        /\ log' = log \o ((IF logged
                           THEN <<[type |-> "End", txuid |-> u, result |-> result]>>
                           ELSE <<>>) \o query)
  BY DEF Finish, Write
<1>6. result \in Rec!ActionStatus
      /\ EndOf(result) = IF result \in {"COMMITTED", "ABORTED"} THEN decision[u] ELSE "heuristic"
  BY <1>4 DEF Results, Rec!ActionStatus, EndOf
<1>7. EndOf(result) \in {"none", "commit", "abort", "heuristic"} \ {"none"}
      /\ ended' = [ended EXCEPT ![u] = EndOf(result)]
  BY <1>4, <1>5, <1>6
<1>8. stage'[u] = s /\ ended'[u] = EndOf(result) /\ decision'[u] = decision[u]
  BY <1>1, <1>2, <1>3, <1>7 DEF Goto, TypeOK
<1>9. CoordInv(u)'
  BY <1>1, <1>2, <1>6, <1>8 DEF CoordInv
<1> DEFINE e == [type |-> "End", txuid |-> u, result |-> result]
           first == IF logged THEN <<e>> ELSE <<>>
           heads == first \o query
<1>10. e \in Rec!Line /\ About(e, u) /\ e.type = "End" /\ LineInv(e, u)'
  <2>1. e \in Rec!Line /\ About(e, u) /\ e.type = "End" /\ e.result = result
    BY <1>6 DEF Rec!Line, About
  <2> HIDE DEF e
  <2> QED
    BY <1>8, <2>1 DEF LineInv, Opening
<1>11. PICK q : q = L("get_status", u)
  OBVIOUS
<1>12. q \in Rec!Line /\ About(q, u) /\ q.type = "get_status"
  BY <1>11 DEF L, Rec!Line, About
<1>13. query \in {<<>>, <<q>>} /\ (query # <<>> => decision[u] = "commit")
  BY <1>5, <1>11 DEF GetStatus, Wording
<1>14. query = <<q>> => LineInv(q, u)'
  <2>1. ASSUME query = <<q>> PROVE decision[u] = "commit"
    BY <1>13, <2>1
  <2> QED
    BY <1>8, <1>12, <2>1 DEF LineInv, Opening
<1> HIDE DEF e
<1>15. first \in Seq(Rec!Line) /\ \A k \in DOMAIN first : first[k] = e
  BY <1>10
<1>16. query \in Seq(Rec!Line) /\ \A k \in DOMAIN query : query = <<q>> /\ query[k] = q
  <2>1. <<>> \in Seq(Rec!Line) /\ DOMAIN <<>> = {} /\ <<q>> \in Seq(Rec!Line)
        /\ \A k \in DOMAIN <<q>> : <<q>>[k] = q
    BY <1>12
  <2>2. CASE query = <<>>
    BY <2>1, <2>2
  <2>3. CASE query = <<q>>
    BY <2>1, <2>3
  <2> QED
    BY <1>13, <2>2, <2>3
<1> HIDE DEF first
<1>17. /\ heads \in Seq(Rec!Line)
       /\ \A k \in DOMAIN heads : heads[k] = e \/ (heads[k] = q /\ query = <<q>>)
  BY <1>15, <1>16
<1> DEFINE none == <<>>
<1>18. log' = log \o (heads \o none) /\ none \in Seq(PhaseTwoLine(u))
  BY <1>5, <1>17, NoSecondPhase DEF first, e
<1> HIDE DEF heads, none
<1>19. ASSUME NEW k \in DOMAIN heads
       PROVE  /\ About(heads[k], u) /\ LineInv(heads[k], u)'
              /\ heads[k].type \notin {"Begin", "prepare"} /\ ~ Opening(heads[k])
              /\ Quiet(heads[k])
  <2>1. PICK l : l = heads[k]
    OBVIOUS
  <2>2. About(l, u) /\ LineInv(l, u)' /\ l.type \in {"End", "get_status"}
    BY <1>10, <1>12, <1>14, <1>17, <2>1
  <2> QED
    BY <2>1, <2>2 DEF Opening, Quiet, EnlistingTypes
<1>20. s \in Stages
  BY DEF Stages
<1> QED
  BY <1>2, <1>3, <1>4, <1>7, <1>9, <1>17, <1>18, <1>19, <1>20, GotoAdvances

\* Every step of a coordinator keeps the invariant.
LEMMA CoordinatorKeeps ==
  ASSUME IInv, NEW u \in TxUid, Coordinator(u) \/ Recover(u)
  PROVE  IInv'
<1>1. TypeOK' /\ \E lines : Advances(u, lines)
  BY BeginAdvances, EnlistAdvances, PrepareAdvances, EndingAdvances, SecondPhaseAdvances,
     FinishAdvances DEF Coordinator
<1>2. \A v \in TxUid : UInv(v)'
  BY <1>1, AdvanceKeeps, AdvanceOthers
<1> QED
  BY <1>1, <1>2 DEF IInv

-----------------------------------------------------------------------------
(* The monitor reads a line.                                                *)

\* The line l, which is about u, was read: it made the row of u, or removed it,
\* or else it was handled as its type says; no other row has changed.
Taken(l, u) ==
  /\ Rec!TypeOK'
  /\ \A v \in TxUid : v # u => SameRow(v)
  /\ \/ l.type = "Begin" /\ rows[u] = 0 /\ rows'[u] = 1 /\ tx'[u] = Rec!NewTransaction
     \/ /\ l.type = "get_status" /\ tx[u].participants = <<>>
        /\ rows'[u] = 0 /\ tx'[u] = Rec!NoTransaction
     \/ /\ l.type # "Begin"
        /\ rows'[u] = rows[u]
        /\ tx'[u].status = IF rows[u] = 1 THEN NewStatus(l, tx[u].status) ELSE tx[u].status
        /\ tx'[u].ended = IF rows[u] = 1 THEN NewEnded(l, tx[u]) ELSE tx[u].ended
        /\ ParticipantsAfter(l, u)

\* The monitor takes the first line, and what it takes is what the line tells.
LEMMA ReadLineTakes ==
  ASSUME IInv, ReadLine
  PROVE  \E l \in Rec!Line, u \in TxUid :
           /\ 1 \in DOMAIN log /\ l = log[1] /\ About(l, u) /\ LineInv(l, u)
           /\ Taken(l, u)
           /\ \A v \in TxUid : SameCoordinator(v) /\ (v # u => Shifted(v, 1))
           /\ service' = service /\ gap' = gap /\ TypeOK'
           /\ \A i \in DOMAIN log' :
                i \in Nat /\ i >= 1 /\ i + 1 \in DOMAIN log /\ log'[i] = log[i + 1]
           /\ \A i \in DOMAIN log :
                i = 1 \/ (i \in Nat /\ i > 1 /\ i - 1 \in DOMAIN log' /\ log'[i - 1] = log[i])
<1>1. TypeOK /\ log \in Seq(Rec!Line) /\ log # <<>> /\ log' = Tail(log)
  BY DEF IInv, TypeOK, ReadLine
<1>2. PICK l \in Rec!Line : 1 \in DOMAIN log /\ l = log[1] /\ l = Head(log)
  BY <1>1, Popped
<1>3. PICK u \in TxUid : About(l, u)
  BY AboutOne
<1>4. /\ \A i \in DOMAIN log' :
           i \in Nat /\ i >= 1 /\ i + 1 \in DOMAIN log /\ log'[i] = log[i + 1]
      /\ \A i \in DOMAIN log :
           i = 1 \/ (i \in Nat /\ i > 1 /\ i - 1 \in DOMAIN log' /\ log'[i - 1] = log[i])
      /\ log' \in Seq(Rec!Line)
  BY <1>1, Popped
<1>5. LineInv(l, u) /\ RowInv(u)
  BY <1>2, <1>3 DEF IInv, UInv, LogInv
<1>6. Rec!TypeOK /\ Owned /\ Rec!Handle(l)
  BY <1>1, <1>2 DEF TypeOK, IInv, UInv, RowInv, Owned, ReadLine
<1>7. Taken(l, u)
  <2>1. CASE l.type = "Begin"
    <3>1. Rec!Begin(u) /\ rows[u] = 0
      BY <1>3, <1>5, <1>6, <2>1, HandleReads DEF LineInv
    <3>2. Rec!NewTransaction \in Rec!Transaction
      BY DEF Rec!NewTransaction, Rec!Transaction, Rec!Status, Rec!Event, Rec!EventType
    <3> QED
      BY <1>6, <2>1, <3>1, <3>2 DEF Taken, Rec!Begin, Rec!TypeOK, SameRow
  <2>2. CASE l.type # "Begin"
    <3>1. Read(l, u)
      BY <1>3, <1>6, <2>2, HandleReads
    <3> QED
      BY <2>2, <3>1 DEF Taken, Read, SameRow
  <2> QED
    BY <2>1, <2>2
<1>8. /\ service' = service /\ gap' = gap /\ stage' = stage /\ branch' = branch
      /\ decision' = decision /\ ended' = ended /\ restarts' = restarts /\ replays' = replays
  BY DEF ReadLine, serverVars
<1>9. TypeOK'
  BY <1>1, <1>4, <1>7, <1>8 DEF TypeOK, Taken
<1>10. ASSUME NEW v \in TxUid
       PROVE  SameCoordinator(v) /\ (v # u => Shifted(v, 1))
  <2>1. ~ About(log[1], v) \/ v = u
    BY <1>2, <1>3, AboutOne
  <2>2. DOMAIN log \subseteq Nat /\ DOMAIN log' \subseteq Nat
    BY <1>1, <1>4
  <2> QED
    BY <1>4, <1>8, <2>1, <2>2 DEF SameCoordinator, Shifted
<1> QED
  BY <1>2, <1>3, <1>4, <1>5, <1>7, <1>8, <1>9, <1>10

\* The transaction the line is about.
LEMMA TakenKeeps ==
  ASSUME IInv, NEW l \in Rec!Line, NEW u \in TxUid,
         1 \in DOMAIN log, l = log[1], About(l, u), LineInv(l, u), Taken(l, u),
         SameCoordinator(u), gap' = gap,
         \A i \in DOMAIN log' :
           i \in Nat /\ i >= 1 /\ i + 1 \in DOMAIN log /\ log'[i] = log[i + 1],
         \A i \in DOMAIN log :
           i = 1 \/ (i \in Nat /\ i > 1 /\ i - 1 \in DOMAIN log' /\ log'[i - 1] = log[i])
  PROVE  UInv(u)'
<1>1. CoordInv(u) /\ RowInv(u) /\ LogInv(u) /\ OrderInv(u) /\ ProgressInv(u) /\ TypeOK
  BY DEF IInv, UInv
<1>2. /\ stage'[u] = stage[u] /\ branch'[u] = branch[u] /\ decision'[u] = decision[u]
      /\ ended'[u] = ended[u]
  BY DEF SameCoordinator
<1>3. Recoverable(u)' <=> Recoverable(u)
  BY <1>2 DEF Recoverable, Enlisted
<1>4. \A i \in DOMAIN log' : About(log'[i], u) =>
        /\ log'[i].type # "Begin"
        /\ Opening(log'[i]) => ~ Telling(l)
  <2> SUFFICES ASSUME NEW i \in DOMAIN log', About(log'[i], u)
               PROVE  log'[i].type # "Begin" /\ (Opening(log'[i]) => ~ Telling(l))
    OBVIOUS
  <2>1. i + 1 \in DOMAIN log /\ 1 < i + 1 /\ log'[i] = log[i + 1]
    OBVIOUS
  <2> QED
    BY <1>1, <2>1 DEF OrderInv
<1>5. rows[u] \in {0, 1} /\ (rows[u] = 0 => tx[u].status = "IN_FLIGHT")
  BY <1>1 DEF RowInv
<1>6. \/ l.type = "Begin" /\ rows[u] = 0 /\ rows'[u] = 1 /\ tx'[u].status = "IN_FLIGHT"
      \/ l.type = "get_status" /\ rows'[u] = 0 /\ tx'[u].status = "IN_FLIGHT"
      \/ /\ l.type # "Begin" /\ rows'[u] = rows[u]
         /\ tx'[u].status = IF rows[u] = 1 THEN NewStatus(l, tx[u].status) ELSE tx[u].status
  BY DEF Taken, Rec!NewTransaction, Rec!NoTransaction
<1>7. CoordInv(u)'
  BY <1>1, <1>2, <1>3 DEF CoordInv
<1>8. RowInv(u)'
  <2>1. rows'[u] \in {0, 1} /\ (rows'[u] = 1 => stage'[u] # "none")
    BY <1>2, <1>5, <1>6 DEF LineInv
  <2>2. rows'[u] = 0 => tx'[u].status = "IN_FLIGHT" /\ tx'[u].participants = <<>>
    <3>1. CASE rows[u] = 0 /\ ParticipantsAfter(l, u)
      <4>1. tx[u].participants = <<>> /\ DOMAIN tx[u].participants = {}
        BY <1>1, <3>1 DEF RowInv
      <4>2. tx'[u].participants = <<>>
        BY <3>1, <4>1 DEF ParticipantsAfter
      <4> QED
        BY <1>5, <1>6, <3>1, <4>2
    <3>2. CASE ~ (rows[u] = 0 /\ ParticipantsAfter(l, u))
      BY <1>5, <3>2 DEF Taken, Rec!NoTransaction
    <3> QED
      BY <3>1, <3>2
  <2>3. Shown(u)' \in {"none", decision'[u], ended'[u]}
    <3>1. CASE tx'[u].status = tx[u].status
      BY <1>1, <1>2, <3>1 DEF RowInv, Shown
    <3>2. CASE tx'[u].status = "IN_FLIGHT"
      BY <3>2 DEF Shown
    <3>3. CASE tx'[u].status = NewStatus(l, tx[u].status) /\ l.type # "End"
      BY <1>1, <1>2, <3>3 DEF NewStatus, LineInv, RowInv, Shown
    <3>4. CASE tx'[u].status = Rec!EndStatus(l.result) /\ l.type = "End"
      <4>1. l.result \in Rec!ActionStatus
        BY <3>4, LineGroups
      <4>2. Shown(u)' = EndOf(l.result)
        BY <3>4, <4>1 DEF Shown, EndOf, Rec!EndStatus, Rec!ActionStatus
      <4> QED
        BY <1>2, <3>4, <4>2 DEF LineInv
    <3> QED
      BY <1>6, <3>1, <3>2, <3>3, <3>4 DEF NewStatus
  <2>4. /\ tx'[u].status = "PREPARE" => l.type = "prepare" \/ tx[u].status = "PREPARE"
        /\ tx'[u].status = "ONE_PHASE_COMMIT" =>
             l.type = "onePhaseCommit" \/ tx[u].status = "ONE_PHASE_COMMIT"
    <3>1. l.type = "End" => Rec!EndStatus(l.result) \notin {"PREPARE", "ONE_PHASE_COMMIT"}
      BY LineGroups DEF Rec!EndStatus, Rec!ActionStatus
    <3> QED
      BY <1>6, <3>1 DEF NewStatus
  <2>5. /\ tx'[u].status = "PREPARE" =>
             stage'[u] \notin {"none", "active", "one_phase"} /\ Recoverable(u)'
        /\ tx'[u].status = "ONE_PHASE_COMMIT" =>
             stage'[u] \notin {"none", "active"} /\ ~ Recoverable(u)'
    BY <1>1, <1>2, <1>3, <2>4 DEF LineInv, RowInv
  <2>6. ASSUME NEW i \in DOMAIN tx'[u].participants, NEW p, p = tx'[u].participants[i]
        PROVE  p.rmuid \in {NoRmUid, <<u, p.rm>>}
    <3> DEFINE old == tx[u].participants
               new == tx'[u].participants
    <3>1. \A j \in DOMAIN old : old[j].rmuid \in {NoRmUid, <<u, old[j].rm>>}
      BY <1>1 DEF RowInv
    <3>2. old \in Seq(Rec!Participant)
      BY <1>1 DEF TypeOK, Rec!TypeOK, Rec!Transaction
    <3>3. CASE new = <<>> \/ new = old
      BY <2>6, <3>1, <3>3
    <3>4. CASE \E j \in DOMAIN old : new = [old EXCEPT ![j] = Voted(l, old[j])]
      <4>1. PICK j \in DOMAIN old : new = [old EXCEPT ![j] = Voted(l, old[j])]
        BY <3>4
      <4>2. old[j] \in Rec!Participant
        BY <3>2
      <4>3. Voted(l, old[j]).rmuid = old[j].rmuid /\ Voted(l, old[j]).rm = old[j].rm
        BY <4>2 DEF Voted, Rec!Participant
      <4> QED
        BY <2>6, <3>1, <4>1, <4>3
    <3>5. CASE l.type \in EnlistingTypes /\ new = Append(old, NewParticipant(l))
      <4>1. NewParticipant(l).rmuid \in {NoRmUid, <<u, NewParticipant(l).rm>>}
        <5>1. l.txuid = u
          BY <3>5, AboutOne DEF EnlistingTypes, ResourceTypes
        <5> QED
          BY <5>1 DEF NewParticipant, LineInv
      <4>2. \/ i \in DOMAIN old /\ new[i] = old[i]
            \/ new[i] = NewParticipant(l)
        BY <2>6, <3>2, <3>5
      <4> QED
        BY <2>6, <3>1, <4>1, <4>2
    <3>6. \/ new = <<>> \/ new = old
          \/ \E j \in DOMAIN old : new = [old EXCEPT ![j] = Voted(l, old[j])]
          \/ l.type \in EnlistingTypes /\ new = Append(old, NewParticipant(l))
      <4>1. CASE ParticipantsAfter(l, u)
        BY <4>1 DEF ParticipantsAfter
      <4>2. CASE tx'[u] \in {Rec!NewTransaction, Rec!NoTransaction}
        BY <4>2 DEF Rec!NewTransaction, Rec!NoTransaction
      <4> QED
        BY <4>1, <4>2 DEF Taken
    <3> QED
      BY <3>3, <3>4, <3>5, <3>6
  <2> QED
    BY <2>1, <2>2, <2>3, <2>5, <2>6 DEF RowInv
<1>9. LogInv(u)'
  <2> SUFFICES ASSUME NEW i \in DOMAIN log', NEW m, m = log'[i], About(m, u)
               PROVE  LineInv(m, u)'
    BY DEF LogInv, About, LineInv, Opening
  <2>1. LineInv(m, u)
    BY <1>1 DEF LogInv
  <2>2. m.type # "Begin" /\ (Opening(m) => ~ Telling(l))
    BY <1>4
  <2>3. Shown(u) = "none" /\ ~ Telling(l) => Shown(u)' = "none"
    BY <1>6 DEF Shown, Telling, NewStatus
  <2> QED
    BY <1>2, <1>3, <2>1, <2>2, <2>3 DEF LineInv
<1>10. OrderInv(u)'
  <2> SUFFICES ASSUME NEW i \in DOMAIN log', NEW j \in DOMAIN log', i < j,
                      About(log'[i], u), About(log'[j], u)
               PROVE  log'[j].type # "Begin" /\ (Opening(log'[j]) => ~ Telling(log'[i]))
    BY DEF OrderInv, About, Opening, Telling
  <2>1. /\ i + 1 \in DOMAIN log /\ j + 1 \in DOMAIN log /\ i + 1 < j + 1
        /\ log'[i] = log[i + 1] /\ log'[j] = log[j + 1]
    OBVIOUS
  <2> QED
    BY <1>1, <2>1 DEF OrderInv
<1>11. ProgressInv(u)'
  <2>1. ASSUME NEW types, Pending(u, types), l.type \notin types
        PROVE  Pending(u, types)'
    <3>1. PICK i \in DOMAIN log : About(log[i], u) /\ log[i].type \in types
      BY <2>1 DEF Pending
    <3>2. i # 1 /\ i - 1 \in DOMAIN log' /\ log'[i - 1] = log[i]
      BY <2>1, <3>1
    <3> QED
      BY <3>1, <3>2 DEF Pending, About
  <2>2. ~ Pending(u, {"Begin"})'
    BY <1>4 DEF Pending, About
  <2>3. ASSUME NEW i \in DOMAIN log, i # 1, ~ gap, About(log[i], u),
               NEW types, log[i].type \in types
        PROVE  Pending(u, types)'
    <3>1. i - 1 \in DOMAIN log' /\ log'[i - 1] = log[i]
      BY <2>3
    <3> QED
      BY <2>3, <3>1 DEF Pending, About
  <2>4. ASSUME ~ gap, stage[u] \notin {"none", "active"}, rows'[u] = 1,
               tx'[u].status = "IN_FLIGHT"
        PROVE  Pending(u, {"prepare", "onePhaseCommit", "Abort"})'
    <3>1. l.type = "Begin" => Pending(u, {"Begin"})
      BY DEF Pending
    <3>2. /\ l.type \notin {"prepare", "onePhaseCommit", "Abort"}
          /\ tx[u].status = "IN_FLIGHT" /\ (rows[u] = 1 \/ l.type = "Begin")
      <4>1. l.type = "End" => Rec!EndStatus(l.result) # "IN_FLIGHT"
        BY LineGroups DEF Rec!EndStatus, Rec!ActionStatus
      <4> QED
        BY <1>5, <1>6, <2>4, <4>1 DEF NewStatus
    <3> QED
      BY <1>1, <2>1, <2>4, <3>1, <3>2 DEF ProgressInv
  <2>5. ASSUME ~ gap, stage[u] \notin {"none", "active", "preparing"},
               tx'[u].status = "PREPARE"
        PROVE  Pending(u, PhaseTwo)'
    <3>1. CASE l.type = "prepare"
      <4>1. PICK j \in DOMAIN log : 1 < j /\ About(log[j], u) /\ log[j].type \in PhaseTwo
        BY <1>1, <2>5, <3>1 DEF ProgressInv
      <4> QED
        BY <2>3, <2>5, <4>1
    <3>2. CASE l.type # "prepare"
      <4>1. l.type = "End" => Rec!EndStatus(l.result) # "PREPARE"
        BY LineGroups DEF Rec!EndStatus, Rec!ActionStatus
      <4>2. tx[u].status = "PREPARE" /\ l.type \notin PhaseTwo
        BY <1>5, <1>6, <2>5, <3>2, <4>1 DEF NewStatus, PhaseTwo
      <4> QED
        BY <1>1, <2>1, <2>5, <4>2 DEF ProgressInv
    <3> QED
      BY <3>1, <3>2
  <2>6. ASSUME ~ gap, stage[u] \notin {"none", "active", "preparing"},
               NEW i \in DOMAIN log', About(log'[i], u), log'[i].type = "prepare"
        PROVE  \E j \in DOMAIN log' :
                 i < j /\ About(log'[j], u) /\ log'[j].type \in PhaseTwo
    <3>1. i + 1 \in DOMAIN log /\ log'[i] = log[i + 1] /\ i \in Nat /\ i >= 1
      OBVIOUS
    <3>2. PICK j \in DOMAIN log : i + 1 < j /\ About(log[j], u) /\ log[j].type \in PhaseTwo
      BY <1>1, <2>6, <3>1 DEF ProgressInv
    <3>3. j # 1 /\ j - 1 \in DOMAIN log' /\ log'[j - 1] = log[j] /\ i < j - 1
      BY <3>1, <3>2
    <3> QED
      BY <3>2, <3>3
  <2> QED
    BY <1>2, <2>2, <2>4, <2>5, <2>6 DEF ProgressInv, About
<1> QED
  BY <1>7, <1>8, <1>9, <1>10, <1>11 DEF UInv

\* Reading a line keeps the invariant.
LEMMA ReadKeeps ==
  ASSUME IInv, ReadLine
  PROVE  IInv'
<1>1. PICK l \in Rec!Line, u \in TxUid :
        /\ 1 \in DOMAIN log /\ l = log[1] /\ About(l, u) /\ LineInv(l, u)
        /\ Taken(l, u)
        /\ \A v \in TxUid : SameCoordinator(v) /\ (v # u => Shifted(v, 1))
        /\ service' = service /\ gap' = gap /\ TypeOK'
        /\ \A i \in DOMAIN log' :
             i \in Nat /\ i >= 1 /\ i + 1 \in DOMAIN log /\ log'[i] = log[i + 1]
        /\ \A i \in DOMAIN log :
             i = 1 \/ (i \in Nat /\ i > 1 /\ i - 1 \in DOMAIN log' /\ log'[i - 1] = log[i])
  BY ReadLineTakes
<1>2. UInv(u)'
  BY <1>1, TakenKeeps
<1>3. ASSUME NEW v \in TxUid, v # u PROVE UInv(v)'
  BY <1>1, <1>3, OthersKeep DEF IInv, Taken
<1> QED
  BY <1>1, <1>2, <1>3 DEF IInv

-----------------------------------------------------------------------------
(* The invariant holds.                                                     *)

\* The invariant holds at the start.
LEMMA InitKeeps ==
  ASSUME Init
  PROVE  IInv
<1>1. Rec!TypeOK
  BY DEF Init, Rec!Init, Rec!TypeOK, Rec!NoTransaction, Rec!Transaction, Rec!Status
<1>2. TypeOK
  <2>1. restarts \in Nat /\ replays \in Nat /\ service \in Services
    BY DEF Init
  <2>4. log = <<>> /\ gap = FALSE
    BY DEF Init
  <2>5. log \in Seq(Rec!Line)
    BY <2>4
  <2>6. gap \in BOOLEAN
    BY <2>4
  <2>2. branch \in [TxUid -> [RM -> Branch]] /\ stage \in [TxUid -> Stages]
    BY DEF Init, Stages, Branch
  <2>3. /\ decision \in [TxUid -> {"none", "commit", "abort"}]
        /\ ended \in [TxUid -> {"none", "commit", "abort", "heuristic"}]
    BY DEF Init
  <2> QED
    BY <1>1, <2>1, <2>2, <2>3, <2>5, <2>6 DEF TypeOK
<1>3. ASSUME NEW u \in TxUid
      PROVE  /\ stage[u] = "none" /\ decision[u] = "none" /\ ended[u] = "none"
             /\ rows[u] = 0 /\ tx[u].status = "IN_FLIGHT" /\ tx[u].participants = <<>>
             /\ \A rm \in RM : branch[u][rm] = "out"
             /\ DOMAIN log = {} /\ DOMAIN tx[u].participants = {}
  BY DEF Init, Rec!Init, Rec!NoTransaction
<1>4. ASSUME NEW u \in TxUid
      PROVE  UInv(u)
  <2>1. Shown(u) = "none"
    BY <1>3 DEF Shown
  <2>2. CoordInv(u) /\ RowInv(u)
    BY <1>3, <2>1 DEF CoordInv, RowInv
  <2>3. LogInv(u) /\ OrderInv(u) /\ ProgressInv(u)
    BY <1>3 DEF LogInv, OrderInv, ProgressInv
  <2> QED
    BY <2>2, <2>3 DEF UInv
<1> QED
  BY <1>2, <1>4 DEF IInv

\* Unread lines are lost: of what comes in order, nothing is left.
LEMMA RedeployKeeps ==
  ASSUME IInv, Redeploy
  PROVE  IInv'
<1>1. TypeOK
  BY DEF IInv
<1>2. /\ UNCHANGED <<dbVars, serverVars, replays>> /\ log' = <<>> /\ gap' = TRUE
      /\ restarts' \in Nat
  BY <1>1 DEF Redeploy, TypeOK
<1>3. TypeOK'
  BY <1>1, <1>2 DEF TypeOK, Rec!TypeOK, dbVars, serverVars
<1>4. ASSUME NEW u \in TxUid
      PROVE  UInv(u)'
  <2>1. CoordInv(u) /\ RowInv(u)
    BY DEF IInv, UInv
  <2>2. /\ stage'[u] = stage[u] /\ decision'[u] = decision[u] /\ ended'[u] = ended[u]
        /\ branch'[u] = branch[u] /\ tx'[u] = tx[u] /\ rows'[u] = rows[u] /\ DOMAIN log' = {}
    BY <1>2 DEF dbVars, serverVars
  <2>3. (Recoverable(u)' <=> Recoverable(u)) /\ Shown(u)' = Shown(u)
    BY <2>2 DEF Recoverable, Enlisted, Shown
  <2>4. CoordInv(u)' /\ RowInv(u)'
    BY <2>1, <2>2, <2>3 DEF CoordInv, RowInv
  <2>5. LogInv(u)' /\ OrderInv(u)' /\ ProgressInv(u)'
    BY <1>2, <2>2 DEF LogInv, OrderInv, ProgressInv
  <2> QED
    BY <2>4, <2>5 DEF UInv
<1> QED
  BY <1>3, <1>4 DEF IInv

\* A crash decides what was not, and moves no transaction back.
LEMMA CrashEffect ==
  ASSUME IInv, Crash, NEW u \in TxUid
  PROVE  /\ decision'[u] =
              IF stage[u] \in {"active", "preparing"} THEN "abort"
              ELSE IF stage[u] = "one_phase" THEN decision'[u] ELSE decision[u]
         /\ stage[u] = "one_phase" => decision'[u] \in {"commit", "abort"}
         /\ decision[u] # "none" => decision'[u] = decision[u]
         /\ stage'[u] \in {"none", "in_doubt", "done"}
         /\ stage'[u] = "none" <=> stage[u] = "none"
<1>1. CoordInv(u) /\ TypeOK
  BY DEF IInv, UInv
<1>2. PICK answer \in [TxUid -> {"commit", "abort"}] :
        decision' = [v \in TxUid |->
                       IF stage[v] \in {"active", "preparing"} THEN "abort"
                       ELSE IF stage[v] = "one_phase" THEN answer[v]
                       ELSE decision[v]]
  BY DEF Crash
<1>3. stage' = [v \in TxUid |->
                  IF stage[v] = "none" THEN "none"
                  ELSE IF stage[v] = "in_doubt" \/
                          (stage[v] = "committing" /\ Recoverable(v)) THEN "in_doubt"
                  ELSE "done"]
  BY DEF Crash
<1>4. /\ stage'[u] \in {"none", "in_doubt", "done"}
      /\ stage'[u] = "none" <=> stage[u] = "none"
  BY <1>3
<1> QED
  BY <1>1, <1>2, <1>4 DEF CoordInv

\* A crash keeps the invariant: no line is left that tells of the time before.
LEMMA CrashKeeps ==
  ASSUME IInv, Crash
  PROVE  IInv'
<1>1. TypeOK
  BY DEF IInv
<1>2. /\ UNCHANGED <<dbVars, service, branch, ended, replays>> /\ log' = <<>> /\ gap' = TRUE
      /\ restarts' \in Nat
  BY <1>1 DEF Crash, TypeOK
<1>3. decision' \in [TxUid -> {"none", "commit", "abort"}]
  BY <1>1 DEF Crash, TypeOK
<1>4. stage' \in [TxUid -> Stages]
  BY DEF Crash, Stages
<1>5. TypeOK'
  BY <1>1, <1>2, <1>3, <1>4 DEF TypeOK, Rec!TypeOK, dbVars
<1>6. ASSUME NEW u \in TxUid
      PROVE  UInv(u)'
  <2>1. CoordInv(u) /\ RowInv(u)
    BY DEF IInv, UInv
  <2>2. /\ ended'[u] = ended[u] /\ branch'[u] = branch[u] /\ tx'[u] = tx[u]
        /\ rows'[u] = rows[u] /\ DOMAIN log' = {}
    BY <1>2 DEF dbVars
  <2>3. (Recoverable(u)' <=> Recoverable(u)) /\ Shown(u)' = Shown(u)
    BY <2>2 DEF Recoverable, Enlisted, Shown
  <2>4. decision[u] \in {"none", "commit", "abort"} /\ stage[u] \in Stages
    BY <1>1 DEF TypeOK
  <2>5. CoordInv(u)'
    BY <2>1, <2>2, <2>3, <2>4, CrashEffect DEF CoordInv, Stages
  <2>6. RowInv(u)'
    BY <2>1, <2>2, <2>3, <2>4, CrashEffect DEF RowInv
  <2>7. LogInv(u)' /\ OrderInv(u)' /\ ProgressInv(u)'
    BY <1>2, <2>2 DEF LogInv, OrderInv, ProgressInv
  <2> QED
    BY <2>5, <2>6, <2>7 DEF UInv
<1> QED
  BY <1>5, <1>6 DEF IInv

\* So does a step that changes nothing.
LEMMA StutterKeeps ==
  ASSUME IInv, UNCHANGED vars
  PROVE  IInv'
<1>1. /\ TypeOK' /\ gap' = gap /\ DOMAIN log \subseteq Nat /\ log' = log
      /\ \A u \in TxUid : SameCoordinator(u) /\ SameRow(u)
  BY DEF IInv, TypeOK, vars, dbVars, serverVars, Rec!TypeOK, SameCoordinator, SameRow
<1>2. \A u \in TxUid : Shifted(u, 0)
  BY <1>1 DEF Shifted
<1> QED
  BY <1>1, <1>2, OthersKeep DEF IInv

\* The invariant holds for every set of transactions and resources.
LEMMA Invariance == Spec => []IInv
<1>1. Init => IInv
  BY InitKeeps
<1>2. IInv /\ [Next]_vars => IInv'
  BY CoordinatorKeeps, ReadKeeps, RedeployKeeps, CrashKeeps, StutterKeeps DEF Next
<1> QED
  BY <1>1, <1>2, PTL DEF Spec

-----------------------------------------------------------------------------
(* What follows.                                                            *)

\* The coordinator, the log and the recorded rows have their types.
THEOREM TypeCorrect == Spec => []TypeOK
<1>1. IInv => TypeOK
  BY DEF IInv
<1> QED
  BY <1>1, Invariance, PTL

\* Whatever lines a monitor reads, once it has caught up with a transaction that
\* it did not lose a line of, the status tells how far the coordinator is.
LEMMA StatusFollows ==
  ASSUME IInv
  PROVE  StatusCurrent
<1> SUFFICES ASSUME NEW u \in TxUid, CaughtUp(u), rows[u] = 1
             PROVE  /\ tx[u].status = "IN_FLIGHT" => stage[u] = "active"
                    /\ tx[u].status = "PREPARE" => stage[u] = "preparing"
                    /\ tx[u].status = "ONE_PHASE_COMMIT" => Cardinality(Enlisted(u)) <= 1
                    /\ tx[u].status \in {"PHASE_ONE_ABORT", "PHASE_TWO_ABORT"} =>
                         decision[u] = "abort"
  BY DEF StatusCurrent
<1>1. CoordInv(u) /\ RowInv(u) /\ ProgressInv(u)
  BY DEF IInv, UInv
<1>2. ~ gap /\ \A types : ~ Pending(u, types)
  BY DEF CaughtUp, Pending
<1>3. tx[u].status = "IN_FLIGHT" => stage[u] = "active"
  BY <1>1, <1>2 DEF ProgressInv, RowInv
<1>4. tx[u].status = "PREPARE" => stage[u] = "preparing"
  BY <1>1, <1>2 DEF ProgressInv, RowInv
<1>5. tx[u].status = "ONE_PHASE_COMMIT" => Cardinality(Enlisted(u)) <= 1
  BY <1>1, OnePhaseOrTwo DEF RowInv
<1>6. tx[u].status \in {"PHASE_ONE_ABORT", "PHASE_TWO_ABORT"} => decision[u] = "abort"
  <2>1. tx[u].status \in {"PHASE_ONE_ABORT", "PHASE_TWO_ABORT"} => Shown(u) = "abort"
    BY DEF Shown
  <2> QED
    BY <1>1, <2>1 DEF RowInv, CoordInv
<1> QED
  BY <1>3, <1>4, <1>5, <1>6

\* StatusCurrent, of every run of the coordinator and the monitor.
THEOREM StatusCurrentCorrect == Spec => []StatusCurrent
<1>1. IInv => StatusCurrent
  BY StatusFollows
<1> QED
  BY <1>1, Invariance, PTL

-----------------------------------------------------------------------------
(* End times.                                                               *)

\* The second phase of u is logged between two lines.
PhaseTwoBetween(u, i, e) ==
  \E j \in DOMAIN log :
    i < j /\ j < e /\ About(log[j], u) /\ log[j].type \in PhaseTwo

\* EndTimed, and what it rests on: the line that tells of the result of End()
\* comes after that of the second phase, so that it finds the row with its end
\* time, or no line was lost.
TimeInv(u) ==
  /\ tx[u].ended => tx[u].status \notin {"IN_FLIGHT", "PREPARE"}
  /\ ~ gap =>
       /\ tx[u].status \notin {"IN_FLIGHT", "PREPARE"} => tx[u].ended
       /\ \A e \in DOMAIN log : (About(log[e], u) /\ log[e].type = "End") =>
            /\ tx[u].status = "PREPARE" => PhaseTwoBetween(u, 0, e)
            /\ \A i \in DOMAIN log :
                 (i < e /\ About(log[i], u) /\ log[i].type = "prepare") =>
                   PhaseTwoBetween(u, i, e)

\* What a step does not touch keeps it.
LEMMA TimeOthers ==
  ASSUME NEW u \in TxUid, TimeInv(u), SameRow(u), gap' = gap,
         NEW d \in {0, 1}, Shifted(u, d), DOMAIN log' \subseteq Nat \ {0}
  PROVE  TimeInv(u)'
<1>1. ASSUME NEW i \in Nat, NEW e \in Nat, PhaseTwoBetween(u, i + d, e + d) \/
               (i = 0 /\ PhaseTwoBetween(u, 0, e + d))
      PROVE  PhaseTwoBetween(u, i, e)'
  <2>1. PICK j \in DOMAIN log :
          /\ i + d < j \/ i = 0
          /\ j < e + d /\ About(log[j], u) /\ log[j].type \in PhaseTwo
    BY <1>1 DEF PhaseTwoBetween
  <2>2. j \in Nat /\ j - d \in DOMAIN log' /\ log'[j - d] = log[j] /\ j - d \in Nat \ {0}
    BY <2>1 DEF Shifted
  <2>3. i < j - d /\ j - d < e
    BY <2>1, <2>2
  <2> QED
    BY <2>1, <2>2, <2>3 DEF PhaseTwoBetween, About
<1>2. ASSUME NEW e \in DOMAIN log', About(log'[e], u), log'[e].type = "End", ~ gap
      PROVE  /\ tx[u].status = "PREPARE" => PhaseTwoBetween(u, 0, e)'
             /\ \A i \in DOMAIN log' :
                  (i < e /\ About(log'[i], u) /\ log'[i].type = "prepare") =>
                    PhaseTwoBetween(u, i, e)'
  <2>1. e \in Nat /\ e + d \in DOMAIN log /\ log'[e] = log[e + d]
    BY <1>2 DEF Shifted
  <2>2. tx[u].status = "PREPARE" => PhaseTwoBetween(u, 0, e)'
    BY <1>1, <1>2, <2>1 DEF TimeInv
  <2>3. ASSUME NEW i \in DOMAIN log', i < e, About(log'[i], u), log'[i].type = "prepare"
        PROVE  PhaseTwoBetween(u, i, e)'
    <3>1. i \in Nat /\ i + d \in DOMAIN log /\ log'[i] = log[i + d] /\ i + d < e + d
      BY <2>1, <2>3 DEF Shifted
    <3> QED
      BY <1>1, <1>2, <2>1, <2>3, <3>1 DEF TimeInv
  <2> QED
    BY <2>2, <2>3
<1> QED
  BY <1>2 DEF TimeInv, SameRow, About

\* A coordinator writes the result of End() after the second phase.
LEMMA TimeAdvances ==
  ASSUME IInv, NEW u \in TxUid, TimeInv(u), NEW lines, Advances(u, lines),
         ended' = ended \/ stage[u] \in {"committing", "aborting"}
  PROVE  TimeInv(u)'
<1> DEFINE n == Len(log)
<1>1. lines \in Seq(Rec!Line) /\ log' = log \o lines /\ log \in Seq(Rec!Line)
  BY DEF IInv, TypeOK, Advances
<1>2. /\ \A i \in DOMAIN log : i \in Nat /\ i <= n /\ i \in DOMAIN log' /\ log'[i] = log[i]
      /\ \A i \in DOMAIN log' : \/ i \in DOMAIN log
                                \/ \E k \in DOMAIN lines : i = n + k /\ log'[i] = lines[k]
      /\ n \in Nat /\ DOMAIN lines \subseteq Nat \ {0} /\ DOMAIN log \subseteq Nat \ {0}
  BY <1>1, Appended
<1> HIDE DEF n
<1>3. tx' = tx /\ gap' = gap
  BY DEF Advances, dbVars
<1>4. CoordInv(u) /\ RowInv(u) /\ ProgressInv(u)
  BY DEF IInv, UInv
<1>5. ASSUME NEW i, NEW e, PhaseTwoBetween(u, i, e)
      PROVE  PhaseTwoBetween(u, i, e)'
  BY <1>2, <1>5 DEF PhaseTwoBetween, About
<1>6. ASSUME NEW e \in DOMAIN log', e \notin DOMAIN log, log'[e].type = "End", ~ gap
      PROVE  /\ tx[u].status = "PREPARE" => PhaseTwoBetween(u, 0, e)'
             /\ \A i \in DOMAIN log' :
                  (i < e /\ About(log'[i], u) /\ log'[i].type = "prepare") =>
                    PhaseTwoBetween(u, i, e)'
  <2>1. PICK k \in DOMAIN lines : e = n + k /\ log'[e] = lines[k]
    BY <1>2, <1>6
  <2>2. LineInv(lines[k], u)'
    BY DEF Advances
  <2>3. ended'[u] # "none"
    BY <1>6, <2>1, <2>2 DEF LineInv, EndOf
  <2>4. stage[u] \in {"committing", "aborting", "in_doubt"}
    BY <1>4, <2>3 DEF CoordInv, Advances
  <2>5. decision[u] # "none"
    BY <1>4, <2>4 DEF CoordInv
  <2>6. \A i \in DOMAIN log : i < e
    BY <1>2, <2>1
  <2>7. tx[u].status = "PREPARE" => PhaseTwoBetween(u, 0, e)
    <3> SUFFICES ASSUME tx[u].status = "PREPARE" PROVE PhaseTwoBetween(u, 0, e)
      OBVIOUS
    <3>1. PICK j \in DOMAIN log : About(log[j], u) /\ log[j].type \in PhaseTwo
      BY <1>4, <1>6, <2>4 DEF ProgressInv, Pending
    <3>2. 0 < j /\ j < e
      BY <1>2, <2>6
    <3> QED
      BY <3>1, <3>2 DEF PhaseTwoBetween
  <2>8. ASSUME NEW i \in DOMAIN log', About(log'[i], u), log'[i].type = "prepare"
        PROVE  PhaseTwoBetween(u, i, e)
    <3>1. i \in DOMAIN log /\ log'[i] = log[i]
      BY <1>2, <2>5, <2>8 DEF Advances, Opening
    <3>2. PICK j \in DOMAIN log : i < j /\ About(log[j], u) /\ log[j].type \in PhaseTwo
      BY <1>4, <1>6, <2>4, <2>8, <3>1 DEF ProgressInv
    <3> QED
      BY <2>6, <3>2 DEF PhaseTwoBetween
  <2> QED
    BY <1>5, <2>7, <2>8
<1>7. ASSUME NEW e \in DOMAIN log, About(log'[e], u), log'[e].type = "End", ~ gap
      PROVE  /\ tx[u].status = "PREPARE" => PhaseTwoBetween(u, 0, e)'
             /\ \A i \in DOMAIN log' :
                  (i < e /\ About(log'[i], u) /\ log'[i].type = "prepare") =>
                    PhaseTwoBetween(u, i, e)'
  <2>1. log'[e] = log[e] /\ e \in Nat /\ e <= n
    BY <1>2
  <2>2. tx[u].status = "PREPARE" => PhaseTwoBetween(u, 0, e)
    BY <1>7, <2>1 DEF TimeInv
  <2>3. ASSUME NEW i \in DOMAIN log', i < e, About(log'[i], u), log'[i].type = "prepare"
        PROVE  PhaseTwoBetween(u, i, e)
    <3>1. i \in DOMAIN log /\ log'[i] = log[i]
      BY <1>2, <2>1, <2>3
    <3> QED
      BY <1>7, <2>1, <2>3, <3>1 DEF TimeInv
  <2> QED
    BY <1>5, <2>2, <2>3
<1> QED
  BY <1>3, <1>6, <1>7 DEF TimeInv, About

\* The monitor reads a line about u: where the result of End() is the first to
\* tell of an end, lines are lost.
LEMMA TimeTaken ==
  ASSUME IInv, NEW l \in Rec!Line, NEW u \in TxUid, TimeInv(u),
         1 \in DOMAIN log, l = log[1], About(l, u), LineInv(l, u), Taken(l, u),
         gap' = gap,
         \A i \in DOMAIN log' :
           i \in Nat /\ i >= 1 /\ i + 1 \in DOMAIN log /\ log'[i] = log[i + 1],
         \A i \in DOMAIN log :
           i = 1 \/ (i \in Nat /\ i > 1 /\ i - 1 \in DOMAIN log' /\ log'[i - 1] = log[i])
  PROVE  TimeInv(u)'
<1>1. CoordInv(u) /\ RowInv(u) /\ LogInv(u) /\ OrderInv(u) /\ ProgressInv(u)
  BY DEF IInv, UInv
<1>2. rows[u] \in {0, 1} /\ (rows[u] = 0 => tx[u].status = "IN_FLIGHT")
  BY <1>1 DEF RowInv
<1>3. \/ tx'[u].status = "IN_FLIGHT" /\ tx'[u].ended = FALSE
      \/ /\ rows[u] = 1 /\ tx'[u].status = NewStatus(l, tx[u].status)
         /\ tx'[u].ended = NewEnded(l, tx[u])
      \/ tx'[u].status = tx[u].status /\ tx'[u].ended = tx[u].ended
  BY <1>2 DEF Taken, Rec!NewTransaction, Rec!NoTransaction
<1>4. (l.type = "End" /\ rows[u] = 1 /\ ~ gap) => tx[u].status \notin {"IN_FLIGHT", "PREPARE"}
  <2> SUFFICES ASSUME l.type = "End", rows[u] = 1, ~ gap,
                      tx[u].status \in {"IN_FLIGHT", "PREPARE"}
               PROVE  FALSE
    OBVIOUS
  <2>1. ended[u] # "none" /\ stage[u] \in {"in_doubt", "done"}
    BY <1>1 DEF LineInv, EndOf, CoordInv
  <2>2. CASE tx[u].status = "PREPARE"
    <3>1. PhaseTwoBetween(u, 0, 1)
      BY <2>2 DEF TimeInv
    <3> QED
      BY <3>1 DEF PhaseTwoBetween
  <2>3. CASE tx[u].status = "IN_FLIGHT"
    <3>1. PICK i \in DOMAIN log :
            About(log[i], u) /\ log[i].type \in {"prepare", "onePhaseCommit", "Abort"}
      BY <1>1, <2>1, <2>3 DEF ProgressInv, Pending
    <3>2. 1 < i
      BY <3>1
    <3>3. log[i].type = "Abort"
      BY <1>1, <3>1, <3>2 DEF OrderInv, Opening, Telling
    <3>4. ended[u] = "none"
      BY <1>1, <3>1, <3>3 DEF LogInv, LineInv
    <3> QED
      BY <2>1, <3>4
  <2> QED
    BY <2>2, <2>3
<1>5. l.type = "prepare" => tx[u].status \in {"IN_FLIGHT", "PREPARE"}
  <2> SUFFICES ASSUME l.type = "prepare" PROVE tx[u].status \in {"IN_FLIGHT", "PREPARE"}
    OBVIOUS
  <2>1. Shown(u) = "none" /\ Recoverable(u)
    BY DEF LineInv, Opening
  <2>2. tx[u].status # "ONE_PHASE_COMMIT"
    BY <1>1, <2>1 DEF RowInv
  <2>3. tx[u].status \in Rec!Status
    BY DEF IInv, TypeOK, Rec!TypeOK, Rec!Transaction
  <2> QED
    BY <2>1, <2>2, <2>3 DEF Shown, Rec!Status
<1>6. l.type = "End" => Rec!EndStatus(l.result) \notin {"IN_FLIGHT", "PREPARE"}
  BY LineGroups DEF Rec!EndStatus, Rec!ActionStatus
<1>7. /\ tx'[u].ended => tx'[u].status \notin {"IN_FLIGHT", "PREPARE"}
      /\ (~ gap /\ tx'[u].status \notin {"IN_FLIGHT", "PREPARE"}) => tx'[u].ended
  <2>1. CASE tx'[u].status = "IN_FLIGHT" /\ tx'[u].ended = FALSE
    BY <2>1
  <2>2. CASE tx'[u].status = tx[u].status /\ tx'[u].ended = tx[u].ended
    BY <2>2 DEF TimeInv
  <2>3. CASE /\ rows[u] = 1 /\ tx'[u].status = NewStatus(l, tx[u].status)
             /\ tx'[u].ended = NewEnded(l, tx[u])
    <3>1. CASE l.type = "End"
      BY <1>4, <1>6, <2>3, <3>1 DEF TimeInv, NewStatus, NewEnded
    <3>2. CASE l.type = "prepare"
      BY <1>5, <2>3, <3>2 DEF TimeInv, NewStatus, NewEnded
    <3>3. CASE l.type \notin {"End", "prepare"}
      BY <2>3, <3>3 DEF TimeInv, NewStatus, NewEnded
    <3> QED
      BY <3>1, <3>2, <3>3
  <2> QED
    BY <1>3, <2>1, <2>2, <2>3
<1>8. ASSUME NEW e \in DOMAIN log', NEW i \in Nat, PhaseTwoBetween(u, i + 1, e + 1)
      PROVE  PhaseTwoBetween(u, i, e)'
  <2>1. PICK j \in DOMAIN log :
          i + 1 < j /\ j < e + 1 /\ About(log[j], u) /\ log[j].type \in PhaseTwo
    BY <1>8 DEF PhaseTwoBetween
  <2>2. j \in Nat /\ j # 1 /\ j - 1 \in DOMAIN log' /\ log'[j - 1] = log[j]
    BY <2>1
  <2>3. i < j - 1 /\ j - 1 < e /\ e \in Nat
    BY <2>1, <2>2
  <2> QED
    BY <2>1, <2>2, <2>3 DEF PhaseTwoBetween, About
<1>9. ASSUME NEW e \in DOMAIN log', About(log'[e], u), log'[e].type = "End", ~ gap
      PROVE  /\ tx'[u].status = "PREPARE" => PhaseTwoBetween(u, 0, e)'
             /\ \A i \in DOMAIN log' :
                  (i < e /\ About(log'[i], u) /\ log'[i].type = "prepare") =>
                    PhaseTwoBetween(u, i, e)'
  <2>1. e \in Nat /\ e >= 1 /\ e + 1 \in DOMAIN log /\ log'[e] = log[e + 1]
    OBVIOUS
  <2>2. /\ tx[u].status = "PREPARE" => PhaseTwoBetween(u, 0, e + 1)
        /\ \A i \in DOMAIN log :
             (i < e + 1 /\ About(log[i], u) /\ log[i].type = "prepare") =>
               PhaseTwoBetween(u, i, e + 1)
    BY <1>9, <2>1 DEF TimeInv
  <2>3. ASSUME tx'[u].status = "PREPARE" PROVE PhaseTwoBetween(u, 0, e)'
    <3>1. CASE l.type = "prepare"
      <4>1. 1 < e + 1
        BY <2>1
      <4>2. PhaseTwoBetween(u, 1, e + 1)
        BY <2>2, <3>1, <4>1
      <4> QED
        BY <1>8, <4>2
    <3>2. CASE l.type # "prepare"
      <4>1. tx[u].status = "PREPARE" /\ l.type \notin PhaseTwo
        BY <1>2, <1>3, <1>6, <2>3, <3>2 DEF NewStatus, PhaseTwo, Taken,
           Rec!NewTransaction, Rec!NoTransaction
      <4>2. PhaseTwoBetween(u, 0, e + 1)
        BY <2>2, <4>1
      <4>3. PhaseTwoBetween(u, 1, e + 1)
        <5>1. PICK j \in DOMAIN log :
                0 < j /\ j < e + 1 /\ About(log[j], u) /\ log[j].type \in PhaseTwo
          BY <4>2 DEF PhaseTwoBetween
        <5>2. j # 1 /\ 1 < j
          BY <4>1, <5>1
        <5> QED
          BY <5>1, <5>2 DEF PhaseTwoBetween
      <4> QED
        BY <1>8, <4>3
    <3> QED
      BY <3>1, <3>2
  <2>4. ASSUME NEW i \in DOMAIN log', i < e, About(log'[i], u), log'[i].type = "prepare"
        PROVE  PhaseTwoBetween(u, i, e)'
    <3>1. i \in Nat /\ i + 1 \in DOMAIN log /\ log'[i] = log[i + 1] /\ i + 1 < e + 1
      BY <2>1, <2>4
    <3>2. PhaseTwoBetween(u, i + 1, e + 1)
      BY <2>2, <2>4, <3>1
    <3> QED
      BY <1>8, <3>1, <3>2
  <2> QED
    BY <2>3, <2>4
<1> QED
  BY <1>7, <1>9 DEF TimeInv, About

\* Every step keeps the part about end times.
LEMMA TimeKeeps ==
  ASSUME IInv, [Next]_vars, NEW u \in TxUid, TimeInv(u)
  PROVE  TimeInv(u)'
<1>0. log \in Seq(Rec!Line) /\ DOMAIN log \subseteq Nat \ {0}
  BY DEF IInv, TypeOK
<1>1. ASSUME NEW v \in TxUid, Coordinator(v) \/ Recover(v)
      PROVE  TimeInv(u)'
  <2>1. PICK lines : Advances(v, lines)
    BY <1>1, BeginAdvances, EnlistAdvances, PrepareAdvances, EndingAdvances,
       SecondPhaseAdvances, FinishAdvances DEF Coordinator
  <2>2. ended' = ended \/ stage[v] \in {"committing", "aborting"}
    BY <1>1 DEF Coordinator, Recover, BeginTx, EnlistResource, Rollback, StartOnePhase,
                AnswerOnePhase, StartPrepare, StartCommit, StartAbort, AskResource,
                ResourcePrepared, ResourceFailed, Finish
  <2>3. CASE v = u
    BY <2>1, <2>2, <2>3, TimeAdvances
  <2>4. CASE v # u
    <3>1. lines \in Seq(Rec!Line) /\ log' = log \o lines
      BY <2>1 DEF Advances
    <3>2. \A k \in DOMAIN lines : ~ About(lines[k], u)
      BY <2>1, <2>4, <3>1, AboutOne DEF Advances
    <3>3. Shifted(u, 0) /\ DOMAIN log' \subseteq Nat \ {0}
      BY <1>0, <3>1, <3>2, Appended DEF Shifted
    <3>4. SameRow(u) /\ gap' = gap
      BY <2>1 DEF Advances, SameRow, dbVars
    <3> QED
      BY <3>3, <3>4, TimeOthers
  <2> QED
    BY <2>3, <2>4
<1>2. CASE ReadLine
  <2>1. PICK l \in Rec!Line, v \in TxUid :
          /\ 1 \in DOMAIN log /\ l = log[1] /\ About(l, v) /\ LineInv(l, v)
          /\ Taken(l, v)
          /\ \A w \in TxUid : SameCoordinator(w) /\ (w # v => Shifted(w, 1))
          /\ service' = service /\ gap' = gap /\ TypeOK'
          /\ \A i \in DOMAIN log' :
               i \in Nat /\ i >= 1 /\ i + 1 \in DOMAIN log /\ log'[i] = log[i + 1]
          /\ \A i \in DOMAIN log :
               i = 1 \/ (i \in Nat /\ i > 1 /\ i - 1 \in DOMAIN log' /\ log'[i - 1] = log[i])
    BY <1>2, ReadLineTakes
  <2>2. CASE v = u
    BY <2>1, <2>2, TimeTaken
  <2>3. CASE v # u
    <3>1. SameRow(u) /\ Shifted(u, 1) /\ DOMAIN log' \subseteq Nat \ {0}
      BY <2>1, <2>3 DEF Taken
    <3> QED
      BY <2>1, <3>1, TimeOthers
  <2> QED
    BY <2>2, <2>3
<1>3. CASE Redeploy \/ Crash
  BY <1>3 DEF Redeploy, Crash, TimeInv, dbVars
<1>4. CASE UNCHANGED vars
  <2>1. Shifted(u, 0) /\ SameRow(u) /\ gap' = gap /\ DOMAIN log' \subseteq Nat \ {0}
    BY <1>0, <1>4 DEF vars, dbVars, Shifted, SameRow
  <2> QED
    BY <2>1, TimeOthers
<1> QED
  BY <1>1, <1>2, <1>3, <1>4 DEF Next

\* For any transactions, resources and restarts: an end time comes with a final
\* status, and a final status with an end time unless lines were lost.
THEOREM EndTimedCorrect == Spec => []EndTimed
<1> DEFINE TInv == IInv /\ \A u \in TxUid : TimeInv(u)
<1>1. Init => TInv
  <2> SUFFICES ASSUME Init PROVE TInv
    OBVIOUS
  <2>1. ASSUME NEW u \in TxUid PROVE TimeInv(u)
    <3>1. tx[u].status = "IN_FLIGHT" /\ tx[u].ended = FALSE /\ DOMAIN log = {}
      BY DEF Init, Rec!Init, Rec!NoTransaction
    <3> QED
      BY <3>1 DEF TimeInv
  <2> QED
    BY <2>1, InitKeeps
<1>2. TInv /\ [Next]_vars => TInv'
  BY TimeKeeps, CoordinatorKeeps, ReadKeeps, RedeployKeeps, CrashKeeps, StutterKeeps DEF Next
<1>3. TInv => EndTimed
  BY DEF TimeInv, EndTimed
<1> QED
  BY <1>1, <1>2, <1>3, PTL DEF Spec

-----------------------------------------------------------------------------
(* The recorded rows are a verdict.                                         *)

ShownNow == [u \in TxUid |-> Shown(u)]
KnownNow == [u \in TxUid |-> tx[u].participants # <<>>]

\* A step of Verdict, or none, by what becomes of these.
VerdictStep ==
  \/ UNCHANGED <<decision, ended, ShownNow, KnownNow>>
  \/ /\ decision' \in [TxUid -> {"none", "commit", "abort"}]
     /\ \A u \in TxUid : decision[u] # "none" => decision'[u] = decision[u]
     /\ UNCHANGED <<ended, ShownNow, KnownNow>>
  \/ \E u \in TxUid :
       \/ /\ decision[u] # "none" /\ ended[u] = "none"
          /\ \E e \in {"commit", "abort", "heuristic"} : ended' = [ended EXCEPT ![u] = e]
          /\ UNCHANGED <<decision, ShownNow, KnownNow>>
       \/ /\ decision[u] # "none" /\ ShownNow[u] = "none"
          /\ ShownNow' = [ShownNow EXCEPT ![u] = decision[u]]
          /\ UNCHANGED <<decision, ended, KnownNow>>
       \/ /\ ended[u] # "none" /\ ShownNow' = [ShownNow EXCEPT ![u] = ended[u]]
          /\ UNCHANGED <<decision, ended, KnownNow>>
       \/ /\ KnownNow' = [KnownNow EXCEPT ![u] = TRUE]
          /\ UNCHANGED <<decision, ended, ShownNow>>
       \/ /\ decision[u] = "commit" /\ ~ KnownNow[u]
          /\ ShownNow' = [ShownNow EXCEPT ![u] = "none"]
          /\ UNCHANGED <<decision, ended, KnownNow>>

\* What becomes of the four values is a step of Verdict.
LEMMA VerdictStepIsStep ==
  ASSUME VerdictStep
  PROVE  [V!Next]_(V!vars)
<1>1. CASE UNCHANGED <<decision, ended, ShownNow, KnownNow>>
  BY <1>1 DEF V!vars, ShownNow, KnownNow
<1>2. CASE /\ decision' \in [TxUid -> {"none", "commit", "abort"}]
           /\ \A u \in TxUid : decision[u] # "none" => decision'[u] = decision[u]
           /\ UNCHANGED <<ended, ShownNow, KnownNow>>
  <2>1. {"none", "commit", "abort"} = V!Decision \cup {"none"}
    BY DEF V!Decision
  <2>2. V!Decide
    BY <1>2, <2>1 DEF V!Decide, ShownNow, KnownNow
  <2> QED
    BY <2>2 DEF V!Next
<1>3. CASE \E u \in TxUid :
             /\ decision[u] # "none" /\ ended[u] = "none"
             /\ \E e \in {"commit", "abort", "heuristic"} : ended' = [ended EXCEPT ![u] = e]
             /\ UNCHANGED <<decision, ShownNow, KnownNow>>
  BY <1>3 DEF V!Next, V!End, V!Decision, ShownNow, KnownNow
<1>4. CASE \E u \in TxUid :
             /\ decision[u] # "none" /\ ShownNow[u] = "none"
             /\ ShownNow' = [ShownNow EXCEPT ![u] = decision[u]]
             /\ UNCHANGED <<decision, ended, KnownNow>>
  BY <1>4 DEF V!Next, V!ShowDecision, ShownNow, KnownNow
<1>5. CASE \E u \in TxUid :
             /\ ended[u] # "none" /\ ShownNow' = [ShownNow EXCEPT ![u] = ended[u]]
             /\ UNCHANGED <<decision, ended, KnownNow>>
  BY <1>5 DEF V!Next, V!ShowEnd, ShownNow, KnownNow
<1>6. CASE \E u \in TxUid :
             /\ KnownNow' = [KnownNow EXCEPT ![u] = TRUE]
             /\ UNCHANGED <<decision, ended, ShownNow>>
  BY <1>6 DEF V!Next, V!Enlist, ShownNow, KnownNow
<1>7. CASE \E u \in TxUid :
             /\ decision[u] = "commit" /\ ~ KnownNow[u]
             /\ ShownNow' = [ShownNow EXCEPT ![u] = "none"]
             /\ UNCHANGED <<decision, ended, KnownNow>>
  BY <1>7 DEF V!Next, V!Forget, ShownNow, KnownNow
<1> QED
  BY <1>1, <1>2, <1>3, <1>4, <1>5, <1>6, <1>7 DEF VerdictStep

\* What the reading of a line shows.
LEMMA TakenShows ==
  ASSUME IInv, NEW l \in Rec!Line, NEW u \in TxUid, About(l, u), LineInv(l, u), Taken(l, u),
         UNCHANGED <<decision, ended>>
  PROVE  VerdictStep
<1> DEFINE old == tx[u].participants
           new == tx'[u].participants
<1>1. TypeOK /\ CoordInv(u) /\ RowInv(u)
  BY DEF IInv, UInv
<1>2. ASSUME NEW s, Shown(u)' = s PROVE ShownNow' = [ShownNow EXCEPT ![u] = s]
  <2>1. \A v \in TxUid : v # u => Shown(v)' = Shown(v)
    BY DEF Taken, SameRow, Shown
  <2> QED
    BY <1>2, <2>1 DEF ShownNow
<1>3. ASSUME Shown(u)' = Shown(u) PROVE ShownNow' = ShownNow
  <2>1. \A v \in TxUid : v # u => Shown(v)' = Shown(v)
    BY DEF Taken, SameRow, Shown
  <2> QED
    BY <1>3, <2>1 DEF ShownNow
<1>4. ASSUME new = <<>> <=> old = <<>> PROVE KnownNow' = KnownNow
  <2>1. \A v \in TxUid : (tx'[v].participants # <<>>) = (tx[v].participants # <<>>)
    BY <1>4 DEF Taken, SameRow
  <2> QED
    BY <2>1 DEF KnownNow
<1>5. CASE l.type = "Begin" /\ rows[u] = 0 /\ tx'[u] = Rec!NewTransaction
  <2>1. tx[u].status = "IN_FLIGHT" /\ old = <<>> /\ tx'[u].status = "IN_FLIGHT" /\ new = <<>>
    BY <1>1, <1>5 DEF RowInv, Rec!NewTransaction
  <2>2. Shown(u)' = Shown(u)
    BY <2>1 DEF Shown
  <2> QED
    BY <1>3, <1>4, <2>1, <2>2 DEF VerdictStep
<1>6. CASE l.type = "get_status" /\ old = <<>> /\ tx'[u] = Rec!NoTransaction
  <2>1. decision[u] = "commit"
    BY <1>6 DEF LineInv
  <2>2. tx'[u].status = "IN_FLIGHT" /\ new = <<>>
    BY <1>6 DEF Rec!NoTransaction
  <2>3. Shown(u)' = "none"
    BY <2>2 DEF Shown
  <2>4. ShownNow' = [ShownNow EXCEPT ![u] = "none"] /\ KnownNow' = KnownNow
    BY <1>2, <1>4, <1>6, <2>2, <2>3
  <2>5. ~ KnownNow[u]
    BY <1>6 DEF KnownNow
  <2> QED
    BY <2>1, <2>4, <2>5 DEF VerdictStep
<1>7. CASE /\ l.type # "Begin" /\ ParticipantsAfter(l, u)
           /\ tx'[u].status = IF rows[u] = 1 THEN NewStatus(l, tx[u].status) ELSE tx[u].status
  <2>1. CASE l.type \in EnlistingTypes
    <3>1. Shown(u)' = Shown(u)
      BY <1>7, <2>1 DEF Shown, NewStatus, EnlistingTypes
    <3>2. CASE new = old
      BY <1>3, <1>4, <3>1, <3>2 DEF VerdictStep
    <3>3. CASE new = Append(old, NewParticipant(l))
      <4>1. old \in Seq(Rec!Participant)
        BY <1>1 DEF TypeOK, Rec!TypeOK, Rec!Transaction
      <4>2. new # <<>>
        <5>1. ASSUME NEW s \in Seq(Rec!Participant), NEW x PROVE Append(s, x) # <<>>
          OBVIOUS
        <5> QED
          BY <3>3, <4>1, <5>1
      <4>3. KnownNow' = [KnownNow EXCEPT ![u] = TRUE]
        <5>1. \A v \in TxUid : v # u =>
                (tx'[v].participants # <<>>) = (tx[v].participants # <<>>)
          BY DEF Taken, SameRow
        <5>2. (tx'[u].participants # <<>>) = TRUE
          BY <4>2
        <5> QED
          BY <5>1, <5>2 DEF KnownNow
      <4>4. ShownNow' = ShownNow
        BY <1>3, <3>1
      <4> QED
        BY <4>3, <4>4 DEF VerdictStep
    <3> QED
      BY <1>7, <2>1, <3>2, <3>3 DEF ParticipantsAfter
  <2>2. CASE l.type \notin EnlistingTypes
    <3>1. new = <<>> <=> old = <<>>
      <4>1. CASE new = old
        BY <4>1
      <4>2. CASE \E i \in DOMAIN old : \E p : new = [old EXCEPT ![i] = p]
        <5>1. PICK i \in DOMAIN old : \E p : new = [old EXCEPT ![i] = p]
          BY <4>2
        <5>2. i \in DOMAIN new
          BY <5>1
        <5>3. DOMAIN <<>> = {}
          OBVIOUS
        <5> QED
          BY <5>1, <5>2, <5>3
      <4> QED
        BY <1>7, <2>2, <4>1, <4>2 DEF ParticipantsAfter
    <3>2. KnownNow' = KnownNow
      BY <1>4, <3>1
    <3>3. CASE Shown(u)' = Shown(u)
      BY <1>3, <3>2, <3>3 DEF VerdictStep
    <3>4. CASE Shown(u)' # Shown(u)
      <4>1. rows[u] = 1 /\ tx'[u].status = NewStatus(l, tx[u].status)
            /\ NewStatus(l, tx[u].status) # tx[u].status
        BY <1>7, <3>4 DEF Shown
      <4>2. CASE l.type = "End"
        <5>1. l.result \in Rec!ActionStatus
          BY <4>2, LineGroups
        <5>2. Shown(u)' = EndOf(l.result) /\ EndOf(l.result) # "none"
          BY <4>1, <4>2, <5>1 DEF Shown, NewStatus, EndOf, Rec!EndStatus, Rec!ActionStatus
        <5>3. ended[u] = EndOf(l.result)
          BY <4>2 DEF LineInv
        <5> QED
          BY <1>2, <3>2, <5>2, <5>3 DEF VerdictStep
      <4>3. CASE l.type # "End"
        <5>1. Shown(u) = "none" /\ decision[u] # "none" /\ Shown(u)' = decision[u]
          <6>1. CASE Opening(l)
            BY <3>4, <4>1, <6>1 DEF LineInv, NewStatus, Shown, Opening
          <6>2. CASE l.type = "Abort"
            BY <1>1, <3>4, <4>1, <6>2 DEF LineInv, NewStatus, Shown, RowInv
          <6>3. CASE l.type \in PhaseTwo
            <7>1. tx[u].status = "PREPARE"
              BY <4>1, <6>3 DEF NewStatus, PhaseTwo
            <7> QED
              BY <4>1, <6>3, <7>1 DEF LineInv, NewStatus, Shown, PhaseTwo
          <6> QED
            BY <4>1, <4>3, <6>1, <6>2, <6>3 DEF NewStatus, PhaseTwo, Opening
        <5>2. ShownNow[u] = "none"
          BY <5>1 DEF ShownNow
        <5> QED
          BY <1>2, <3>2, <5>1, <5>2 DEF VerdictStep
      <4> QED
        BY <4>2, <4>3
    <3> QED
      BY <3>3, <3>4
  <2> QED
    BY <2>1, <2>2
<1> QED
  BY <1>5, <1>6, <1>7 DEF Taken

\* Every step does one of these to the four values.
LEMMA NextIsVerdictStep ==
  ASSUME IInv, [Next]_vars
  PROVE  VerdictStep
<1>1. ASSUME UNCHANGED dbVars PROVE UNCHANGED <<ShownNow, KnownNow>>
  BY <1>1 DEF dbVars, ShownNow, KnownNow, Shown
<1>2. ASSUME NEW u \in TxUid, Coordinator(u) \/ Recover(u), ~ Finish(u)
      PROVE  VerdictStep
  <2>1. TypeOK' /\ \E lines : Advances(u, lines)
    BY <1>2, BeginAdvances, EnlistAdvances, PrepareAdvances, EndingAdvances,
       SecondPhaseAdvances DEF Coordinator
  <2>2. ended' = ended
    BY <1>2 DEF Coordinator, Recover, BeginTx, EnlistResource, Rollback, StartOnePhase,
                AnswerOnePhase, StartPrepare, StartCommit, StartAbort, AskResource,
                ResourcePrepared, ResourceFailed
  <2>3. \A v \in TxUid : decision[v] # "none" => decision'[v] = decision[v]
    BY <2>1 DEF Advances, SameCoordinator
  <2>4. decision' \in [TxUid -> {"none", "commit", "abort"}]
    BY <2>1 DEF TypeOK
  <2>5. UNCHANGED dbVars
    BY <2>1 DEF Advances
  <2> QED
    BY <1>1, <2>2, <2>3, <2>4, <2>5 DEF VerdictStep
<1>3. ASSUME NEW u \in TxUid, Finish(u)
      PROVE  VerdictStep
  <2>1. CoordInv(u) /\ TypeOK
    BY DEF IInv, UInv
  <2>2. stage[u] \in {"committing", "aborting"} /\ decision' = decision /\ UNCHANGED dbVars
    BY <1>3 DEF Finish, At
  <2>3. decision[u] \in {"commit", "abort"} /\ ended[u] = "none"
    BY <2>1, <2>2 DEF CoordInv, TypeOK
  <2>4. \E e \in {"commit", "abort", "heuristic"} : ended' = [ended EXCEPT ![u] = e]
    BY <1>3, <2>3 DEF Finish
  <2> QED
    BY <1>1, <2>2, <2>3, <2>4 DEF VerdictStep
<1>4. CASE ReadLine
  BY <1>4, ReadLineTakes, TakenShows DEF ReadLine, serverVars
<1>5. CASE Redeploy
  BY <1>1, <1>5 DEF Redeploy, serverVars, VerdictStep
<1>6. CASE Crash
  <2>1. TypeOK'
    BY <1>6, CrashKeeps DEF IInv
  <2>2. \A u \in TxUid : decision[u] # "none" => decision'[u] = decision[u]
    BY <1>6, CrashEffect
  <2>3. UNCHANGED <<dbVars, ended>>
    BY <1>6 DEF Crash
  <2> QED
    BY <1>1, <2>1, <2>2, <2>3 DEF VerdictStep, TypeOK
<1>7. CASE UNCHANGED vars
  BY <1>1, <1>7 DEF vars, serverVars, VerdictStep
<1> QED
  BY <1>2, <1>3, <1>4, <1>5, <1>6, <1>7 DEF Next

\* The record lags but never contradicts the coordinator, and takes no verdict
\* back: every behaviour of a manager and its monitor is one of Verdict.
THEOREM VerdictImplemented == Spec => VerdictSpec
<1>1. Init => V!Init
  <2> SUFFICES ASSUME Init PROVE V!Init
    OBVIOUS
  <2>1. \A u \in TxUid : tx[u].status = "IN_FLIGHT" /\ tx[u].participants = <<>>
    BY DEF Init, Rec!Init, Rec!NoTransaction
  <2>2. \A u \in TxUid : (tx[u].participants # <<>>) = FALSE
    BY <2>1
  <2>3. \A u \in TxUid : Shown(u) = "none"
    BY <2>1 DEF Shown
  <2>4. [u \in TxUid |-> tx[u].participants # <<>>] = [u \in TxUid |-> FALSE]
    BY <2>2
  <2>5. [u \in TxUid |-> Shown(u)] = [u \in TxUid |-> "none"]
    BY <2>3
  <2> QED
    BY <2>4, <2>5 DEF Init, V!Init
<1>2. IInv /\ [Next]_vars => [V!Next]_(V!vars)
  BY NextIsVerdictStep, VerdictStepIsStep
<1> QED
  BY <1>1, <1>2, Invariance, PTL DEF Spec, VerdictSpec, V!Spec

=============================================================================
