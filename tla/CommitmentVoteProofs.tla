------------------------ MODULE CommitmentVoteProofs -------------------------
(***************************************************************************)
(* Proofs about the votes that Commitment records: nobody is blamed who did *)
(* not refuse (NoFalseBlame), once the monitor has caught up every vote     *)
(* shows how far its resource is (VotesExplained), and the records          *)
(* implement Ballot (BallotSpec).                                           *)
(***************************************************************************)
EXTENDS CommitmentProofs

-----------------------------------------------------------------------------
(* The invariant.                                                           *)

\* The line is about one resource: it enlists it, or it is its vote.
ForResource(l, u, rm) ==
  IF "txuid" \in DOMAIN l
  THEN "rm" \in DOMAIN l /\ l.txuid = u /\ l.rm = rm
  ELSE l.rmuid = <<u, rm>>

Enlists(l, u, rm) == l.type \in EnlistingTypes /\ ForResource(l, u, rm)

VoteFor(l) ==
  \/ l.type = "topLevelPrepare"
  \/ l.type = "doResult" /\ l.outcome \in {"PREPARE_OK", "PREPARE_READONLY"}
VoteAgainst(l) ==
  \/ l.type = "XAException"
  \/ l.type = "doResult" /\ l.outcome = "PREPARE_NOTOK"

Votes(l, u, rm) == (VoteFor(l) \/ VoteAgainst(l)) /\ ForResource(l, u, rm)
VoteOf(l) == IF VoteFor(l) THEN "COMMIT" ELSE "ABORT"

\* What follows is of a log s, a transaction service, how far the resource is
\* (b), the participants ps of its transaction and whether something was lost.

\* The vote that shows how far a resource is.
Expected(srv, b) ==
  CASE b \in {"out", "in"} -> "UNKNOWN"
    [] b = "asked" -> IF srv = "JTA" THEN "COMMIT" ELSE "UNKNOWN"
    [] b = "ok" -> "COMMIT"
    [] b = "failed" -> "ABORT"

VotesAfter(s, i, u, rm) == \E j \in DOMAIN s : i < j /\ Votes(s[j], u, rm)
EnlistsAfter(s, i, u, rm) == \E j \in DOMAIN s : i < j /\ Enlists(s[j], u, rm)

\* Unread votes: the last one is what is expected, and one against is true.
VoteLines(s, srv, b, u, rm) ==
  \A i \in DOMAIN s : Votes(s[i], u, rm) =>
    /\ b \in {"asked", "ok", "failed"}
    /\ VoteOf(s[i]) = "ABORT" => b = "failed"
    /\ VoteOf(s[i]) = Expected(srv, b) \/ VotesAfter(s, i, u, rm)
    /\ s[i].type \in {"topLevelPrepare", "XAException"} <=> srv = "JTA"
    /\ ~ EnlistsAfter(s, i, u, rm)

\* An unread enlistment: votes follow it, and it is the only one.
EnlistLines(s, srv, b, ps, u, rm) ==
  \A i \in DOMAIN s : Enlists(s[i], u, rm) =>
    /\ b # "out"
    /\ s[i].type = "XAResourceRecord" <=> srv = "JTA"
    /\ Expected(srv, b) = "UNKNOWN" \/ VotesAfter(s, i, u, rm)
    /\ ~ EnlistsAfter(s, i, u, rm)
    /\ \A k \in DOMAIN ps : ps[k].rm # rm

\* A participant: there is one of a resource, what it is blamed for is true,
\* and as long as nothing is lost, what makes its vote wrong is unread.
ParticipantTrue(s, srv, b, ps, lost, u, rm) ==
  \A k \in DOMAIN ps : ps[k].rm = rm =>
    /\ b # "out"
    /\ ps[k].rmuid = IF srv = "JTA" THEN NoRmUid ELSE <<u, rm>>
    /\ (ps[k].vote = "ABORT" \/ (ps[k].xaException /\ srv = "JTA")) => b = "failed"
    /\ \A m \in DOMAIN ps : ps[m].rm = rm => m = k
    /\ lost \/ ps[k].vote = Expected(srv, b) \/ VotesAfter(s, 0, u, rm)

VoteInv(s, srv, b, ps, lost, u, rm) ==
  /\ VoteLines(s, srv, b, u, rm)
  /\ EnlistLines(s, srv, b, ps, u, rm)
  /\ ParticipantTrue(s, srv, b, ps, lost, u, rm)

RmInv(u, rm) == VoteInv(log, service, branch[u][rm], tx[u].participants, gap, u, rm)

VInv == \A u \in TxUid, rm \in RM : RmInv(u, rm)

\* The invariant of the next state, from what the variables have become.
LEMMA RmInvNext ==
  ASSUME NEW u, NEW rm, NEW s, s = log', NEW srv, srv = service', NEW b, b = branch'[u][rm],
         NEW ps, ps = tx'[u].participants, NEW lost, lost = gap',
         VoteInv(s, srv, b, ps, lost, u, rm)
  PROVE  RmInv(u, rm)'
BY DEF RmInv

-----------------------------------------------------------------------------
(* What the steps do to the log and to the participants.                    *)

Matters(l, u, rm) == Votes(l, u, rm) \/ Enlists(l, u, rm)

\* No participant of the resource is new, and none shows another vote.
Alike(qs, ps, srv, rm) ==
  \A k \in DOMAIN qs : qs[k].rm = rm =>
    /\ k \in DOMAIN ps /\ ps[k].rm = rm
    /\ qs[k].rmuid = ps[k].rmuid /\ qs[k].vote = ps[k].vote
    /\ srv = "JTA" => qs[k].xaException = ps[k].xaException

\* Lines that do not matter to the resource come and go.
LEMMA ShiftKeeps ==
  ASSUME NEW u, NEW rm, NEW srv, NEW b, NEW lost, NEW s, NEW t, NEW ps, NEW qs,
         NEW d \in {0, 1}, DOMAIN s \subseteq Nat \ {0}, DOMAIN t \subseteq Nat \ {0},
         \A i \in DOMAIN t : Matters(t[i], u, rm) => i + d \in DOMAIN s /\ t[i] = s[i + d],
         \A i \in DOMAIN s : Matters(s[i], u, rm) => i - d \in DOMAIN t /\ t[i - d] = s[i],
         Alike(qs, ps, srv, rm), VoteInv(s, srv, b, ps, lost, u, rm)
  PROVE  VoteInv(t, srv, b, qs, lost, u, rm)
<1>1. ASSUME NEW i \in DOMAIN t, VotesAfter(s, i + d, u, rm)
      PROVE  VotesAfter(t, i, u, rm)
  BY <1>1 DEF VotesAfter, Matters
<1>2. VotesAfter(s, 0, u, rm) => VotesAfter(t, 0, u, rm)
  BY DEF VotesAfter, Matters
<1>3. ASSUME NEW i \in DOMAIN t, EnlistsAfter(t, i, u, rm)
      PROVE  EnlistsAfter(s, i + d, u, rm)
  BY <1>3 DEF EnlistsAfter, Matters
<1>4. VoteLines(t, srv, b, u, rm)
  BY <1>1, <1>3 DEF VoteInv, VoteLines, Matters
<1>5. EnlistLines(t, srv, b, qs, u, rm)
  BY <1>1, <1>3 DEF VoteInv, EnlistLines, Matters, Alike
<1>6. ParticipantTrue(t, srv, b, qs, lost, u, rm)
  BY <1>2 DEF VoteInv, ParticipantTrue, Alike
<1> QED
  BY <1>4, <1>5, <1>6 DEF VoteInv

\* The log s has become t when the resource went from b to c.
Answered(s, t, srv, b, c, u, rm) ==
  /\ DOMAIN s \subseteq Nat \ {0} /\ DOMAIN t \subseteq Nat \ {0}
  /\ b \in {"in", "asked"} /\ c \in {"asked", "ok", "failed"}
  /\ \A i \in DOMAIN s : i \in DOMAIN t /\ t[i] = s[i]
  /\ \A i \in DOMAIN t, j \in DOMAIN s : i \notin DOMAIN s => j < i
  /\ \A i \in DOMAIN t : i \notin DOMAIN s =>
       /\ ~ Enlists(t[i], u, rm)
       /\ Votes(t[i], u, rm) =>
            /\ VoteOf(t[i]) = Expected(srv, c)
            /\ t[i].type \in {"topLevelPrepare", "XAException"} <=> srv = "JTA"
  /\ \/ Expected(srv, c) = Expected(srv, b)
     \/ \E i \in DOMAIN t : i \notin DOMAIN s /\ Votes(t[i], u, rm)

\* A resource is asked or answers; the last line may be its vote.
LEMMA VoteWritten ==
  ASSUME NEW u, NEW rm, NEW srv, NEW lost, NEW ps, NEW s, NEW t, NEW b, NEW c,
         Answered(s, t, srv, b, c, u, rm), VoteInv(s, srv, b, ps, lost, u, rm)
  PROVE  VoteInv(t, srv, c, ps, lost, u, rm)
<1>a. /\ DOMAIN s \subseteq Nat \ {0} /\ DOMAIN t \subseteq Nat \ {0}
      /\ b \in {"in", "asked"} /\ c \in {"asked", "ok", "failed"}
      /\ \A i \in DOMAIN s : i \in DOMAIN t /\ t[i] = s[i]
      /\ \A i \in DOMAIN t, j \in DOMAIN s : i \notin DOMAIN s => j < i
  BY DEF Answered
<1>b. \A i \in DOMAIN t : i \notin DOMAIN s =>
        /\ ~ Enlists(t[i], u, rm)
        /\ Votes(t[i], u, rm) =>
             /\ VoteOf(t[i]) = Expected(srv, c)
             /\ t[i].type \in {"topLevelPrepare", "XAException"} <=> srv = "JTA"
  BY DEF Answered
<1>c. \/ Expected(srv, c) = Expected(srv, b)
      \/ \E i \in DOMAIN t : i \notin DOMAIN s /\ Votes(t[i], u, rm)
  BY DEF Answered
<1>0. Expected(srv, c) = "ABORT" => c = "failed"
  BY <1>a DEF Expected
<1>1. ASSUME NEW i \in DOMAIN s, VotesAfter(s, i, u, rm)
      PROVE  VotesAfter(t, i, u, rm)
  BY <1>a, <1>1 DEF VotesAfter
<1>2. VotesAfter(s, 0, u, rm) => VotesAfter(t, 0, u, rm)
  BY <1>a DEF VotesAfter
<1>3. ASSUME Expected(srv, c) # Expected(srv, b)
      PROVE  VotesAfter(t, 0, u, rm) /\ \A i \in DOMAIN s : VotesAfter(t, i, u, rm)
  BY <1>a, <1>c, <1>3 DEF VotesAfter
<1>4. ASSUME NEW i \in DOMAIN t, EnlistsAfter(t, i, u, rm)
      PROVE  i \in DOMAIN s /\ EnlistsAfter(s, i, u, rm)
  BY <1>a, <1>b, <1>4 DEF EnlistsAfter
<1>5. VoteLines(t, srv, c, u, rm)
  <2> SUFFICES ASSUME NEW i \in DOMAIN t, Votes(t[i], u, rm)
               PROVE  /\ c \in {"asked", "ok", "failed"}
                      /\ VoteOf(t[i]) = "ABORT" => c = "failed"
                      /\ VoteOf(t[i]) = Expected(srv, c) \/ VotesAfter(t, i, u, rm)
                      /\ t[i].type \in {"topLevelPrepare", "XAException"} <=> srv = "JTA"
                      /\ ~ EnlistsAfter(t, i, u, rm)
    BY DEF VoteLines
  <2>1. CASE i \in DOMAIN s
    BY <1>a, <1>1, <1>3, <1>4, <2>1 DEF VoteInv, VoteLines
  <2>2. CASE i \notin DOMAIN s
    BY <1>0, <1>a, <1>b, <1>4, <2>2
  <2> QED
    BY <2>1, <2>2
<1>6. EnlistLines(t, srv, c, ps, u, rm)
  BY <1>a, <1>b, <1>1, <1>3, <1>4 DEF VoteInv, EnlistLines
<1>7. ParticipantTrue(t, srv, c, ps, lost, u, rm)
  BY <1>a, <1>2, <1>3 DEF VoteInv, ParticipantTrue
<1> QED
  BY <1>5, <1>6, <1>7 DEF VoteInv

\* A resource is enlisted, and its line is the first one that matters.
LEMMA EnlistWritten ==
  ASSUME NEW u, NEW rm, NEW srv, NEW lost, NEW ps, NEW s, NEW t,
         DOMAIN s \subseteq Nat \ {0}, DOMAIN t \subseteq Nat \ {0},
         \A i \in DOMAIN s : i \in DOMAIN t /\ t[i] = s[i],
         \A i, j \in DOMAIN t : i \notin DOMAIN s /\ j \notin DOMAIN s => i = j,
         \A i \in DOMAIN t : i \notin DOMAIN s =>
           /\ ~ Votes(t[i], u, rm)
           /\ t[i].type = "XAResourceRecord" <=> srv = "JTA",
         VoteInv(s, srv, "out", ps, lost, u, rm)
  PROVE  VoteInv(t, srv, "in", ps, lost, u, rm)
<1>1. \A i \in DOMAIN s : ~ Votes(s[i], u, rm) /\ ~ Enlists(s[i], u, rm)
  BY DEF VoteInv, VoteLines, EnlistLines
<1>2. \A k \in DOMAIN ps : ps[k].rm # rm
  BY DEF VoteInv, ParticipantTrue
<1>3. \A i \in DOMAIN t : ~ Votes(t[i], u, rm)
  BY <1>1
<1>4. \A i, j \in DOMAIN t : Enlists(t[i], u, rm) /\ Enlists(t[j], u, rm) => i = j
  BY <1>1
<1>5. \A i \in DOMAIN t : Enlists(t[i], u, rm) => ~ EnlistsAfter(t, i, u, rm)
  BY <1>4 DEF EnlistsAfter
<1>6. EnlistLines(t, srv, "in", ps, u, rm)
  BY <1>1, <1>2, <1>5 DEF EnlistLines, Expected
<1> QED
  BY <1>2, <1>3, <1>6 DEF VoteInv, VoteLines, ParticipantTrue

\* A vote is read: the participant shows it.
LEMMA VoteRead ==
  ASSUME NEW u, NEW rm, NEW srv, NEW b, NEW lost, NEW ps, NEW qs, NEW s, NEW t,
         DOMAIN s \subseteq Nat \ {0}, DOMAIN t \subseteq Nat \ {0}, 1 \in DOMAIN s,
         \A i \in DOMAIN t : i + 1 \in DOMAIN s /\ t[i] = s[i + 1],
         \A i \in DOMAIN s : i = 1 \/ (i - 1 \in DOMAIN t /\ t[i - 1] = s[i]),
         Votes(s[1], u, rm),
         \A k \in DOMAIN qs : qs[k].rm = rm =>
           /\ k \in DOMAIN ps /\ ps[k].rm = rm
           /\ qs[k].rmuid = ps[k].rmuid /\ qs[k].vote = VoteOf(s[1])
           /\ (qs[k].xaException /\ srv = "JTA") =>
                ps[k].xaException \/ VoteOf(s[1]) = "ABORT",
         VoteInv(s, srv, b, ps, lost, u, rm)
  PROVE  VoteInv(t, srv, b, qs, lost, u, rm)
<1>1. ASSUME NEW i \in DOMAIN t, VotesAfter(s, i + 1, u, rm)
      PROVE  VotesAfter(t, i, u, rm)
  BY <1>1 DEF VotesAfter
<1>2. ASSUME NEW i \in DOMAIN t, EnlistsAfter(t, i, u, rm)
      PROVE  EnlistsAfter(s, i + 1, u, rm)
  BY <1>2 DEF EnlistsAfter
<1>3. \A i \in DOMAIN t : ~ Enlists(t[i], u, rm)
  BY DEF VoteInv, VoteLines, EnlistsAfter
<1>4. VotesAfter(s, 1, u, rm) => VotesAfter(t, 0, u, rm)
  BY DEF VotesAfter
<1>5. VoteLines(t, srv, b, u, rm)
  BY <1>1, <1>2 DEF VoteInv, VoteLines
<1>6. EnlistLines(t, srv, b, qs, u, rm)
  BY <1>3 DEF EnlistLines
<1>7. ParticipantTrue(t, srv, b, qs, lost, u, rm)
  <2>1. /\ b \in {"asked", "ok", "failed"} /\ (VoteOf(s[1]) = "ABORT" => b = "failed")
        /\ VoteOf(s[1]) = Expected(srv, b) \/ VotesAfter(s, 1, u, rm)
    BY DEF VoteInv, VoteLines
  <2> QED
    BY <1>4, <2>1 DEF VoteInv, ParticipantTrue
<1> QED
  BY <1>5, <1>6, <1>7 DEF VoteInv

\* An enlistment is read: its participant, if there is one now, has no vote.
LEMMA EnlistRead ==
  ASSUME NEW u, NEW rm, NEW srv, NEW b, NEW lost, NEW ps, NEW qs, NEW s, NEW t,
         DOMAIN s \subseteq Nat \ {0}, DOMAIN t \subseteq Nat \ {0}, 1 \in DOMAIN s,
         \A i \in DOMAIN t : i + 1 \in DOMAIN s /\ t[i] = s[i + 1],
         \A i \in DOMAIN s : i = 1 \/ (i - 1 \in DOMAIN t /\ t[i - 1] = s[i]),
         Enlists(s[1], u, rm),
         \A k, m \in DOMAIN qs : qs[k].rm = rm /\ qs[m].rm = rm => k = m,
         \A k \in DOMAIN qs : qs[k].rm = rm =>
           /\ qs[k].rmuid = IF srv = "JTA" THEN NoRmUid ELSE <<u, rm>>
           /\ qs[k].vote = "UNKNOWN" /\ ~ qs[k].xaException,
         VoteInv(s, srv, b, ps, lost, u, rm)
  PROVE  VoteInv(t, srv, b, qs, lost, u, rm)
<1>1. ASSUME NEW i \in DOMAIN t, VotesAfter(s, i + 1, u, rm)
      PROVE  VotesAfter(t, i, u, rm)
  BY <1>1 DEF VotesAfter
<1>2. ASSUME NEW i \in DOMAIN t, EnlistsAfter(t, i, u, rm)
      PROVE  EnlistsAfter(s, i + 1, u, rm)
  BY <1>2 DEF EnlistsAfter
<1>3. \A i \in DOMAIN t : ~ Enlists(t[i], u, rm)
  BY DEF VoteInv, EnlistLines, EnlistsAfter
<1>4. VotesAfter(s, 1, u, rm) => VotesAfter(t, 0, u, rm)
  BY DEF VotesAfter
<1>5. VoteLines(t, srv, b, u, rm)
  BY <1>1, <1>2 DEF VoteInv, VoteLines
<1>6. EnlistLines(t, srv, b, qs, u, rm)
  BY <1>3 DEF EnlistLines
<1>7. ParticipantTrue(t, srv, b, qs, lost, u, rm)
  BY <1>4 DEF VoteInv, EnlistLines, ParticipantTrue
<1> QED
  BY <1>5, <1>6, <1>7 DEF VoteInv

\* The lines that matter to a resource are about its transaction.
LEMMA MattersAbout ==
  ASSUME NEW l \in Rec!Line, NEW u \in TxUid, NEW rm \in RM
  PROVE  /\ Matters(l, u, rm) => About(l, u)
         /\ Quiet(l) => ~ Matters(l, u, rm)
         /\ l.type \in {"topLevelPrepare", "XAException"} \cup EnlistingTypes =>
              "rm" \in DOMAIN l /\ "txuid" \in DOMAIN l
<1>1. l.type \in {"topLevelPrepare", "XAException"} \cup EnlistingTypes =>
        "rm" \in DOMAIN l /\ "txuid" \in DOMAIN l
  BY DEF Rec!Line, Rec!BasicActionLine, EnlistingTypes
<1>2. Matters(l, u, rm) => About(l, u)
  BY DEF Matters, Votes, Enlists, ForResource, About
<1>3. Quiet(l) => ~ Matters(l, u, rm)
  BY DEF Quiet, Matters, Votes, Enlists, VoteFor, VoteAgainst
<1> QED
  BY <1>1, <1>2, <1>3

-----------------------------------------------------------------------------
(* The monitor reads a line.                                                *)

\* A resource of the transaction that the line is about.
LEMMA TakenVotes ==
  ASSUME IInv, VInv, NEW l \in Rec!Line, NEW u \in TxUid, NEW rm \in RM,
         1 \in DOMAIN log, l = log[1], About(l, u), LineInv(l, u), Taken(l, u),
         SameCoordinator(u), service' = service, gap' = gap,
         \A i \in DOMAIN log' :
           i \in Nat /\ i >= 1 /\ i + 1 \in DOMAIN log /\ log'[i] = log[i + 1],
         \A i \in DOMAIN log :
           i = 1 \/ (i \in Nat /\ i > 1 /\ i - 1 \in DOMAIN log' /\ log'[i - 1] = log[i])
  PROVE  RmInv(u, rm)'
<1>1. PICK old, new, s, t, b :
        /\ old = tx[u].participants /\ new = tx'[u].participants /\ s = log /\ t = log'
        /\ b = branch[u][rm]
  OBVIOUS
<1>2. old \in Seq(Rec!Participant) /\ \A k \in DOMAIN old : old[k] \in Rec!Participant
  <2>1. old \in Seq(Rec!Participant)
    BY <1>1 DEF IInv, TypeOK, Rec!TypeOK, Rec!Transaction
  <2> QED
    BY <2>1
<1>3. /\ DOMAIN s \subseteq Nat \ {0} /\ DOMAIN t \subseteq Nat \ {0} /\ 1 \in DOMAIN s
      /\ s[1] = l
      /\ \A i \in DOMAIN t : i + 1 \in DOMAIN s /\ t[i] = s[i + 1]
      /\ \A i \in DOMAIN s : i = 1 \/ (i - 1 \in DOMAIN t /\ t[i - 1] = s[i])
  BY <1>1 DEF IInv, TypeOK
<1>4. \A r \in RM : VoteInv(s, service, branch[u][r], old, gap, u, r)
  BY <1>1 DEF VInv, RmInv
<1>5. ASSUME VoteInv(t, service, b, new, gap, u, rm)
      PROVE  RmInv(u, rm)'
  BY <1>1, <1>5, RmInvNext DEF SameCoordinator
<1>6. /\ l.type \in VotingTypes =>
           \/ new = old /\ ~ \E i \in DOMAIN old : Concerned(l, u) = {i}
           \/ \E i \in Concerned(l, u) :
                i \in DOMAIN old /\ new = [old EXCEPT ![i] = Voted(l, old[i])]
      /\ l.type \in EnlistingTypes => new = old \/ new = Append(old, NewParticipant(l))
      /\ l.type \notin VotingTypes \cup EnlistingTypes => new = old \/ new = <<>>
  <2>1. CASE ParticipantsAfter(l, u)
    BY <1>1, <2>1 DEF ParticipantsAfter
  <2>2. CASE /\ l.type \in {"Begin", "get_status"}
             /\ tx'[u] = Rec!NewTransaction \/ tx'[u] = Rec!NoTransaction
    <3>1. new = <<>>
      BY <1>1, <2>2 DEF Rec!NewTransaction, Rec!NoTransaction
    <3> QED
      BY <2>2, <3>1 DEF VotingTypes, EnlistingTypes
  <2> QED
    BY <2>1, <2>2 DEF Taken
<1> HIDE DEF Taken
<1>7. ASSUME NEW i \in DOMAIN old
      PROVE  LET p == old[i]
             IN  /\ p.rm \in RM
                 /\ p.rmuid = IF service = "JTA" THEN NoRmUid ELSE <<u, p.rm>>
                 /\ \A j \in DOMAIN old : old[j].rm = p.rm => j = i
                 /\ Voted(l, p).rm = p.rm /\ Voted(l, p).rmuid = p.rmuid
  <2>1. old[i] \in Rec!Participant
    BY <1>2
  <2>2. old[i].rm \in RM
    BY <2>1 DEF Rec!Participant
  <2>3. ParticipantTrue(s, service, branch[u][old[i].rm], old, gap, u, old[i].rm)
    BY <1>4, <2>2 DEF VoteInv
  <2>4. Voted(l, old[i]).rm = old[i].rm /\ Voted(l, old[i]).rmuid = old[i].rmuid
    BY <2>1 DEF Voted, Rec!Participant
  <2> QED
    BY <2>2, <2>3, <2>4 DEF ParticipantTrue
<1>8. /\ l.type \in ResourceTypes =>
           "txuid" \notin DOMAIN l /\ l.rmuid \in TxUid \X RM /\ l.rmuid # NoRmUid
             /\ Concerned(l, u) = {i \in DOMAIN old : old[i].rmuid = l.rmuid}
      /\ l.type \notin ResourceTypes =>
           "txuid" \in DOMAIN l /\ l.txuid = u
             /\ Concerned(l, u) = {i \in DOMAIN old : old[i].rm = l.rm}
  BY <1>1, LineGroups, AboutOne, CommitmentAssumption
     DEF Concerned, Rec!ByName, Rec!ByRmUid
<1>9. CASE Votes(l, u, rm)
  <2>1. /\ l.type \in VotingTypes
        /\ l.type \in {"topLevelPrepare", "XAException"} <=> service = "JTA"
        /\ l.type \in {"topLevelPrepare", "XAException"} \/ l.type = "doResult"
    BY <1>3, <1>4, <1>9 DEF VoteInv, VoteLines, Votes, VoteFor, VoteAgainst, VotingTypes
  <2>2. /\ l.type = "doResult" => l.rmuid = <<u, rm>>
        /\ l.type # "doResult" => l.rm = rm
    BY <1>8, <1>9, <2>1 DEF Votes, ForResource, ResourceTypes
  <2>3. ASSUME NEW k \in DOMAIN old, old[k].rm = rm
        PROVE  Concerned(l, u) = {k}
    <3>1. CASE l.type = "doResult"
      <4>1. \A i \in DOMAIN old : old[i].rmuid = <<u, rm>> => i = k
        BY <1>7, <2>1, <2>3, <3>1
      <4>2. old[k].rmuid = <<u, rm>>
        BY <1>7, <2>1, <2>3, <3>1
      <4> QED
        BY <1>8, <2>2, <3>1, <4>1, <4>2 DEF ResourceTypes
    <3>2. CASE l.type # "doResult"
      BY <1>7, <1>8, <2>1, <2>2, <2>3, <3>2 DEF ResourceTypes
    <3> QED
      BY <3>1, <3>2
  <2>4. \A p \in Rec!Participant :
          /\ Voted(l, p).vote = VoteOf(l)
          /\ Voted(l, p).xaException => p.xaException \/ VoteOf(l) = "ABORT"
    BY <1>9, <2>1 DEF Votes, VoteFor, VoteAgainst, VoteOf, Voted, Rec!Participant
  <2>5. ASSUME NEW k \in DOMAIN new, new[k].rm = rm
        PROVE  /\ k \in DOMAIN old /\ old[k].rm = rm
               /\ new[k].rmuid = old[k].rmuid /\ new[k].vote = VoteOf(l)
               /\ new[k].xaException => old[k].xaException \/ VoteOf(l) = "ABORT"
    <3>1. CASE new = old /\ ~ \E i \in DOMAIN old : Concerned(l, u) = {i}
      BY <2>3, <2>5, <3>1
    <3>2. CASE \E i \in Concerned(l, u) :
                 i \in DOMAIN old /\ new = [old EXCEPT ![i] = Voted(l, old[i])]
      <4>1. PICK i \in Concerned(l, u) :
              i \in DOMAIN old /\ new = [old EXCEPT ![i] = Voted(l, old[i])]
        BY <3>2
      <4>2. k \in DOMAIN old /\ old[k].rm = rm
        BY <1>7, <2>5, <4>1
      <4>3. k = i
        BY <2>3, <4>1, <4>2
      <4>4. new[k] = Voted(l, old[k]) /\ old[k] \in Rec!Participant
        BY <1>2, <4>1, <4>2, <4>3
      <4> QED
        BY <1>7, <2>4, <4>2, <4>4
    <3> QED
      BY <1>6, <2>1, <3>1, <3>2
  <2>6. VoteInv(t, service, b, new, gap, u, rm)
    BY <1>1, <1>3, <1>4, <1>9, <2>5, VoteRead
  <2> QED
    BY <1>5, <2>6
<1>10. CASE Enlists(l, u, rm)
  <2>1. /\ l.type = "XAResourceRecord" <=> service = "JTA"
        /\ \A k \in DOMAIN old : old[k].rm # rm
    BY <1>3, <1>4, <1>10 DEF VoteInv, EnlistLines
  <2>2. l.type \in EnlistingTypes /\ l.rm = rm
        /\ (l.type = "enlistResource" => l.rmuid = <<u, rm>>)
    BY <1>8, <1>10 DEF Enlists, ForResource, LineInv, EnlistingTypes, ResourceTypes
  <2>3. /\ NewParticipant(l).rm = rm /\ NewParticipant(l).vote = "UNKNOWN"
        /\ NewParticipant(l).rmuid = IF service = "JTA" THEN NoRmUid ELSE <<u, rm>>
        /\ NewParticipant(l).xaException = FALSE
    BY <2>1, <2>2 DEF NewParticipant, EnlistingTypes
  <2>4. \A k \in DOMAIN new : new[k].rm = rm => k = Len(old) + 1 /\ new[k] = NewParticipant(l)
    <3>1. CASE new = old
      BY <2>1, <3>1
    <3>2. CASE new = Append(old, NewParticipant(l))
      <4>1. \A k \in DOMAIN new :
              \/ k \in DOMAIN old /\ new[k] = old[k]
              \/ k = Len(old) + 1 /\ new[k] = NewParticipant(l)
        BY <1>2, <3>2
      <4> QED
        BY <2>1, <4>1
    <3> QED
      BY <1>6, <2>2, <3>1, <3>2
  <2>5. VoteInv(t, service, b, new, gap, u, rm)
    <3>1. /\ \A k, m \in DOMAIN new : new[k].rm = rm /\ new[m].rm = rm => k = m
          /\ \A k \in DOMAIN new : new[k].rm = rm =>
               /\ new[k].rmuid = IF service = "JTA" THEN NoRmUid ELSE <<u, rm>>
               /\ new[k].vote = "UNKNOWN" /\ ~ new[k].xaException
      BY <2>3, <2>4
    <3> QED
      BY <1>1, <1>3, <1>4, <1>10, <3>1, EnlistRead
  <2> QED
    BY <1>5, <2>5
<1>11. CASE ~ Matters(l, u, rm)
  <2>1. Alike(new, old, service, rm)
    <3>1. CASE new = old \/ new = <<>>
      BY <3>1 DEF Alike
    <3>2. CASE l.type \in EnlistingTypes /\ new = Append(old, NewParticipant(l))
      <4>1. NewParticipant(l).rm # rm
        <5>1. l.rm # rm
          BY <1>8, <1>11, <3>2, MattersAbout
             DEF Matters, Enlists, ForResource, EnlistingTypes, ResourceTypes
        <5> QED
          BY <5>1 DEF NewParticipant
      <4>2. \A k \in DOMAIN new :
              \/ k \in DOMAIN old /\ new[k] = old[k]
              \/ new[k] = NewParticipant(l)
        BY <1>2, <3>2
      <4> QED
        BY <4>1, <4>2 DEF Alike
    <3>3. CASE /\ l.type \in VotingTypes
               /\ \E i \in Concerned(l, u) :
                    i \in DOMAIN old /\ new = [old EXCEPT ![i] = Voted(l, old[i])]
      <4>1. PICK i \in Concerned(l, u) :
              i \in DOMAIN old /\ new = [old EXCEPT ![i] = Voted(l, old[i])]
        BY <3>3
      <4>2. ASSUME old[i].rm = rm
            PROVE  /\ Voted(l, old[i]).vote = old[i].vote
                   /\ service = "JTA" => Voted(l, old[i]).xaException = old[i].xaException
        <5>1. CASE l.type \in {"topLevelPrepare", "XAException"}
          <6>1. l.rm = rm /\ l.txuid = u
            BY <1>8, <4>1, <4>2, <5>1 DEF ResourceTypes
          <6>2. Votes(l, u, rm)
            BY <5>1, <6>1, MattersAbout DEF Votes, VoteFor, VoteAgainst, ForResource
          <6> QED
            BY <1>11, <6>2 DEF Matters
        <5>2. CASE l.type \in {"doResult", "JTSException"}
          <6>1. l.rmuid = old[i].rmuid /\ l.rmuid # NoRmUid /\ "txuid" \notin DOMAIN l
            BY <1>8, <4>1, <5>2 DEF ResourceTypes
          <6>2. service # "JTA" /\ l.rmuid = <<u, rm>>
            BY <1>7, <4>1, <4>2, <6>1
          <6>3. ~ VoteFor(l) /\ ~ VoteAgainst(l)
            BY <1>11, <6>1, <6>2 DEF Matters, Votes, ForResource
          <6>4. old[i] \in Rec!Participant
            BY <1>2, <4>1
          <6>5. Voted(l, old[i]).vote = old[i].vote
            BY <5>2, <6>3, <6>4 DEF Voted, VoteFor, VoteAgainst, Rec!Participant
          <6> QED
            BY <6>2, <6>5
        <5> QED
          BY <3>3, <5>1, <5>2 DEF VotingTypes
      <4>3. ASSUME NEW k \in DOMAIN new, new[k].rm = rm
            PROVE  /\ k \in DOMAIN old /\ old[k].rm = rm
                   /\ new[k].rmuid = old[k].rmuid /\ new[k].vote = old[k].vote
                   /\ service = "JTA" => new[k].xaException = old[k].xaException
        <5>1. CASE k = i
          BY <1>7, <4>1, <4>2, <4>3, <5>1
        <5>2. CASE k # i
          BY <4>1, <4>3, <5>2
        <5> QED
          BY <5>1, <5>2
      <4> QED
        BY <4>3 DEF Alike
    <3> QED
      BY <1>6, <3>1, <3>2, <3>3
  <2>2. VoteInv(t, service, b, new, gap, u, rm)
    <3>1. \A i \in DOMAIN s : Matters(s[i], u, rm) => i - 1 \in DOMAIN t /\ t[i - 1] = s[i]
      BY <1>3, <1>11
    <3> QED
      BY <1>1, <1>3, <1>4, <2>1, <3>1, ShiftKeeps
  <2> QED
    BY <1>5, <2>2
<1> QED
  BY <1>9, <1>10, <1>11 DEF Matters

\* A transaction that the step is not about.
LEMMA OtherVotes ==
  ASSUME VInv, NEW u \in TxUid, NEW rm \in RM, SameCoordinator(u), SameRow(u),
         service' = service, gap' = gap, NEW d \in {0, 1}, Shifted(u, d),
         log \in Seq(Rec!Line), log' \in Seq(Rec!Line)
  PROVE  RmInv(u, rm)'
<1>1. PICK s, t, ps, b : s = log /\ t = log' /\ ps = tx[u].participants /\ b = branch[u][rm]
  OBVIOUS
<1>2. VoteInv(s, service, b, ps, gap, u, rm)
  BY <1>1 DEF VInv, RmInv
<1>3. DOMAIN s \subseteq Nat \ {0} /\ DOMAIN t \subseteq Nat \ {0}
      /\ (\A i \in DOMAIN s : s[i] \in Rec!Line) /\ \A i \in DOMAIN t : t[i] \in Rec!Line
  BY <1>1
<1>4. /\ \A i \in DOMAIN t : Matters(t[i], u, rm) => i + d \in DOMAIN s /\ t[i] = s[i + d]
      /\ \A i \in DOMAIN s : Matters(s[i], u, rm) => i - d \in DOMAIN t /\ t[i - d] = s[i]
  BY <1>1, <1>3, MattersAbout DEF Shifted
<1>5. Alike(ps, ps, service, rm)
  BY DEF Alike
<1>6. VoteInv(t, service, b, ps, gap, u, rm)
  BY <1>2, <1>3, <1>4, <1>5, ShiftKeeps
<1> QED
  BY <1>1, <1>6, RmInvNext DEF SameCoordinator, SameRow

\* The monitor reads a line: the votes of every resource are as true as before.
LEMMA ReadVotes ==
  ASSUME IInv, VInv, ReadLine
  PROVE  VInv'
<1>1. PICK l \in Rec!Line, u \in TxUid :
        /\ 1 \in DOMAIN log /\ l = log[1] /\ About(l, u) /\ LineInv(l, u)
        /\ Taken(l, u)
        /\ \A v \in TxUid : SameCoordinator(v) /\ (v # u => Shifted(v, 1))
        /\ service' = service /\ gap' = gap /\ TypeOK'
        /\ \A i \in DOMAIN log' :
             i \in Nat /\ i >= 1 /\ i + 1 \in DOMAIN log /\ log'[i] = log[i + 1]
        /\ \A i \in DOMAIN log :
             i = 1 \/ (i \in Nat /\ i > 1 /\ i - 1 \in DOMAIN log' /\ log'[i - 1] = log[i])
  BY ReadLineTakes
<1>2. \A rm \in RM : RmInv(u, rm)'
  BY <1>1, TakenVotes
<1>3. ASSUME NEW v \in TxUid, v # u, NEW rm \in RM PROVE RmInv(v, rm)'
  BY <1>1, <1>3, OtherVotes DEF IInv, Taken, TypeOK
<1> QED
  BY <1>2, <1>3 DEF VInv

-----------------------------------------------------------------------------
(* A coordinator writes.                                                    *)

\* A resource that the new lines are not about.
LEMMA OtherResource ==
  ASSUME IInv, VInv, NEW lines \in Seq(Rec!Line), log' = log \o lines,
         UNCHANGED <<service, dbVars, gap>>,
         NEW u \in TxUid, NEW rm \in RM, branch'[u][rm] = branch[u][rm],
         \A k \in DOMAIN lines : ~ Matters(lines[k], u, rm)
  PROVE  RmInv(u, rm)'
<1>0. log \in Seq(Rec!Line)
  BY DEF IInv, TypeOK
<1>1. PICK s, t, ps, b : s = log /\ t = log' /\ ps = tx[u].participants /\ b = branch[u][rm]
  OBVIOUS
<1>2. VoteInv(s, service, b, ps, gap, u, rm)
  BY <1>1 DEF VInv, RmInv
<1>3. /\ DOMAIN s \subseteq Nat \ {0} /\ DOMAIN t \subseteq Nat \ {0}
      /\ \A i \in DOMAIN s : i \in DOMAIN t /\ t[i] = s[i]
      /\ \A i \in DOMAIN t : i \in DOMAIN s \/ \E k \in DOMAIN lines : t[i] = lines[k]
  BY <1>0, <1>1, Appended
<1>4. /\ \A i \in DOMAIN t : Matters(t[i], u, rm) => i + 0 \in DOMAIN s /\ t[i] = s[i + 0]
      /\ \A i \in DOMAIN s : Matters(s[i], u, rm) => i - 0 \in DOMAIN t /\ t[i - 0] = s[i]
  BY <1>3
<1>5. Alike(ps, ps, service, rm)
  BY DEF Alike
<1>6. VoteInv(t, service, b, ps, gap, u, rm)
  BY <1>2, <1>3, <1>4, <1>5, ShiftKeeps
<1> QED
  BY <1>1, <1>6, RmInvNext DEF dbVars

\* A transaction that begins, starts to end, or ends.
LEMMA QuietVotes ==
  ASSUME IInv, VInv, NEW u \in TxUid,
         \/ BeginTx(u) \/ Rollback(u) \/ StartOnePhase(u) \/ AnswerOnePhase(u)
         \/ StartPrepare(u) \/ StartCommit(u) \/ StartAbort(u) \/ Finish(u) \/ Recover(u)
  PROVE  VInv'
<1>1. TypeOK
  BY DEF IInv
<1>2. stage'[u] # stage[u] \/ stage[u] \notin {"active", "preparing"}
  BY <1>1 DEF TypeOK, BeginTx, Rollback, StartOnePhase, AnswerOnePhase, StartPrepare,
              StartCommit, StartAbort, Finish, Recover, At, Goto
<1>3. PICK lines : Advances(u, lines)
  BY BeginAdvances, EndingAdvances, SecondPhaseAdvances, FinishAdvances
<1>4. /\ lines \in Seq(Rec!Line) /\ log' = log \o lines /\ UNCHANGED <<service, dbVars, gap>>
      /\ branch' = branch /\ \A k \in DOMAIN lines : Quiet(lines[k]) /\ lines[k] \in Rec!Line
  BY <1>2, <1>3 DEF Advances
<1> QED
  BY <1>4, MattersAbout, OtherResource DEF VInv

\* The lines about a resource are about no other.
LEMMA ResourceLines ==
  ASSUME NEW u \in TxUid, NEW rm \in RM,
         NEW l \in {LRm(type, u, rm) : type \in {"XAResourceRecord", "topLevelPrepare",
                                                 "XAException"}}
                   \cup {TopLevel(u, rm, "Prepare"), Threw(u, rm)}
                   \cup {Outcome(u, rm, o) : o \in {"PREPARE_OK", "PREPARE_NOTOK"}}
                   \cup {[type |-> "enlistResource", txuid |-> u, rm |-> rm,
                          rmuid |-> <<u, rm>>]}
  PROVE  /\ l \in Rec!Line
         /\ \A v \in TxUid, r \in RM : ForResource(l, v, r) <=> v = u /\ r = rm
<1>1. l \in Rec!Line
  BY LinesTyped
<1>2. \A v \in TxUid, r \in RM : ForResource(l, v, r) <=> v = u /\ r = rm
  BY DEF ForResource, LRm, TopLevel, Threw, Outcome
<1> QED
  BY <1>1, <1>2

\* A resource is enlisted, asked, or answers.
LEMMA ResourceVotes ==
  ASSUME IInv, VInv, NEW u \in TxUid, NEW rm \in RM,
         \/ EnlistResource(u, rm) \/ AskResource(u, rm)
         \/ ResourcePrepared(u, rm) \/ ResourceFailed(u, rm)
  PROVE  VInv'
<1>1. TypeOK /\ log \in Seq(Rec!Line) /\ service \in {"JTA", "JTS"}
  BY CommitmentAssumption DEF IInv, TypeOK
<1>2. PICK s, t, ps, b : s = log /\ t = log' /\ ps = tx[u].participants /\ b = branch[u][rm]
  OBVIOUS
<1>3. VoteInv(s, service, b, ps, gap, u, rm)
  BY <1>2 DEF VInv, RmInv
<1>4. UNCHANGED <<service, dbVars, gap>>
  BY DEF EnlistResource, AskResource, ResourcePrepared, ResourceFailed, At
<1>5. PICK c \in {"in", "asked", "ok", "failed"} : \E lines \in Seq(Rec!Line) :
        /\ log' = log \o lines /\ branch' = [branch EXCEPT ![u][rm] = c]
        /\ \A k \in DOMAIN lines : \A v \in TxUid, r \in RM :
             ForResource(lines[k], v, r) => v = u /\ r = rm
        /\ VoteInv(t, service, c, ps, gap, u, rm)
  <2>1. CASE EnlistResource(u, rm)
    <3>0. PICK x, y : /\ x = LRm("XAResourceRecord", u, rm)
                      /\ y = [type |-> "enlistResource", txuid |-> u, rm |-> rm,
                               rmuid |-> <<u, rm>>]
      OBVIOUS
    <3>1. PICK l : l = Wording(x, y)
      OBVIOUS
    <3>2. l \in Rec!Line /\ \A v \in TxUid, r \in RM : ForResource(l, v, r) <=> v = u /\ r = rm
      <4>1. x \in Rec!Line /\ \A v \in TxUid, r \in RM : ForResource(x, v, r) <=> v = u /\ r = rm
        BY <3>0, ResourceLines
      <4>2. y \in Rec!Line /\ \A v \in TxUid, r \in RM : ForResource(y, v, r) <=> v = u /\ r = rm
        BY <3>0, ResourceLines
      <4> QED
        BY <3>1, <4>1, <4>2 DEF Wording
    <3>3. /\ l.type \in EnlistingTypes
          /\ l.type = "XAResourceRecord" <=> service = "JTA"
      BY <3>0, <3>1 DEF Wording, LRm, EnlistingTypes
    <3>4. b = "out" /\ branch' = [branch EXCEPT ![u][rm] = "in"] /\ log' = log \o <<l>>
      BY <1>2, <2>1, <3>0, <3>1 DEF EnlistResource, Write
    <3>5. <<l>> \in Seq(Rec!Line) /\ DOMAIN <<l>> = {1} /\ <<l>>[1] = l
      BY <3>2
    <3>6. /\ DOMAIN s \subseteq Nat \ {0} /\ DOMAIN t \subseteq Nat \ {0}
          /\ \A i \in DOMAIN s : i \in DOMAIN t /\ t[i] = s[i]
          /\ \A i \in DOMAIN t : i \notin DOMAIN s => i = Len(log) + 1 /\ t[i] = l
      BY <1>1, <1>2, <3>4, <3>5, Appended
    <3>7. ~ Votes(l, u, rm)
      BY <3>3 DEF Votes, VoteFor, VoteAgainst, EnlistingTypes
    <3>8. VoteInv(t, service, "in", ps, gap, u, rm)
      BY <1>3, <3>3, <3>4, <3>6, <3>7, EnlistWritten
    <3> QED
      BY <3>2, <3>4, <3>5, <3>8
  <2>2. ASSUME NEW lines \in Seq(Rec!Line), log' = log \o lines, b \in {"in", "asked"},
               NEW c \in {"asked", "ok", "failed"}, branch' = [branch EXCEPT ![u][rm] = c],
               \A k \in DOMAIN lines :
                 /\ \A v \in TxUid, r \in RM : ForResource(lines[k], v, r) <=> v = u /\ r = rm
                 /\ lines[k].type \notin EnlistingTypes
                 /\ VoteFor(lines[k]) \/ VoteAgainst(lines[k]) =>
                      /\ VoteOf(lines[k]) = Expected(service, c)
                      /\ lines[k].type \in {"topLevelPrepare", "XAException"} <=>
                           service = "JTA",
               \/ Expected(service, c) = Expected(service, b)
               \/ \E k \in DOMAIN lines : VoteFor(lines[k]) \/ VoteAgainst(lines[k])
        PROVE  \E d \in {"in", "asked", "ok", "failed"}, x \in Seq(Rec!Line) :
                 /\ log' = log \o x /\ branch' = [branch EXCEPT ![u][rm] = d]
                 /\ \A k \in DOMAIN x : \A v \in TxUid, r \in RM :
                      ForResource(x[k], v, r) => v = u /\ r = rm
                 /\ VoteInv(t, service, d, ps, gap, u, rm)
    <3>1. /\ DOMAIN s \subseteq Nat \ {0} /\ DOMAIN t \subseteq Nat \ {0}
          /\ \A i \in DOMAIN s : i \in DOMAIN t /\ t[i] = s[i]
          /\ \A i \in DOMAIN t : i \notin DOMAIN s =>
               \E k \in DOMAIN lines : i = Len(log) + k /\ t[i] = lines[k]
          /\ \A k \in DOMAIN lines : Len(log) + k \in DOMAIN t /\ t[Len(log) + k] = lines[k]
      <4>1. log' = log \o lines
        BY <2>2
      <4>2. /\ \A i \in DOMAIN log : i \in DOMAIN log' /\ log'[i] = log[i]
            /\ \A i \in DOMAIN log' : i \notin DOMAIN log =>
                 \E k \in DOMAIN lines : i = Len(log) + k /\ log'[i] = lines[k]
            /\ \A k \in DOMAIN lines :
                 Len(log) + k \in DOMAIN log' /\ log'[Len(log) + k] = lines[k]
            /\ log' \in Seq(Rec!Line)
        BY <1>1, <4>1, Appended
      <4>3. DOMAIN log \subseteq Nat \ {0} /\ DOMAIN log' \subseteq Nat \ {0}
        BY <1>1, <4>2
      <4> QED
        BY <1>2, <4>2, <4>3
    <3>0. /\ DOMAIN s = 1 .. Len(log) /\ Len(log) \in Nat /\ DOMAIN lines \subseteq Nat \ {0}
          /\ DOMAIN t = 1 .. Len(log')
      BY <1>1, <1>2, <2>2
    <3>a. \A k \in DOMAIN lines : Len(log) + k \notin DOMAIN s
      BY <3>0
    <3>b. \A i \in DOMAIN t, j \in DOMAIN s : i \notin DOMAIN s => j < i
      BY <3>0, <3>1
    <3>2. \A i \in DOMAIN t : i \notin DOMAIN s =>
            /\ ~ Enlists(t[i], u, rm)
            /\ Votes(t[i], u, rm) =>
                 /\ VoteOf(t[i]) = Expected(service, c)
                 /\ t[i].type \in {"topLevelPrepare", "XAException"} <=> service = "JTA"
      BY <2>2, <3>1 DEF Enlists, Votes
    <3>3. \/ Expected(service, c) = Expected(service, b)
          \/ \E i \in DOMAIN t : i \notin DOMAIN s /\ Votes(t[i], u, rm)
      BY <2>2, <3>1, <3>a DEF Votes
    <3>4. VoteInv(t, service, c, ps, gap, u, rm)
      <4>1. b \in {"in", "asked"} /\ c \in {"asked", "ok", "failed"}
        BY <2>2
      <4>2. /\ DOMAIN s \subseteq Nat \ {0} /\ DOMAIN t \subseteq Nat \ {0}
            /\ \A i \in DOMAIN s : i \in DOMAIN t /\ t[i] = s[i]
        BY <3>1
      <4>3. PICK srv, lost : srv = service /\ lost = gap
        OBVIOUS
      <4>4. VoteInv(s, srv, b, ps, lost, u, rm)
        BY <1>3, <4>3
      <4>5. Answered(s, t, srv, b, c, u, rm)
        BY <3>b, <3>2, <3>3, <4>1, <4>2, <4>3 DEF Answered
      <4>6. VoteInv(t, srv, c, ps, lost, u, rm)
        BY <4>4, <4>5, VoteWritten
      <4> QED
        BY <4>3, <4>6
    <3> QED
      BY <2>2, <3>4
  <2>3. CASE AskResource(u, rm)
    <3>1. PICK l : l = Wording(LRm("topLevelPrepare", u, rm), TopLevel(u, rm, "Prepare"))
      OBVIOUS
    <3>2. l \in Rec!Line /\ \A v \in TxUid, r \in RM : ForResource(l, v, r) <=> v = u /\ r = rm
      BY <3>1, ResourceLines DEF Wording
    <3>3. /\ l.type = "topLevelPrepare" <=> service = "JTA"
          /\ l.type \in {"topLevelPrepare", "topLevel"}
      BY <3>1 DEF Wording, LRm, TopLevel
    <3>4. b = "in" /\ branch' = [branch EXCEPT ![u][rm] = "asked"] /\ log' = log \o <<l>>
      BY <1>2, <2>3, <3>1 DEF AskResource, Write
    <3>5. <<l>> \in Seq(Rec!Line) /\ 1 \in DOMAIN <<l>> /\ \A k \in DOMAIN <<l>> : <<l>>[k] = l
      BY <3>2
    <3>6. /\ l.type \notin EnlistingTypes /\ ~ VoteAgainst(l)
          /\ VoteFor(l) <=> service = "JTA"
          /\ VoteFor(l) => VoteOf(l) = Expected(service, "asked")
          /\ service # "JTA" => Expected(service, "asked") = Expected(service, "in")
      BY <3>3 DEF EnlistingTypes, VoteFor, VoteAgainst, VoteOf, Expected
    <3> QED
      BY <2>2, <3>2, <3>3, <3>4, <3>5, <3>6
  <2>4. CASE ResourcePrepared(u, rm)
    <3>1. PICK l : l = Outcome(u, rm, "PREPARE_OK")
      OBVIOUS
    <3>2. l \in Rec!Line /\ \A v \in TxUid, r \in RM : ForResource(l, v, r) <=> v = u /\ r = rm
      BY <3>1, ResourceLines
    <3>3. l.type = "doResult" /\ l.outcome = "PREPARE_OK"
      BY <3>1 DEF Outcome
    <3>4. /\ b = "asked" /\ branch' = [branch EXCEPT ![u][rm] = "ok"]
          /\ log' = log \o (IF service = "JTA" THEN <<>> ELSE <<l>>)
      BY <1>2, <2>4, <3>1 DEF ResourcePrepared, Write, Wording
    <3>5. <<l>> \in Seq(Rec!Line) /\ 1 \in DOMAIN <<l>> /\ (\A k \in DOMAIN <<l>> : <<l>>[k] = l)
          /\ <<>> \in Seq(Rec!Line) /\ DOMAIN <<>> = {}
      BY <3>2
    <3>6. /\ l.type \notin EnlistingTypes /\ VoteFor(l) /\ VoteOf(l) = Expected(service, "ok")
          /\ service = "JTA" => Expected(service, "ok") = Expected(service, "asked")
      BY <3>3 DEF EnlistingTypes, VoteFor, VoteAgainst, VoteOf, Expected
    <3>7. CASE service = "JTA"
      BY <2>2, <3>4, <3>5, <3>6, <3>7
    <3>8. CASE service # "JTA"
      BY <2>2, <3>2, <3>3, <3>4, <3>5, <3>6, <3>8
    <3> QED
      BY <3>7, <3>8
  <2>5. CASE ResourceFailed(u, rm)
    <3>1. PICK x, y, z : /\ x = LRm("XAException", u, rm) /\ y = Threw(u, rm)
                         /\ z = Outcome(u, rm, "PREPARE_NOTOK")
      OBVIOUS
    <3>2. \A l \in {x, y, z} :
            l \in Rec!Line /\ \A v \in TxUid, r \in RM : ForResource(l, v, r) <=> v = u /\ r = rm
      BY <3>1, ResourceLines
    <3>3. /\ x.type = "XAException" /\ y.type = "JTSException"
          /\ z.type = "doResult" /\ z.outcome = "PREPARE_NOTOK"
      BY <3>1 DEF Outcome, Threw, LRm
    <3>4. /\ b = "asked" /\ branch' = [branch EXCEPT ![u][rm] = "failed"]
          /\ log' = log \o (IF service = "JTA" THEN <<x>> ELSE <<y, z>>)
      BY <1>2, <2>5, <3>1 DEF ResourceFailed, Write, Wording
    <3>5. /\ <<x>> \in Seq(Rec!Line) /\ 1 \in DOMAIN <<x>> /\ (\A k \in DOMAIN <<x>> : <<x>>[k] = x)
          /\ <<y, z>> \in Seq(Rec!Line) /\ 2 \in DOMAIN <<y, z>> /\ <<y, z>>[2] = z
          /\ \A k \in DOMAIN <<y, z>> : <<y, z>>[k] \in {y, z}
      BY <3>2
    <3>6. /\ \A l \in {x, y, z} : l.type \notin EnlistingTypes
          /\ VoteAgainst(x) /\ ~ VoteFor(x) /\ VoteAgainst(z) /\ ~ VoteFor(z)
          /\ ~ VoteFor(y) /\ ~ VoteAgainst(y)
          /\ VoteOf(x) = Expected(service, "failed") /\ VoteOf(z) = Expected(service, "failed")
      BY <3>3 DEF EnlistingTypes, VoteFor, VoteAgainst, VoteOf, Expected
    <3>7. CASE service = "JTA"
      BY <2>2, <3>2, <3>3, <3>4, <3>5, <3>6, <3>7
    <3>8. CASE service # "JTA"
      <4> DEFINE two == <<y, z>>
      <4>1. two \in Seq(Rec!Line) /\ log' = log \o two /\ 2 \in DOMAIN two /\ two[2] = z
            /\ \A k \in DOMAIN two : two[k] \in {y, z}
        BY <3>4, <3>5, <3>8
      <4> HIDE DEF two
      <4> QED
        BY <2>2, <3>2, <3>3, <3>4, <3>6, <3>8, <4>1
    <3> QED
      BY <3>7, <3>8
  <2> QED
    BY <2>1, <2>3, <2>4, <2>5
<1>6. c \in Branch
  BY DEF Branch
<1>7. /\ \A v \in TxUid : v # u => branch'[v] = branch[v]
      /\ branch'[u][rm] = c /\ \A r \in RM : r # rm => branch'[u][r] = branch[u][r]
  <2>1. branch' = [branch EXCEPT ![u][rm] = c]
    BY <1>5
  <2> QED
    BY <1>1, <1>6, <2>1, BranchTyped
<1>8. RmInv(u, rm)'
  BY <1>2, <1>4, <1>5, <1>7, RmInvNext DEF dbVars
<1>9. ASSUME NEW v \in TxUid, NEW r \in RM, v # u \/ r # rm
      PROVE  RmInv(v, r)'
  <2>1. PICK lines \in Seq(Rec!Line) :
          /\ log' = log \o lines
          /\ \A k \in DOMAIN lines : ~ ForResource(lines[k], v, r)
    BY <1>5, <1>9
  <2>2. \A k \in DOMAIN lines : ~ Matters(lines[k], v, r)
    BY <2>1 DEF Matters, Votes, Enlists
  <2>3. branch'[v][r] = branch[v][r]
    BY <1>7, <1>9
  <2> QED
    BY <1>4, <2>1, <2>2, <2>3, OtherResource
<1> QED
  BY <1>8, <1>9 DEF VInv

-----------------------------------------------------------------------------
(* The invariant holds.                                                     *)

\* There is no participant and no line at the start.
LEMMA InitVotes ==
  ASSUME Init
  PROVE  VInv
<1>1. DOMAIN log = {}
  BY DEF Init
<1>2. \A u \in TxUid : DOMAIN tx[u].participants = {}
  BY DEF Init, Rec!Init, Rec!NoTransaction
<1> QED
  BY <1>1, <1>2 DEF VInv, RmInv, VoteInv, VoteLines, EnlistLines, ParticipantTrue

\* Unread lines are lost: what is recorded may stay behind, but is not wrong.
LEMMA LostVotes ==
  ASSUME VInv, UNCHANGED <<service, branch, dbVars>>, log' = <<>>, gap' = TRUE
  PROVE  VInv'
<1> SUFFICES ASSUME NEW u \in TxUid, NEW rm \in RM
             PROVE  RmInv(u, rm)'
  BY DEF VInv
<1>1. PICK s, ps, b, srv, lost :
        /\ s = log' /\ ps = tx[u].participants /\ b = branch[u][rm] /\ srv = service
        /\ lost = gap
  OBVIOUS
<1>2. VoteInv(log, srv, b, ps, lost, u, rm)
  BY <1>1 DEF VInv, RmInv
<1>3. DOMAIN s = {}
  BY <1>1
<1>4. ParticipantTrue(s, srv, b, ps, TRUE, u, rm)
  BY <1>2 DEF VoteInv, ParticipantTrue
<1>5. VoteInv(s, srv, b, ps, TRUE, u, rm)
  BY <1>3, <1>4 DEF VoteInv, VoteLines, EnlistLines
<1>6. /\ s = log' /\ srv = service' /\ b = branch'[u][rm] /\ ps = tx'[u].participants
      /\ TRUE = gap'
  BY <1>1 DEF dbVars
<1> QED
  BY <1>5, <1>6, RmInvNext

\* A step that changes nothing.
LEMMA StutterVotes ==
  ASSUME IInv, VInv, UNCHANGED vars
  PROVE  VInv'
<1>1. log \in Seq(Rec!Line) /\ log' = log /\ UNCHANGED <<service, gap>>
  BY DEF IInv, TypeOK, vars, serverVars
<1>2. \A u \in TxUid : SameCoordinator(u) /\ SameRow(u)
  BY DEF vars, dbVars, serverVars, SameCoordinator, SameRow
<1>3. \A u \in TxUid : Shifted(u, 0)
  BY <1>1 DEF Shifted
<1> QED
  BY <1>1, <1>2, <1>3, OtherVotes DEF VInv

\* The steps of a coordinator and of the recovery manager.
LEMMA CoordinatorVotes ==
  ASSUME IInv, VInv, NEW u \in TxUid, Coordinator(u) \/ Recover(u)
  PROVE  VInv'
<1>1. CASE \E rm \in RM : \/ EnlistResource(u, rm) \/ AskResource(u, rm)
                          \/ ResourcePrepared(u, rm) \/ ResourceFailed(u, rm)
  BY <1>1, ResourceVotes
<1>2. CASE \/ BeginTx(u) \/ Rollback(u) \/ StartOnePhase(u) \/ AnswerOnePhase(u)
           \/ StartPrepare(u) \/ StartCommit(u) \/ StartAbort(u) \/ Finish(u) \/ Recover(u)
  BY <1>2, QuietVotes
<1> QED
  BY <1>1, <1>2 DEF Coordinator

\* The invariant of the votes holds with that of the transactions.
LEMMA VoteInvariance == Spec => [](IInv /\ VInv)
<1>1. Init => VInv
  BY InitVotes
<1>2. ASSUME IInv, VInv, [Next]_vars
      PROVE  VInv'
  <2>1. ASSUME NEW u \in TxUid, Coordinator(u) \/ Recover(u) PROVE VInv'
    BY <1>2, <2>1, CoordinatorVotes
  <2>2. CASE ReadLine
    BY <1>2, <2>2, ReadVotes
  <2>3. CASE Redeploy
    BY <1>2, <2>3, LostVotes DEF Redeploy, serverVars
  <2>4. CASE Crash
    BY <1>2, <2>4, LostVotes DEF Crash
  <2>5. CASE UNCHANGED vars
    BY <1>2, <2>5, StutterVotes
  <2> QED
    BY <1>2, <2>1, <2>2, <2>3, <2>4, <2>5 DEF Next
<1>3. IInv /\ VInv /\ [Next]_vars => VInv'
  BY <1>2
<1> QED
  BY <1>1, <1>3, Invariance, PTL DEF Spec

-----------------------------------------------------------------------------
(* What follows.                                                            *)

\* A participant is of a resource, and what is known of the resource holds of it.
LEMMA ParticipantOfResource ==
  ASSUME IInv, VInv, NEW u \in TxUid, NEW p \in Participants(u)
  PROVE  /\ p.rm \in RM /\ branch[u][p.rm] # "out"
         /\ p.vote = "ABORT" \/ (p.xaException /\ service = "JTA") =>
              branch[u][p.rm] = "failed"
         /\ \/ gap
            \/ p.vote = Expected(service, branch[u][p.rm])
            \/ VotesAfter(log, 0, u, p.rm)
<1>1. PICK k \in DOMAIN tx[u].participants : p = tx[u].participants[k]
  BY DEF Participants
<1>2. tx[u].participants \in Seq(Rec!Participant)
  BY DEF IInv, TypeOK, Rec!TypeOK, Rec!Transaction
<1>3. p.rm \in RM
  <2>1. p \in Rec!Participant
    BY <1>1, <1>2
  <2> QED
    BY <2>1 DEF Rec!Participant
<1>4. ParticipantTrue(log, service, branch[u][p.rm], tx[u].participants, gap, u, p.rm)
  BY <1>3 DEF VInv, RmInv, VoteInv
<1> QED
  BY <1>1, <1>3, <1>4 DEF ParticipantTrue

\* Whatever is lost of the log, no resource is blamed that did not refuse, and
\* none of a transaction that was to be committed.
THEOREM NoFalseBlameCorrect == Spec => []NoFalseBlame
<1>1. ASSUME IInv, VInv
      PROVE  NoFalseBlame
  <2> SUFFICES ASSUME NEW u \in TxUid, NEW p \in Participants(u),
                      p.vote = "ABORT" \/ (p.xaException /\ service = "JTA")
               PROVE  branch[u][p.rm] = "failed" /\ decision[u] # "commit"
    BY DEF NoFalseBlame
  <2>1. p.rm \in RM /\ branch[u][p.rm] = "failed"
    BY <1>1, ParticipantOfResource
  <2>2. CoordInv(u)
    BY <1>1 DEF IInv, UInv
  <2> QED
    BY <2>1, <2>2 DEF CoordInv
<1>2. IInv /\ VInv => NoFalseBlame
  BY <1>1
<1> QED
  BY <1>2, VoteInvariance, PTL

\* A monitor that has read all there is about a transaction, and lost nothing,
\* shows of every participant how far its resource is.
THEOREM VotesExplainedCorrect == Spec => []VotesExplained
<1>1. ASSUME IInv, VInv
      PROVE  VotesExplained
  <2> SUFFICES ASSUME NEW u \in TxUid, CaughtUp(u), NEW p \in Participants(u)
               PROVE  p.vote = CASE branch[u][p.rm] = "in" -> "UNKNOWN"
                                 [] branch[u][p.rm] = "asked" -> Wording("COMMIT", "UNKNOWN")
                                 [] branch[u][p.rm] = "ok" -> "COMMIT"
                                 [] branch[u][p.rm] = "failed" -> "ABORT"
    BY DEF VotesExplained
  <2>1. ~ gap /\ \A i \in DOMAIN log : ~ About(log[i], u)
    BY DEF CaughtUp
  <2>2. /\ p.rm \in RM /\ branch[u][p.rm] # "out"
        /\ \/ p.vote = Expected(service, branch[u][p.rm])
           \/ VotesAfter(log, 0, u, p.rm)
    BY <1>1, <2>1, ParticipantOfResource
  <2>3. log \in Seq(Rec!Line) /\ branch[u][p.rm] \in Branch
    BY <1>1, <2>2 DEF IInv, TypeOK
  <2>4. ~ VotesAfter(log, 0, u, p.rm)
    BY <2>1, <2>2, <2>3, MattersAbout DEF VotesAfter, Matters
  <2> QED
    BY <2>2, <2>3, <2>4 DEF Expected, Wording, Branch
<1>2. IInv /\ VInv => VotesExplained
  BY <1>1
<1> QED
  BY <1>2, VoteInvariance, PTL

-----------------------------------------------------------------------------
(* The record of a participant is a Ballot.                                 *)

\* What the participants ps say of a resource.
Entry(ps, rm) ==
  IF \E p \in {ps[i] : i \in DOMAIN ps} : p.rm = rm
  THEN LET p == CHOOSE q \in {ps[i] : i \in DOMAIN ps} : q.rm = rm
       IN  [vote |-> p.vote, xaException |-> p.xaException]
  ELSE [vote |-> "none", xaException |-> FALSE]

Throws(l, u, rm) == l.type = "JTSException" /\ ForResource(l, u, rm)

\* No phase has ended, so that no resource was called twice.
Open(st) == st \in {"none", "active", "preparing"}

\* The resource has not voted, nor has a line been written for its vote.
Undecided(srv, b) == b \in {"out", "in"} \/ (b = "asked" /\ srv # "JTA")

\* What follows is of a log s, a transaction service, the stage st of the
\* coordinator, how far the resource is (b) and what is recorded of it (e).

\* Unread votes: only a refusal of the JTA comes after another, and none is for
\* the commit after an exception of the JTS.
BallotLines(s, srv, u, rm) ==
  /\ \A i, j \in DOMAIN s : (i < j /\ Votes(s[j], u, rm)) =>
       /\ Votes(s[i], u, rm) => s[i].type = "topLevelPrepare" /\ s[j].type = "XAException"
       /\ Throws(s[i], u, rm) => ~ VoteFor(s[j])
  /\ \A i \in DOMAIN s : Throws(s[i], u, rm) => srv # "JTA"

\* What an unread vote will change is not recorded yet.
EntryOpen(s, e, u, rm) ==
  \A i \in DOMAIN s : Votes(s[i], u, rm) =>
    /\ s[i].type # "XAException" => e.vote \in {"none", "UNKNOWN"}
    /\ s[i].type = "XAException" \/ VoteFor(s[i]) => ~ e.xaException

BallotInv(s, srv, st, b, e, u, rm) ==
  /\ BallotLines(s, srv, u, rm)
  /\ EntryOpen(s, e, u, rm)
  /\ Undecided(srv, b) =>
       e.vote \in {"none", "UNKNOWN"} /\ \A i \in DOMAIN s : ~ Votes(s[i], u, rm)
  /\ Open(st) /\ b # "failed" =>
       ~ e.xaException /\ \A i \in DOMAIN s : ~ Throws(s[i], u, rm)

RmBallot(u, rm) ==
  BallotInv(log, service, stage[u], branch[u][rm], Entry(tx[u].participants, rm), u, rm)

BInv == \A u \in TxUid, rm \in RM : RmBallot(u, rm)

-----------------------------------------------------------------------------
(* What the steps do to it.                                                 *)

\* No new vote is written of the resource, and nothing of it is read.
LEMMA BallotKept ==
  ASSUME NEW u, NEW rm, NEW srv, NEW s, NEW t, NEW st, NEW sx, NEW b, NEW c, NEW e,
         NEW d \in {0, 1}, DOMAIN s \subseteq Nat, DOMAIN t \subseteq Nat,
         BallotInv(s, srv, st, b, e, u, rm),
         \A i \in DOMAIN t : Votes(t[i], u, rm) => i + d \in DOMAIN s /\ t[i] = s[i + d],
         \A i \in DOMAIN t : Throws(t[i], u, rm) =>
           \/ i + d \in DOMAIN s /\ t[i] = s[i + d]
           \/ /\ srv # "JTA" /\ ~ Open(sx)
              /\ \A j \in DOMAIN t : Votes(t[j], u, rm) => j < i,
         Undecided(srv, c) => Undecided(srv, b),
         Open(sx) /\ c # "failed" => Open(st) /\ b # "failed"
  PROVE  BallotInv(t, srv, sx, c, e, u, rm)
<1>1. BallotLines(t, srv, u, rm)
  <2>1. ASSUME NEW i \in DOMAIN t, NEW j \in DOMAIN t, i < j, Votes(t[j], u, rm)
        PROVE  /\ Votes(t[i], u, rm) =>
                    t[i].type = "topLevelPrepare" /\ t[j].type = "XAException"
               /\ Throws(t[i], u, rm) => ~ VoteFor(t[j])
    <3>1. j + d \in DOMAIN s /\ t[j] = s[j + d] /\ i + d < j + d /\ ~ (j < i)
      BY <2>1
    <3> QED
      BY <2>1, <3>1 DEF BallotInv, BallotLines
  <2>2. \A i \in DOMAIN t : Throws(t[i], u, rm) => srv # "JTA"
    BY DEF BallotInv, BallotLines
  <2> QED
    BY <2>1, <2>2 DEF BallotLines
<1>2. EntryOpen(t, e, u, rm)
  BY DEF BallotInv, EntryOpen
<1> QED
  BY <1>1, <1>2 DEF BallotInv

\* A resource is asked or answers, and its vote may be written.
LEMMA BallotWritten ==
  ASSUME NEW u, NEW rm, NEW srv, NEW s, NEW t, NEW st, NEW sx, NEW b, NEW c, NEW e,
         DOMAIN s \subseteq Nat, DOMAIN t \subseteq Nat,
         BallotInv(s, srv, st, b, e, u, rm), VoteLines(s, srv, b, u, rm),
         Open(st), b \in {"in", "asked"}, ~ Undecided(srv, c),
         \A i \in DOMAIN s : i \in DOMAIN t /\ t[i] = s[i],
         \A i \in DOMAIN t, j \in DOMAIN s : i \notin DOMAIN s => j < i,
         \A i, j \in DOMAIN t :
           (i \notin DOMAIN s /\ j \notin DOMAIN s /\ Votes(t[j], u, rm)) =>
             /\ Votes(t[i], u, rm) => i = j
             /\ Throws(t[i], u, rm) => ~ VoteFor(t[j]),
         \A i \in DOMAIN t : i \notin DOMAIN s =>
           /\ Throws(t[i], u, rm) => srv # "JTA" /\ c = "failed"
           /\ Votes(t[i], u, rm) =>
                IF t[i].type = "XAException" THEN srv = "JTA" ELSE Undecided(srv, b)
  PROVE  BallotInv(t, srv, sx, c, e, u, rm)
<1>1. ~ e.xaException /\ \A i \in DOMAIN s : ~ Throws(s[i], u, rm)
  BY DEF BallotInv
<1>2. ASSUME NEW i \in DOMAIN s, Votes(s[i], u, rm), NEW j \in DOMAIN t, j \notin DOMAIN s,
             Votes(t[j], u, rm)
      PROVE  t[i].type = "topLevelPrepare" /\ t[j].type = "XAException"
  <2>1. ~ Undecided(srv, b) /\ t[j].type = "XAException" /\ srv = "JTA"
    BY <1>2 DEF BallotInv
  <2>2. VoteOf(s[i]) # "ABORT" /\ s[i].type \in {"topLevelPrepare", "XAException"}
    BY <1>2, <2>1 DEF VoteLines
  <2> QED
    BY <1>2, <2>1, <2>2 DEF VoteOf, VoteFor
<1>3. BallotLines(t, srv, u, rm)
  <2>1. ASSUME NEW i \in DOMAIN t, NEW j \in DOMAIN t, i < j, Votes(t[j], u, rm)
        PROVE  /\ Votes(t[i], u, rm) =>
                    t[i].type = "topLevelPrepare" /\ t[j].type = "XAException"
               /\ Throws(t[i], u, rm) => ~ VoteFor(t[j])
    <3>1. CASE i \in DOMAIN s /\ j \in DOMAIN s
      BY <2>1, <3>1 DEF BallotInv, BallotLines
    <3>2. CASE i \in DOMAIN s /\ j \notin DOMAIN s
      BY <1>1, <1>2, <2>1, <3>2
    <3>3. CASE i \notin DOMAIN s
      <4>1. j \notin DOMAIN s /\ i # j
        BY <2>1, <3>3
      <4> QED
        BY <2>1, <3>3, <4>1
    <3> QED
      BY <3>1, <3>2, <3>3
  <2>2. \A i \in DOMAIN t : Throws(t[i], u, rm) => srv # "JTA"
    BY <1>1
  <2> QED
    BY <2>1, <2>2 DEF BallotLines
<1>4. EntryOpen(t, e, u, rm)
  <2> SUFFICES ASSUME NEW i \in DOMAIN t, Votes(t[i], u, rm)
               PROVE  /\ t[i].type # "XAException" => e.vote \in {"none", "UNKNOWN"}
                      /\ ~ e.xaException
    BY DEF EntryOpen
  <2>1. CASE i \in DOMAIN s
    BY <1>1, <2>1 DEF BallotInv, EntryOpen
  <2>2. CASE i \notin DOMAIN s
    BY <1>1, <2>2 DEF BallotInv
  <2> QED
    BY <2>1, <2>2
<1>5. c # "failed" => \A i \in DOMAIN t : ~ Throws(t[i], u, rm)
  BY <1>1
<1> QED
  BY <1>1, <1>3, <1>4, <1>5 DEF BallotInv

\* What reading the line l makes of the record e of a resource it is about.
EntryRead(l, e, f, u, rm) ==
  \/ /\ Enlists(l, u, rm) /\ e = [vote |-> "none", xaException |-> FALSE]
     /\ f = [vote |-> "UNKNOWN", xaException |-> FALSE]
  \/ /\ Votes(l, u, rm) /\ e.vote # "none"
     /\ f = [vote |-> VoteOf(l), xaException |-> e.xaException \/ l.type = "XAException"]
  \/ /\ Throws(l, u, rm) /\ e.vote # "none"
     /\ f = [vote |-> e.vote, xaException |-> TRUE]

\* A line of the resource is read.
LEMMA BallotRead ==
  ASSUME NEW u, NEW rm, NEW srv, NEW s, NEW t, NEW st, NEW b, NEW e, NEW f,
         DOMAIN s \subseteq Nat \ {0}, DOMAIN t \subseteq Nat \ {0}, 1 \in DOMAIN s,
         \A i \in DOMAIN t : i + 1 \in DOMAIN s /\ t[i] = s[i + 1],
         BallotInv(s, srv, st, b, e, u, rm), VoteLines(s, srv, b, u, rm),
         EntryRead(s[1], e, f, u, rm)
  PROVE  BallotInv(t, srv, st, b, f, u, rm)
<1>1. BallotLines(t, srv, u, rm)
  <2>1. ASSUME NEW i \in DOMAIN t, NEW j \in DOMAIN t, i < j, Votes(t[j], u, rm)
        PROVE  /\ Votes(t[i], u, rm) =>
                    t[i].type = "topLevelPrepare" /\ t[j].type = "XAException"
               /\ Throws(t[i], u, rm) => ~ VoteFor(t[j])
    <3>1. i + 1 < j + 1
      BY <2>1
    <3> QED
      BY <2>1, <3>1 DEF BallotInv, BallotLines
  <2>2. \A i \in DOMAIN t : Throws(t[i], u, rm) => srv # "JTA"
    BY DEF BallotInv, BallotLines
  <2> QED
    BY <2>1, <2>2 DEF BallotLines
<1>2. \A i \in DOMAIN t : 1 < i + 1
  OBVIOUS
<1>3. /\ Undecided(srv, b) =>
           e.vote \in {"none", "UNKNOWN"} /\ \A i \in DOMAIN s : ~ Votes(s[i], u, rm)
      /\ Open(st) /\ b # "failed" =>
           ~ e.xaException /\ \A i \in DOMAIN s : ~ Throws(s[i], u, rm)
  BY DEF BallotInv
<1>4. CASE Enlists(s[1], u, rm) /\ f = [vote |-> "UNKNOWN", xaException |-> FALSE]
  BY <1>1, <1>3, <1>4 DEF BallotInv, EntryOpen
<1>5. CASE /\ Votes(s[1], u, rm)
           /\ f = [vote |-> VoteOf(s[1]),
                   xaException |-> e.xaException \/ s[1].type = "XAException"]
  <2>1. ASSUME NEW i \in DOMAIN t, Votes(t[i], u, rm)
        PROVE  t[i].type = "XAException" /\ ~ f.xaException
    <3>1. s[1].type = "topLevelPrepare" /\ t[i].type = "XAException"
      BY <1>2, <1>5, <2>1 DEF BallotInv, BallotLines
    <3>2. ~ e.xaException
      BY <2>1, <3>1 DEF BallotInv, EntryOpen
    <3> QED
      BY <1>5, <3>1, <3>2
  <2>2. s[1].type = "XAException" => b = "failed"
    BY <1>5 DEF VoteLines, VoteOf, VoteFor
  <2>3. EntryOpen(t, f, u, rm)
    BY <2>1 DEF EntryOpen
  <2>4. Open(st) /\ b # "failed" => ~ f.xaException
    BY <1>3, <1>5, <2>2
  <2> QED
    BY <1>1, <1>3, <1>5, <2>3, <2>4 DEF BallotInv
<1>6. CASE Throws(s[1], u, rm) /\ f = [vote |-> e.vote, xaException |-> TRUE]
  <2>1. srv # "JTA"
    BY <1>6 DEF BallotInv, BallotLines
  <2>2. ASSUME NEW i \in DOMAIN t, Votes(t[i], u, rm)
        PROVE  /\ t[i].type # "XAException" /\ ~ VoteFor(t[i])
               /\ e.vote \in {"none", "UNKNOWN"}
    <3>1. ~ VoteFor(t[i])
      BY <1>2, <1>6, <2>2 DEF BallotInv, BallotLines
    <3>2. t[i].type # "XAException"
      BY <2>1, <2>2 DEF VoteLines
    <3> QED
      BY <2>2, <3>1, <3>2 DEF BallotInv, EntryOpen
  <2>3. EntryOpen(t, f, u, rm)
    BY <1>6, <2>2 DEF EntryOpen
  <2> QED
    BY <1>1, <1>3, <1>6, <2>3 DEF BallotInv
<1> QED
  BY <1>4, <1>5, <1>6 DEF EntryRead

-----------------------------------------------------------------------------
(* The entries of a resource.                                               *)

\* The one participant of a resource is what is recorded of it.
LEMMA EntryAt ==
  ASSUME NEW ps, NEW rm, NEW k \in DOMAIN ps, ps[k].rm = rm,
         \A m \in DOMAIN ps : ps[m].rm = rm => m = k
  PROVE  Entry(ps, rm) = [vote |-> ps[k].vote, xaException |-> ps[k].xaException]
<1> DEFINE S == {ps[i] : i \in DOMAIN ps}
<1>1. ps[k] \in S /\ \A q \in S : q.rm = rm <=> q = ps[k]
  OBVIOUS
<1> HIDE DEF S
<1>2. (CHOOSE q \in S : q.rm = rm) = ps[k]
  BY <1>1
<1> QED
  BY <1>1, <1>2 DEF Entry, S

\* Of a resource without a participant nothing is recorded.
LEMMA EntryNone ==
  ASSUME NEW ps, NEW rm, \A m \in DOMAIN ps : ps[m].rm # rm
  PROVE  Entry(ps, rm) = [vote |-> "none", xaException |-> FALSE]
BY DEF Entry

\* What happens to the other participants does not matter.
LEMMA EntrySame ==
  ASSUME NEW ps, NEW qs, NEW rm,
         \A k, m \in DOMAIN ps : ps[k].rm = rm /\ ps[m].rm = rm => k = m,
         \A k \in DOMAIN qs : qs[k].rm = rm => k \in DOMAIN ps /\ qs[k] = ps[k],
         \A k \in DOMAIN ps : ps[k].rm = rm => k \in DOMAIN qs /\ qs[k] = ps[k]
  PROVE  Entry(qs, rm) = Entry(ps, rm)
<1>1. CASE \E k \in DOMAIN ps : ps[k].rm = rm
  <2>1. PICK k \in DOMAIN ps : ps[k].rm = rm
    BY <1>1
  <2>2. Entry(ps, rm) = [vote |-> ps[k].vote, xaException |-> ps[k].xaException]
    BY <2>1, EntryAt
  <2>3. k \in DOMAIN qs /\ qs[k] = ps[k] /\ \A m \in DOMAIN qs : qs[m].rm = rm => m = k
    BY <2>1
  <2>4. Entry(qs, rm) = [vote |-> qs[k].vote, xaException |-> qs[k].xaException]
    BY <2>1, <2>3, EntryAt
  <2> QED
    BY <2>2, <2>3, <2>4
<1>2. CASE \A k \in DOMAIN ps : ps[k].rm # rm
  <2>1. \A k \in DOMAIN qs : qs[k].rm # rm
    BY <1>2
  <2>2. Entry(ps, rm) = [vote |-> "none", xaException |-> FALSE]
    BY <1>2, EntryNone
  <2>3. Entry(qs, rm) = [vote |-> "none", xaException |-> FALSE]
    BY <2>1, EntryNone
  <2> QED
    BY <2>2, <2>3
<1> QED
  BY <1>1, <1>2

\* Whatever line is read, at most one entry of its transaction changes, and in
\* the way the line tells.
LEMMA EntriesRead ==
  ASSUME IInv, VInv, NEW l \in Rec!Line, NEW u \in TxUid, 1 \in DOMAIN log, l = log[1],
         About(l, u), LineInv(l, u), Taken(l, u)
  PROVE  \/ \A rm \in RM : Entry(tx'[u].participants, rm) = Entry(tx[u].participants, rm)
         \/ \E r \in RM :
              /\ EntryRead(l, Entry(tx[u].participants, r), Entry(tx'[u].participants, r), u, r)
              /\ \A rm \in RM : rm # r =>
                   Entry(tx'[u].participants, rm) = Entry(tx[u].participants, rm)
<1>1. PICK old, new : old = tx[u].participants /\ new = tx'[u].participants
  OBVIOUS
<1>2. old \in Seq(Rec!Participant) /\ \A k \in DOMAIN old : old[k] \in Rec!Participant
  <2>1. old \in Seq(Rec!Participant)
    BY <1>1 DEF IInv, TypeOK, Rec!TypeOK, Rec!Transaction
  <2> QED
    BY <2>1
<1>3. \A r \in RM : VoteInv(log, service, branch[u][r], old, gap, u, r)
  BY <1>1 DEF VInv, RmInv
<1>4. \/ new = old
      \/ /\ l.type \in VotingTypes
         /\ \E i \in Concerned(l, u) :
              i \in DOMAIN old /\ new = [old EXCEPT ![i] = Voted(l, old[i])]
      \/ l.type \in EnlistingTypes /\ new = Append(old, NewParticipant(l))
  <2>1. CASE ParticipantsAfter(l, u)
    BY <1>1, <2>1 DEF ParticipantsAfter
  <2>2. CASE l.type = "Begin" /\ tx'[u] = Rec!NewTransaction
    <3>1. old = <<>>
      BY <1>1, <2>2 DEF LineInv, IInv, UInv, RowInv
    <3> QED
      BY <1>1, <2>2, <3>1 DEF Rec!NewTransaction
  <2>3. CASE old = <<>> /\ tx'[u] = Rec!NoTransaction
    BY <1>1, <2>3 DEF Rec!NoTransaction
  <2> QED
    BY <1>1, <2>1, <2>2, <2>3 DEF Taken
<1> HIDE DEF Taken
<1>5. ASSUME NEW i \in DOMAIN old
      PROVE  LET p == old[i]
             IN  /\ p.rm \in RM /\ p.vote # "none"
                 /\ p.rmuid = IF service = "JTA" THEN NoRmUid ELSE <<u, p.rm>>
                 /\ \A j \in DOMAIN old : old[j].rm = p.rm => j = i
                 /\ Voted(l, p).rm = p.rm
  <2>1. old[i] \in Rec!Participant
    BY <1>2
  <2>2. old[i].rm \in RM /\ old[i].vote # "none"
    BY <2>1 DEF Rec!Participant, Rec!Vote
  <2>3. ParticipantTrue(log, service, branch[u][old[i].rm], old, gap, u, old[i].rm)
    BY <1>3, <2>2 DEF VoteInv
  <2>4. Voted(l, old[i]).rm = old[i].rm
    BY <2>1 DEF Voted, Rec!Participant
  <2> QED
    BY <2>2, <2>3, <2>4 DEF ParticipantTrue
<1>6. /\ l.type \in ResourceTypes =>
           "txuid" \notin DOMAIN l /\ l.rmuid \in TxUid \X RM /\ l.rmuid # NoRmUid
             /\ Concerned(l, u) = {i \in DOMAIN old : old[i].rmuid = l.rmuid}
      /\ l.type \notin ResourceTypes =>
           "txuid" \in DOMAIN l /\ l.txuid = u
             /\ Concerned(l, u) = {i \in DOMAIN old : old[i].rm = l.rm}
  BY <1>1, LineGroups, AboutOne, CommitmentAssumption
     DEF Concerned, Rec!ByName, Rec!ByRmUid
<1>7. CASE new = old
  BY <1>1, <1>7
<1>8. CASE /\ l.type \in VotingTypes
           /\ \E i \in Concerned(l, u) :
                i \in DOMAIN old /\ new = [old EXCEPT ![i] = Voted(l, old[i])]
  <2>1. PICK i \in Concerned(l, u) :
          i \in DOMAIN old /\ new = [old EXCEPT ![i] = Voted(l, old[i])]
    BY <1>8
  <2>2. PICK r \in RM : r = old[i].rm
    BY <1>5, <2>1
  <2>3. DOMAIN new = DOMAIN old /\ new[i] = Voted(l, old[i])
        /\ \A k \in DOMAIN old : k # i => new[k] = old[k]
    BY <2>1
  <2>4. ASSUME NEW rm \in RM, rm # r
        PROVE  Entry(new, rm) = Entry(old, rm)
    <3>1. new[i].rm # rm /\ old[i].rm # rm
      BY <1>5, <2>1, <2>2, <2>3, <2>4
    <3>2. /\ \A k \in DOMAIN new : new[k].rm = rm => k \in DOMAIN old /\ new[k] = old[k]
          /\ \A k \in DOMAIN old : old[k].rm = rm => k \in DOMAIN new /\ new[k] = old[k]
      BY <2>3, <3>1
    <3>3. \A k, m \in DOMAIN old : old[k].rm = rm /\ old[m].rm = rm => k = m
      BY <1>5
    <3> QED
      BY <3>2, <3>3, EntrySame
  <2>5. Entry(old, r) = [vote |-> old[i].vote, xaException |-> old[i].xaException]
    <3>1. i \in DOMAIN old /\ old[i].rm = r /\ \A m \in DOMAIN old : old[m].rm = r => m = i
      BY <1>5, <2>1, <2>2
    <3> QED
      BY <3>1, EntryAt
  <2>6. Entry(new, r) = [vote |-> Voted(l, old[i]).vote,
                         xaException |-> Voted(l, old[i]).xaException]
    <3>1. i \in DOMAIN new /\ new[i].rm = r
      BY <1>5, <2>1, <2>2, <2>3
    <3>2. \A m \in DOMAIN new : new[m].rm = r => m = i
      BY <1>5, <2>1, <2>2, <2>3
    <3>3. Entry(new, r) = [vote |-> new[i].vote, xaException |-> new[i].xaException]
      BY <3>1, <3>2, EntryAt
    <3> QED
      BY <2>3, <3>3
  <2>7. old[i] \in Rec!Participant /\ old[i].vote # "none"
    BY <1>2, <1>5, <2>1
  <2>8. EntryRead(l, Entry(old, r), Entry(new, r), u, r) \/ Entry(new, r) = Entry(old, r)
    <3>1. CASE l.type \in {"topLevelPrepare", "XAException"}
      <4>1. Votes(l, u, r)
        BY <1>6, <2>1, <2>2, <3>1, MattersAbout
           DEF Votes, VoteFor, VoteAgainst, ForResource, ResourceTypes
      <4>2. /\ Voted(l, old[i]).vote = VoteOf(l)
            /\ Voted(l, old[i]).xaException = (old[i].xaException \/ l.type = "XAException")
        BY <2>7, <3>1 DEF Voted, VoteOf, VoteFor, Rec!Participant
      <4> QED
        BY <2>5, <2>6, <2>7, <4>1, <4>2 DEF EntryRead
    <3>2. CASE l.type \in {"doResult", "JTSException"}
      <4>1. ForResource(l, u, r)
        <5>1. l.rmuid = old[i].rmuid /\ l.rmuid # NoRmUid /\ "txuid" \notin DOMAIN l
          BY <1>6, <2>1, <3>2 DEF ResourceTypes
        <5>2. l.rmuid = <<u, r>>
          BY <1>5, <2>1, <2>2, <5>1
        <5> QED
          BY <5>1, <5>2 DEF ForResource
      <4>2. CASE l.type = "JTSException"
        <5>1. /\ Voted(l, old[i]).vote = old[i].vote
              /\ Voted(l, old[i]).xaException = TRUE
          BY <2>7, <4>2 DEF Voted, Rec!Participant
        <5>2. Entry(new, r) = [vote |-> Entry(old, r).vote, xaException |-> TRUE]
          <6>1. Entry(old, r).vote = old[i].vote
            BY <2>5
          <6>2. Entry(new, r) = [vote |-> old[i].vote, xaException |-> TRUE]
            BY <2>6, <5>1, Zenon
          <6> QED
            BY <6>1, <6>2, Zenon
        <5>3. Throws(l, u, r) /\ Entry(old, r).vote # "none"
          BY <2>5, <2>7, <4>1, <4>2 DEF Throws
        <5> QED
          BY <5>2, <5>3 DEF EntryRead
      <4>3. CASE l.type = "doResult" /\ (VoteFor(l) \/ VoteAgainst(l))
        <5>1. /\ Voted(l, old[i]).vote = VoteOf(l)
              /\ Voted(l, old[i]).xaException = (old[i].xaException \/ l.type = "XAException")
          BY <2>7, <4>3 DEF Voted, VoteOf, VoteFor, VoteAgainst, Rec!Participant
        <5>2. Votes(l, u, r)
          BY <4>1, <4>3 DEF Votes
        <5> QED
          BY <2>5, <2>6, <2>7, <5>1, <5>2 DEF EntryRead
      <4>4. CASE l.type = "doResult" /\ ~ VoteFor(l) /\ ~ VoteAgainst(l)
        <5>1. Voted(l, old[i]) = old[i]
          BY <4>4 DEF Voted, VoteFor, VoteAgainst
        <5> QED
          BY <2>5, <2>6, <5>1
      <4> QED
        BY <3>2, <4>2, <4>3, <4>4
    <3> QED
      BY <1>8, <3>1, <3>2 DEF VotingTypes
  <2>9. CASE EntryRead(l, Entry(old, r), Entry(new, r), u, r)
    BY <1>1, <2>4, <2>9
  <2>10. CASE Entry(new, r) = Entry(old, r)
    BY <1>1, <2>4, <2>10
  <2> QED
    BY <2>8, <2>9, <2>10
<1>9. CASE l.type \in EnlistingTypes /\ new = Append(old, NewParticipant(l))
  <2>1. PICK r \in RM : r = l.rm
    BY <1>9, LineGroups
  <2>2. Enlists(l, u, r)
    BY <1>6, <1>9, <2>1, MattersAbout DEF Enlists, ForResource, EnlistingTypes, ResourceTypes
  <2>3. \A k \in DOMAIN old : old[k].rm # r
    BY <1>3, <2>2 DEF VoteInv, EnlistLines
  <2>4. PICK p : p = NewParticipant(l)
    OBVIOUS
  <2>5. p.rm = r /\ p.vote = "UNKNOWN" /\ p.xaException = FALSE
    BY <2>1, <2>4 DEF NewParticipant
  <2>6. PICK n : /\ n \in DOMAIN new /\ n \notin DOMAIN old /\ new[n] = p
                 /\ \A k \in DOMAIN old : k \in DOMAIN new /\ new[k] = old[k]
                 /\ \A k \in DOMAIN new : k = n \/ k \in DOMAIN old
    <3>1. /\ Len(old) + 1 \in DOMAIN new /\ Len(old) + 1 \notin DOMAIN old
          /\ new[Len(old) + 1] = p
          /\ \A k \in DOMAIN old : k \in DOMAIN new /\ new[k] = old[k]
          /\ \A k \in DOMAIN new : k = Len(old) + 1 \/ k \in DOMAIN old
      BY <1>2, <1>9, <2>4
    <3> QED
      BY <3>1
  <2>7. Entry(old, r) = [vote |-> "none", xaException |-> FALSE]
    BY <2>3, EntryNone
  <2>8. Entry(new, r) = [vote |-> "UNKNOWN", xaException |-> FALSE]
    <3>1. n \in DOMAIN new /\ new[n].rm = r /\ \A m \in DOMAIN new : new[m].rm = r => m = n
      BY <2>3, <2>5, <2>6
    <3>2. Entry(new, r) = [vote |-> new[n].vote, xaException |-> new[n].xaException]
      BY <3>1, EntryAt
    <3> QED
      BY <2>5, <2>6, <3>2
  <2>9. ASSUME NEW rm \in RM, rm # r
        PROVE  Entry(new, rm) = Entry(old, rm)
    <3>1. new[n].rm # rm
      BY <2>5, <2>6, <2>9
    <3>2. /\ \A k \in DOMAIN new : new[k].rm = rm => k \in DOMAIN old /\ new[k] = old[k]
          /\ \A k \in DOMAIN old : old[k].rm = rm => k \in DOMAIN new /\ new[k] = old[k]
      BY <2>6, <3>1
    <3>3. \A k, m \in DOMAIN old : old[k].rm = rm /\ old[m].rm = rm => k = m
      BY <1>5
    <3> QED
      BY <3>2, <3>3, EntrySame
  <2>10. EntryRead(l, Entry(old, r), Entry(new, r), u, r)
    BY <2>2, <2>7, <2>8 DEF EntryRead
  <2> QED
    BY <1>1, <2>9, <2>10
<1> QED
  BY <1>4, <1>7, <1>8, <1>9

-----------------------------------------------------------------------------
(* The steps keep the invariant.                                            *)

\* The invariant of the next state, from what the variables have become.
LEMMA RmBallotNext ==
  ASSUME NEW u, NEW rm, NEW s, s = log', NEW srv, srv = service', NEW st, st = stage'[u],
         NEW b, b = branch'[u][rm], NEW e, e = Entry(tx'[u].participants, rm),
         BallotInv(s, srv, st, b, e, u, rm)
  PROVE  RmBallot(u, rm)'
BY DEF RmBallot

\* The lines that matter to an entry are about its transaction.
LEMMA BallotAbout ==
  ASSUME NEW l \in Rec!Line, NEW u \in TxUid, NEW rm \in RM, Votes(l, u, rm) \/ Throws(l, u, rm)
  PROVE  About(l, u)
BY DEF Votes, Throws, ForResource, About

\* A transaction that the line is not about.
LEMMA OtherBallots ==
  ASSUME BInv, NEW u \in TxUid, NEW rm \in RM, SameCoordinator(u), SameRow(u),
         service' = service, NEW d \in {0, 1}, Shifted(u, d),
         log \in Seq(Rec!Line), log' \in Seq(Rec!Line)
  PROVE  RmBallot(u, rm)'
<1>1. PICK s, t, st, b, e, srv :
        /\ s = log /\ t = log' /\ st = stage[u] /\ b = branch[u][rm] /\ srv = service
        /\ e = Entry(tx[u].participants, rm)
  OBVIOUS
<1>2. BallotInv(s, srv, st, b, e, u, rm)
  BY <1>1 DEF BInv, RmBallot
<1>3. /\ DOMAIN s \subseteq Nat /\ DOMAIN t \subseteq Nat
      /\ \A i \in DOMAIN t : t[i] \in Rec!Line
  BY <1>1
<1>4. \A i \in DOMAIN t : Votes(t[i], u, rm) \/ Throws(t[i], u, rm) =>
        i + d \in DOMAIN s /\ t[i] = s[i + d]
  BY <1>1, <1>3, BallotAbout DEF Shifted
<1>5. BallotInv(t, srv, st, b, e, u, rm)
  BY <1>2, <1>3, <1>4, BallotKept
<1>6. /\ srv = service' /\ st = stage'[u] /\ b = branch'[u][rm]
      /\ e = Entry(tx'[u].participants, rm)
  BY <1>1 DEF SameCoordinator, SameRow
<1> QED
  BY <1>1, <1>5, <1>6, RmBallotNext

\* The monitor reads a line.
LEMMA ReadBallots ==
  ASSUME IInv, VInv, BInv, ReadLine
  PROVE  BInv'
<1>1. PICK l \in Rec!Line, u \in TxUid :
        /\ 1 \in DOMAIN log /\ l = log[1] /\ About(l, u) /\ LineInv(l, u)
        /\ Taken(l, u)
        /\ \A v \in TxUid : SameCoordinator(v) /\ (v # u => Shifted(v, 1))
        /\ service' = service /\ gap' = gap /\ TypeOK'
        /\ \A i \in DOMAIN log' :
             i \in Nat /\ i >= 1 /\ i + 1 \in DOMAIN log /\ log'[i] = log[i + 1]
        /\ \A i \in DOMAIN log :
             i = 1 \/ (i \in Nat /\ i > 1 /\ i - 1 \in DOMAIN log' /\ log'[i - 1] = log[i])
  BY ReadLineTakes
<1>2. ASSUME NEW rm \in RM PROVE RmBallot(u, rm)'
  <2>1. PICK s, t, st, b, e, f, srv :
          /\ s = log /\ t = log' /\ st = stage[u] /\ b = branch[u][rm] /\ srv = service
          /\ e = Entry(tx[u].participants, rm) /\ f = Entry(tx'[u].participants, rm)
    OBVIOUS
  <2>2. BallotInv(s, srv, st, b, e, u, rm) /\ VoteLines(s, srv, b, u, rm)
    BY <2>1 DEF BInv, RmBallot, VInv, RmInv, VoteInv
  <2>3. /\ DOMAIN s \subseteq Nat \ {0} /\ DOMAIN t \subseteq Nat \ {0} /\ 1 \in DOMAIN s
        /\ \A i \in DOMAIN t : i + 1 \in DOMAIN s /\ t[i] = s[i + 1]
    <3>1. log \in Seq(Rec!Line)
      BY DEF IInv, TypeOK
    <3> QED
      BY <1>1, <2>1, <3>1
  <2>4. f = e \/ EntryRead(s[1], e, f, u, rm)
    BY <1>1, <2>1, EntriesRead
  <2>5. BallotInv(t, srv, st, b, f, u, rm)
    <3>1. CASE f = e
      BY <2>2, <2>3, <3>1, BallotKept
    <3>2. CASE EntryRead(s[1], e, f, u, rm)
      BY <2>2, <2>3, <3>2, BallotRead
    <3> QED
      BY <2>4, <3>1, <3>2
  <2>6. srv = service' /\ st = stage'[u] /\ b = branch'[u][rm]
    BY <1>1, <2>1 DEF SameCoordinator
  <2> QED
    BY <2>1, <2>5, <2>6, RmBallotNext
<1>3. ASSUME NEW v \in TxUid, v # u, NEW rm \in RM PROVE RmBallot(v, rm)'
  <2>1. log \in Seq(Rec!Line) /\ log' \in Seq(Rec!Line) /\ SameRow(v)
    BY <1>1, <1>3 DEF IInv, TypeOK, Taken
  <2> QED
    BY <1>1, <1>3, <2>1, OtherBallots
<1> QED
  BY <1>2, <1>3 DEF BInv

\* Lines without a vote are written, and an exception only after all votes.
LEMMA LinesBallots ==
  ASSUME IInv, BInv, NEW lines \in Seq(Rec!Line), log' = log \o lines,
         UNCHANGED <<service, dbVars>>, NEW u \in TxUid, NEW rm \in RM,
         Undecided(service, branch'[u][rm]) => Undecided(service, branch[u][rm]),
         Open(stage'[u]) /\ branch'[u][rm] # "failed" =>
           Open(stage[u]) /\ branch[u][rm] # "failed",
         \A k \in DOMAIN lines :
           /\ ~ Votes(lines[k], u, rm)
           /\ Throws(lines[k], u, rm) => service # "JTA" /\ ~ Open(stage'[u])
  PROVE  RmBallot(u, rm)'
<1>1. PICK s, t, st, sx, b, c, e, srv :
        /\ s = log /\ t = log' /\ st = stage[u] /\ sx = stage'[u] /\ b = branch[u][rm]
        /\ c = branch'[u][rm] /\ srv = service /\ e = Entry(tx[u].participants, rm)
  OBVIOUS
<1>2. BallotInv(s, srv, st, b, e, u, rm)
  BY <1>1 DEF BInv, RmBallot
<1>3. log \in Seq(Rec!Line)
  BY DEF IInv, TypeOK
<1>4. /\ DOMAIN s \subseteq Nat /\ DOMAIN t \subseteq Nat
      /\ \A i \in DOMAIN t : i \in DOMAIN s => t[i] = s[i]
      /\ \A i \in DOMAIN t : i \notin DOMAIN s =>
           /\ \A j \in DOMAIN s : j < i
           /\ \E k \in DOMAIN lines : t[i] = lines[k]
  <2>1. /\ \A i \in DOMAIN log : i \in DOMAIN log' /\ log'[i] = log[i]
        /\ \A i \in DOMAIN log' :
             i \in DOMAIN log \/ \E k \in DOMAIN lines : i = Len(log) + k /\ log'[i] = lines[k]
        /\ \A i \in DOMAIN log : i <= Len(log)
        /\ Len(log) \in Nat /\ DOMAIN lines \subseteq Nat \ {0}
        /\ log' \in Seq(Rec!Line)
    BY <1>3, Appended
  <2>2. DOMAIN log \subseteq Nat /\ DOMAIN log' \subseteq Nat
    BY <1>3, <2>1
  <2> QED
    BY <1>1, <2>1, <2>2
<1>5. /\ \A i \in DOMAIN t : Votes(t[i], u, rm) => i + 0 \in DOMAIN s /\ t[i] = s[i + 0]
      /\ \A i \in DOMAIN t : Throws(t[i], u, rm) =>
           \/ i + 0 \in DOMAIN s /\ t[i] = s[i + 0]
           \/ /\ srv # "JTA" /\ ~ Open(sx)
              /\ \A j \in DOMAIN t : Votes(t[j], u, rm) => j < i
  <2>1. ASSUME NEW i \in DOMAIN t, Votes(t[i], u, rm)
        PROVE  i \in DOMAIN s /\ t[i] = s[i] /\ i + 0 = i
    BY <1>4, <2>1
  <2>2. ASSUME NEW i \in DOMAIN t, Throws(t[i], u, rm)
        PROVE  \/ i \in DOMAIN s /\ t[i] = s[i] /\ i + 0 = i
               \/ /\ srv # "JTA" /\ ~ Open(sx)
                  /\ \A j \in DOMAIN t : Votes(t[j], u, rm) => j < i
    BY <1>1, <1>4, <2>1, <2>2
  <2> QED
    BY <2>1, <2>2
<1>6. /\ Undecided(srv, c) => Undecided(srv, b)
      /\ Open(sx) /\ c # "failed" => Open(st) /\ b # "failed"
  BY <1>1
<1>7. BallotInv(t, srv, sx, c, e, u, rm)
  BY <1>2, <1>4, <1>5, <1>6, BallotKept
<1>8. srv = service' /\ e = Entry(tx'[u].participants, rm)
  BY <1>1 DEF dbVars
<1> QED
  BY <1>1, <1>7, <1>8, RmBallotNext

\* A coordinator goes on, and may write a second phase.
LEMMA TailBallots ==
  ASSUME IInv, BInv, NEW u \in TxUid, NEW pre \in Seq(Rec!Line), NEW x \in Seq(PhaseTwoLine(u)),
         log' = log \o (pre \o x), UNCHANGED <<service, dbVars, branch>>,
         \A k \in DOMAIN pre : pre[k].type \notin VotingTypes \cup EnlistingTypes,
         x = <<>> \/ (service # "JTA" /\ ~ Open(stage'[u])),
         \A v \in TxUid : Open(stage'[v]) => Open(stage[v])
  PROVE  BInv'
<1> SUFFICES ASSUME NEW v \in TxUid, NEW rm \in RM PROVE RmBallot(v, rm)'
  BY DEF BInv
<1>1. x \in Seq(Rec!Line) /\ \A k \in DOMAIN x : x[k] \in PhaseTwoLine(u)
  BY DEF PhaseTwoLine
<1>2. PICK lines \in Seq(Rec!Line) :
        /\ log' = log \o lines
        /\ \A k \in DOMAIN lines :
             \/ \E j \in DOMAIN pre : lines[k] = pre[j]
             \/ x # <<>> /\ lines[k] \in PhaseTwoLine(u)
  <2>1. pre \o x \in Seq(Rec!Line)
    BY <1>1
  <2>2. ASSUME NEW k \in DOMAIN (pre \o x)
        PROVE  \/ \E j \in DOMAIN pre : (pre \o x)[k] = pre[j]
               \/ x # <<>> /\ (pre \o x)[k] \in PhaseTwoLine(u)
    <3>1. CASE k \in DOMAIN pre
      BY <3>1
    <3>2. CASE k \notin DOMAIN pre
      <4>1. k - Len(pre) \in DOMAIN x /\ (pre \o x)[k] = x[k - Len(pre)]
        BY <2>2, <3>2
      <4> QED
        BY <1>1, <4>1
    <3> QED
      BY <3>1, <3>2
  <2> QED
    BY <2>1, <2>2
<1>3. ASSUME NEW k \in DOMAIN lines
      PROVE  /\ ~ Votes(lines[k], v, rm)
             /\ Throws(lines[k], v, rm) => service # "JTA" /\ ~ Open(stage'[v])
  <2>1. CASE \E j \in DOMAIN pre : lines[k] = pre[j]
    BY <2>1 DEF Votes, VoteFor, VoteAgainst, Throws, VotingTypes
  <2>2. CASE x # <<>> /\ lines[k] \in PhaseTwoLine(u)
    <3>1. PICK l \in Rec!Line :
            /\ l = lines[k] /\ l.type \in ResourceTypes
            /\ \E r : l.rmuid = <<u, r>>
            /\ l.type = "doResult" => l.outcome \in {"FINISH_OK", "FINISH_ERROR"}
      BY <2>2 DEF PhaseTwoLine, ResourceTypes
    <3>2. ~ Votes(l, v, rm)
      BY <3>1 DEF Votes, VoteFor, VoteAgainst, ResourceTypes
    <3>3. Throws(l, v, rm) => v = u
      BY <3>1, LineGroups DEF Throws, ForResource
    <3> QED
      BY <2>2, <3>1, <3>2, <3>3
  <2> QED
    BY <1>2, <2>1, <2>2
<1> QED
  BY <1>2, <1>3, LinesBallots

\* A transaction that begins, starts to end, or ends.
LEMMA QuietBallots ==
  ASSUME IInv, BInv, NEW u \in TxUid,
         \/ BeginTx(u) \/ Rollback(u) \/ StartOnePhase(u) \/ AnswerOnePhase(u)
         \/ StartPrepare(u) \/ StartCommit(u) \/ StartAbort(u) \/ Finish(u) \/ Recover(u)
  PROVE  BInv'
<1>1. TypeOK /\ log \in Seq(Rec!Line) /\ stage \in [TxUid -> Stages]
  BY DEF IInv, TypeOK
<1>2. <<>> \in Seq(PhaseTwoLine(u)) /\ <<>> \in Seq(Rec!Line)
  OBVIOUS
<1>3. \A type \in Rec!BasicActionLine \cup {"prepare_failed", "get_status"} :
        L(type, u) \in Rec!Line /\ L(type, u).type \notin VotingTypes \cup EnlistingTypes
  BY DEF L, Rec!Line, Rec!BasicActionLine, VotingTypes, EnlistingTypes
<1>4. ASSUME NEW type \in Rec!BasicActionLine
      PROVE  /\ <<L(type, u)>> \in Seq(Rec!Line)
             /\ \A k \in DOMAIN <<L(type, u)>> :
                  <<L(type, u)>>[k].type \notin VotingTypes \cup EnlistingTypes
  <2>1. PICK l : l = L(type, u)
    OBVIOUS
  <2>2. l \in Rec!Line /\ l.type \notin VotingTypes \cup EnlistingTypes
    BY <1>3, <2>1
  <2>3. <<l>> \in Seq(Rec!Line) /\ \A k \in DOMAIN <<l>> : <<l>>[k] = l
    BY <2>2
  <2> QED
    BY <2>1, <2>2, <2>3
<1>5. {"Begin", "prepare", "Abort", "phase2Abort", "phase2Commit", "onePhaseCommit"}
        = Rec!BasicActionLine
  BY DEF Rec!BasicActionLine
<1>6. ASSUME NEW pre \in Seq(Rec!Line), NEW x \in Seq(PhaseTwoLine(u)),
             log' = log \o (pre \o x), UNCHANGED <<service, dbVars, branch>>,
             \A k \in DOMAIN pre : pre[k].type \notin VotingTypes \cup EnlistingTypes,
             x = <<>> \/ (service # "JTA" /\ ~ Open(stage'[u])),
             \A v \in TxUid : v # u => stage'[v] = stage[v],
             Open(stage'[u]) => Open(stage[u])
      PROVE  BInv'
  <2>1. \A v \in TxUid : Open(stage'[v]) => Open(stage[v])
    BY <1>6
  <2> QED
    BY <1>6, <2>1, TailBallots
<1>7. ASSUME NEW s, Goto(u, s)
      PROVE  stage'[u] = s /\ \A v \in TxUid : v # u => stage'[v] = stage[v]
  BY <1>1, <1>7 DEF Goto
<1>8. ASSUME NEW action \in {"Commit", "Abort"}, NEW x \in SecondPhase(u, action)
      PROVE  x \in Seq(PhaseTwoLine(u)) /\ (x = <<>> \/ service # "JTA")
  BY <1>8, SecondPhaseLines
<1>9. ASSUME NEW type \in Rec!BasicActionLine, Write(<<L(type, u)>>),
             UNCHANGED <<service, dbVars, branch>>, NEW s, Goto(u, s),
             Open(s) => Open(stage[u])
      PROVE  BInv'
  <2>1. PICK pre \in Seq(Rec!Line) : pre = <<L(type, u)>>
    BY <1>4
  <2>2. log' = log \o (pre \o <<>>)
    BY <1>9, <2>1 DEF Write
  <2> QED
    BY <1>2, <1>4, <1>6, <1>7, <1>9, <2>1, <2>2
<1>10. ASSUME NEW pre \in Seq(Rec!Line), NEW action \in {"Commit", "Abort"},
              NEW x \in SecondPhase(u, action), Write(pre \o x),
              \A k \in DOMAIN pre : pre[k].type \notin VotingTypes \cup EnlistingTypes,
              UNCHANGED <<service, dbVars, branch>>, ~ Open(stage'[u]),
              \A v \in TxUid : v # u => stage'[v] = stage[v]
       PROVE  BInv'
  BY <1>6, <1>8, <1>10 DEF Write
<1>11. CASE BeginTx(u)
  <2>1. stage[u] = "none" /\ Goto(u, "active") /\ Write(<<L("Begin", u)>>)
        /\ UNCHANGED <<service, dbVars, branch>>
    BY <1>11 DEF BeginTx, At
  <2> QED
    BY <1>5, <1>9, <2>1 DEF Open
<1>12. CASE StartOnePhase(u)
  <2>1. stage[u] = "active" /\ Goto(u, "one_phase") /\ Write(<<L("onePhaseCommit", u)>>)
        /\ UNCHANGED <<service, dbVars, branch>>
    BY <1>12 DEF StartOnePhase, At
  <2> QED
    BY <1>5, <1>9, <2>1 DEF Open
<1>13. CASE StartPrepare(u)
  <2>1. stage[u] = "active" /\ Goto(u, "preparing") /\ Write(<<L("prepare", u)>>)
        /\ UNCHANGED <<service, dbVars, branch>>
    BY <1>13 DEF StartPrepare, At
  <2> QED
    BY <1>5, <1>9, <2>1 DEF Open
<1>14. CASE AnswerOnePhase(u)
  <2>1. \E s \in {"committing", "aborting"} : Goto(u, s)
    BY <1>14 DEF AnswerOnePhase
  <2>2. UNCHANGED <<service, dbVars, branch>> /\ log' = log \o (<<>> \o <<>>)
    BY <1>1, <1>14 DEF AnswerOnePhase, At
  <2>3. ~ Open(stage'[u]) /\ \A v \in TxUid : v # u => stage'[v] = stage[v]
    BY <1>7, <2>1 DEF Open
  <2>4. PICK pre \in Seq(Rec!Line), x \in Seq(PhaseTwoLine(u)) : pre = <<>> /\ x = <<>>
    BY <1>2
  <2>5. log' = log \o (pre \o x) /\ DOMAIN pre = {}
    BY <2>2, <2>4
  <2> QED
    BY <1>6, <2>2, <2>3, <2>4, <2>5
<1>15. CASE Rollback(u)
  <2>1. PICK x \in SecondPhase(u, "Abort") : Write(<<L("Abort", u)>> \o x)
    BY <1>15 DEF Rollback
  <2>2. Goto(u, "done") /\ UNCHANGED <<service, dbVars, branch>>
    BY <1>15 DEF Rollback, At
  <2>3. ~ Open(stage'[u]) /\ \A v \in TxUid : v # u => stage'[v] = stage[v]
    BY <1>7, <2>2 DEF Open
  <2> QED
    BY <1>4, <1>5, <1>10, <2>1, <2>2, <2>3
<1>16. CASE StartCommit(u)
  <2>1. PICK x \in SecondPhase(u, "Commit") : Write(<<L("phase2Commit", u)>> \o x)
    BY <1>16 DEF StartCommit
  <2>2. Goto(u, "committing") /\ UNCHANGED <<service, dbVars, branch>>
    BY <1>16 DEF StartCommit, At
  <2>3. ~ Open(stage'[u]) /\ \A v \in TxUid : v # u => stage'[v] = stage[v]
    BY <1>7, <2>2 DEF Open
  <2> QED
    BY <1>4, <1>5, <1>10, <2>1, <2>2, <2>3
<1>17. CASE StartAbort(u)
  <2>1. PICK x \in SecondPhase(u, "Abort") :
          Write(<<L("prepare_failed", u), L("phase2Abort", u)>> \o x)
    BY <1>17 DEF StartAbort
  <2>2. Goto(u, "aborting") /\ UNCHANGED <<service, dbVars, branch>>
    BY <1>17 DEF StartAbort, At
  <2>3. PICK y, z : y = L("prepare_failed", u) /\ z = L("phase2Abort", u)
    OBVIOUS
  <2>4. \A l \in {y, z} : l \in Rec!Line /\ l.type \notin VotingTypes \cup EnlistingTypes
    BY <1>3, <1>5, <2>3
  <2>5. <<y, z>> \in Seq(Rec!Line) /\ \A k \in DOMAIN <<y, z>> : <<y, z>>[k] \in {y, z}
    BY <2>4
  <2>6. PICK pre \in Seq(Rec!Line) :
          /\ pre = <<y, z>>
          /\ \A k \in DOMAIN pre : pre[k].type \notin VotingTypes \cup EnlistingTypes
    BY <2>4, <2>5
  <2>7. Write(pre \o x)
    BY <2>1, <2>3, <2>6
  <2>8. ~ Open(stage'[u]) /\ \A v \in TxUid : v # u => stage'[v] = stage[v]
    BY <1>7, <2>2 DEF Open
  <2> QED
    BY <1>10, <2>2, <2>6, <2>7, <2>8
<1>18. CASE Finish(u)
  <2>1. stage[u] \in {"committing", "aborting"} /\ \E s \in {"done", "in_doubt"} : Goto(u, s)
    BY <1>18 DEF Finish
  <2>2. UNCHANGED <<service, dbVars, branch>>
    BY <1>18 DEF Finish, At
  <2>3. decision[u] \in {"commit", "abort"}
    BY <1>1, <2>1 DEF IInv, UInv, CoordInv, TypeOK
  <2>4. PICK pre \in Seq(Rec!Line) :
          /\ log' = log \o pre
          /\ \A k \in DOMAIN pre : pre[k].type \notin VotingTypes \cup EnlistingTypes
    <3>1. PICK result \in Results[decision[u]], logged \in EndLogged, query \in GetStatus(u) :
            log' = log \o ((IF logged THEN <<[type |-> "End", txuid |-> u, result |-> result]>>
                                      ELSE <<>>) \o query)
      BY <1>18 DEF Finish, Write
    <3>2. PICK y, z :
            y = [type |-> "End", txuid |-> u, result |-> result] /\ z = L("get_status", u)
      OBVIOUS
    <3>3. result \in Rec!ActionStatus
      BY <2>3 DEF Results, Rec!ActionStatus
    <3>4. \A l \in {y, z} : l \in Rec!Line /\ l.type \notin VotingTypes \cup EnlistingTypes
      <4>1. y \in Rec!Line /\ y.type \notin VotingTypes \cup EnlistingTypes
        BY <3>2, <3>3 DEF Rec!Line, VotingTypes, EnlistingTypes
      <4>2. z \in Rec!Line /\ z.type \notin VotingTypes \cup EnlistingTypes
        BY <1>3, <3>2
      <4> QED
        BY <4>1, <4>2
    <3>5. query \in {<<>>, <<z>>}
      BY <3>2 DEF GetStatus, Wording
    <3>6. log' \in {log \o (<<y>> \o <<z>>), log \o (<<y>> \o <<>>),
                    log \o (<<>> \o <<z>>), log \o (<<>> \o <<>>)}
      BY <3>1, <3>2, <3>5
    <3>7. ASSUME NEW p \in {<<y>>, <<>>}, NEW q \in {<<z>>, <<>>}
          PROVE  p \o q \in Seq(Rec!Line) /\ \A k \in DOMAIN (p \o q) : (p \o q)[k] \in {y, z}
      <4>1. p \in Seq({y, z}) /\ q \in Seq({y, z})
        <5>1. <<y>> \in Seq({y, z}) /\ <<z>> \in Seq({y, z}) /\ <<>> \in Seq({y, z})
          OBVIOUS
        <5> QED
          BY <3>7, <5>1
      <4>2. p \o q \in Seq({y, z}) /\ {y, z} \subseteq Rec!Line
        BY <3>4, <4>1
      <4>3. \A w \in Seq({y, z}) : w \in Seq(Rec!Line) /\ \A k \in DOMAIN w : w[k] \in {y, z}
        BY <4>2
      <4> QED
        BY <4>2, <4>3
    <3> QED
      BY <3>4, <3>6, <3>7
  <2>5. log' = log \o (pre \o <<>>)
    BY <2>4
  <2> QED
    BY <1>2, <1>6, <1>7, <2>1, <2>2, <2>4, <2>5 DEF Open
<1>19. CASE Recover(u)
  <2>1. stage[u] = "in_doubt" /\ UNCHANGED <<service, dbVars, branch>>
    BY <1>19 DEF Recover
  <2>2. ~ Open(stage'[u]) /\ \A v \in TxUid : v # u => stage'[v] = stage[v]
    BY <1>7, <1>19, <2>1 DEF Recover, Open
  <2>3. CASE \E x \in SecondPhase(u, "Commit") : Write(<<L("phase2Commit", u)>> \o x)
    BY <1>4, <1>5, <1>10, <2>1, <2>2, <2>3
  <2>4. CASE \E x \in SecondPhase(u, "Abort") : Write(<<L("phase2Abort", u)>> \o x)
    BY <1>4, <1>5, <1>10, <2>1, <2>2, <2>4
  <2> QED
    BY <1>19, <2>3, <2>4 DEF Recover
<1> QED
  BY <1>11, <1>12, <1>13, <1>14, <1>15, <1>16, <1>17, <1>18, <1>19

\* A resource is asked or answers, and the lines may hold its vote.
LEMMA VoteBallots ==
  ASSUME IInv, VInv, BInv, NEW lines \in Seq(Rec!Line), log' = log \o lines,
         UNCHANGED <<service, dbVars, stage>>, NEW u \in TxUid, NEW rm \in RM,
         stage[u] = "preparing", branch[u][rm] \in {"in", "asked"},
         ~ Undecided(service, branch'[u][rm]),
         \A j, k \in DOMAIN lines : Votes(lines[k], u, rm) =>
           /\ Votes(lines[j], u, rm) => j = k
           /\ Throws(lines[j], u, rm) => ~ VoteFor(lines[k]),
         \A k \in DOMAIN lines :
           /\ Throws(lines[k], u, rm) => service # "JTA" /\ branch'[u][rm] = "failed"
           /\ Votes(lines[k], u, rm) =>
                IF lines[k].type = "XAException" THEN service = "JTA"
                                                 ELSE Undecided(service, branch[u][rm])
  PROVE  RmBallot(u, rm)'
<1>1. PICK s, t, st, b, c, e, srv :
        /\ s = log /\ t = log' /\ st = stage[u] /\ b = branch[u][rm]
        /\ c = branch'[u][rm] /\ srv = service /\ e = Entry(tx[u].participants, rm)
  OBVIOUS
<1>2. BallotInv(s, srv, st, b, e, u, rm) /\ VoteLines(s, srv, b, u, rm)
  BY <1>1 DEF BInv, RmBallot, VInv, RmInv, VoteInv
<1>3. log \in Seq(Rec!Line)
  BY DEF IInv, TypeOK
<1>4. /\ DOMAIN s \subseteq Nat /\ DOMAIN t \subseteq Nat
      /\ \A i \in DOMAIN s : i \in DOMAIN t /\ t[i] = s[i]
      /\ \A i \in DOMAIN t : i \notin DOMAIN s =>
           /\ \A j \in DOMAIN s : j < i
           /\ \E k \in DOMAIN lines : i = Len(log) + k /\ t[i] = lines[k]
  <2>1. /\ \A i \in DOMAIN log : i \in DOMAIN log' /\ log'[i] = log[i]
        /\ \A i \in DOMAIN log' :
             i \in DOMAIN log \/ \E k \in DOMAIN lines : i = Len(log) + k /\ log'[i] = lines[k]
        /\ \A i \in DOMAIN log : i <= Len(log)
        /\ Len(log) \in Nat /\ DOMAIN lines \subseteq Nat \ {0}
        /\ log' \in Seq(Rec!Line)
    BY <1>3, Appended
  <2>2. DOMAIN log \subseteq Nat /\ DOMAIN log' \subseteq Nat
    BY <1>3, <2>1
  <2> QED
    BY <1>1, <2>1, <2>2
<1>5. \A i, j \in DOMAIN t :
        (i \notin DOMAIN s /\ j \notin DOMAIN s /\ Votes(t[j], u, rm)) =>
          /\ Votes(t[i], u, rm) => i = j
          /\ Throws(t[i], u, rm) => ~ VoteFor(t[j])
  BY <1>4
<1>6. \A i \in DOMAIN t : i \notin DOMAIN s =>
        /\ Throws(t[i], u, rm) => srv # "JTA" /\ c = "failed"
        /\ Votes(t[i], u, rm) =>
             IF t[i].type = "XAException" THEN srv = "JTA" ELSE Undecided(srv, b)
  BY <1>1, <1>4
<1>7. Open(st) /\ b \in {"in", "asked"} /\ ~ Undecided(srv, c)
  BY <1>1 DEF Open
<1>8. BallotInv(t, srv, st, c, e, u, rm)
  BY <1>2, <1>4, <1>5, <1>6, <1>7, BallotWritten
<1>9. srv = service' /\ e = Entry(tx'[u].participants, rm) /\ st = stage'[u]
  BY <1>1 DEF dbVars
<1> QED
  BY <1>1, <1>8, <1>9, RmBallotNext

\* A resource is enlisted, asked, or answers.
LEMMA ResourceBallots ==
  ASSUME IInv, VInv, BInv, NEW u \in TxUid, NEW rm \in RM,
         \/ EnlistResource(u, rm) \/ AskResource(u, rm)
         \/ ResourcePrepared(u, rm) \/ ResourceFailed(u, rm)
  PROVE  BInv'
<1>1. TypeOK /\ service \in {"JTA", "JTS"}
  BY CommitmentAssumption DEF IInv, TypeOK
<1>2. UNCHANGED <<service, dbVars, stage>>
  BY DEF EnlistResource, AskResource, ResourcePrepared, ResourceFailed, At
<1>3. ASSUME NEW lines \in Seq(Rec!Line), log' = log \o lines,
             NEW c \in {"in", "asked", "ok", "failed"},
             branch' = [branch EXCEPT ![u][rm] = c], RmBallot(u, rm)',
             \A k \in DOMAIN lines : \A v \in TxUid, r \in RM :
               ForResource(lines[k], v, r) => v = u /\ r = rm
      PROVE  BInv'
  <2>1. c \in Branch
    BY DEF Branch
  <2>2. \A v \in TxUid, r \in RM : v # u \/ r # rm => branch'[v][r] = branch[v][r]
    BY <1>1, <1>3, <2>1, BranchTyped
  <2>3. ASSUME NEW v \in TxUid, NEW r \in RM, v # u \/ r # rm
        PROVE  RmBallot(v, r)'
    <3>1. \A k \in DOMAIN lines : ~ Votes(lines[k], v, r) /\ ~ Throws(lines[k], v, r)
      BY <1>3, <2>3 DEF Votes, Throws
    <3>2. branch'[v][r] = branch[v][r] /\ stage'[v] = stage[v]
      BY <1>2, <2>2, <2>3
    <3> QED
      BY <1>2, <1>3, <3>1, <3>2, LinesBallots
  <2> QED
    BY <1>3, <2>3 DEF BInv
<1>4. ASSUME NEW c \in {"in", "asked", "ok", "failed"}, branch' = [branch EXCEPT ![u][rm] = c]
      PROVE  branch'[u][rm] = c
  <2>1. c \in Branch
    BY DEF Branch
  <2> QED
    BY <1>1, <1>4, <2>1, BranchTyped
<1>5. CASE EnlistResource(u, rm)
  <2>1. PICK x, y : /\ x = LRm("XAResourceRecord", u, rm)
                    /\ y = [type |-> "enlistResource", txuid |-> u, rm |-> rm,
                             rmuid |-> <<u, rm>>]
    OBVIOUS
  <2>2. PICK l : l = Wording(x, y)
    OBVIOUS
  <2>3. /\ l \in Rec!Line /\ l.type \in EnlistingTypes
        /\ \A v \in TxUid, r \in RM : ForResource(l, v, r) <=> v = u /\ r = rm
    <3>1. x \in Rec!Line /\ \A v \in TxUid, r \in RM : ForResource(x, v, r) <=> v = u /\ r = rm
      BY <2>1, ResourceLines
    <3>2. y \in Rec!Line /\ \A v \in TxUid, r \in RM : ForResource(y, v, r) <=> v = u /\ r = rm
      BY <2>1, ResourceLines
    <3>3. x.type \in EnlistingTypes /\ y.type \in EnlistingTypes
      BY <2>1 DEF LRm, EnlistingTypes
    <3> QED
      BY <2>2, <3>1, <3>2, <3>3 DEF Wording
  <2>4. /\ branch[u][rm] = "out" /\ branch' = [branch EXCEPT ![u][rm] = "in"]
        /\ log' = log \o <<l>>
    BY <1>5, <2>1, <2>2 DEF EnlistResource, Write
  <2>5. PICK lines \in Seq(Rec!Line) :
          log' = log \o lines /\ \A k \in DOMAIN lines : lines[k] = l
    <3>1. <<l>> \in Seq(Rec!Line) /\ \A k \in DOMAIN <<l>> : <<l>>[k] = l
      BY <2>3
    <3> QED
      BY <2>4, <3>1
  <2>6. ~ Votes(l, u, rm) /\ ~ Throws(l, u, rm)
    BY <2>3 DEF Votes, VoteFor, VoteAgainst, Throws, EnlistingTypes
  <2>7. branch'[u][rm] = "in"
    BY <1>4, <2>4
  <2>8. RmBallot(u, rm)'
    BY <1>2, <2>4, <2>5, <2>6, <2>7, LinesBallots DEF Undecided
  <2>9. branch' = [branch EXCEPT ![u][rm] = "in"]
    BY <2>4
  <2> QED
    BY <1>3, <2>3, <2>5, <2>8, <2>9
<1>6. CASE AskResource(u, rm)
  <2>1. PICK l : l = Wording(LRm("topLevelPrepare", u, rm), TopLevel(u, rm, "Prepare"))
    OBVIOUS
  <2>2. l \in Rec!Line /\ \A v \in TxUid, r \in RM : ForResource(l, v, r) <=> v = u /\ r = rm
    BY <2>1, ResourceLines DEF Wording
  <2>3. l.type = IF service = "JTA" THEN "topLevelPrepare" ELSE "topLevel"
    BY <2>1 DEF Wording, LRm, TopLevel
  <2>4. /\ stage[u] = "preparing" /\ branch[u][rm] = "in"
        /\ branch' = [branch EXCEPT ![u][rm] = "asked"]
        /\ log' = log \o <<l>>
    BY <1>6, <2>1 DEF AskResource, At, Write
  <2>5. PICK lines \in Seq(Rec!Line) :
          log' = log \o lines /\ \A k \in DOMAIN lines : lines[k] = l /\ k = 1
    <3>1. <<l>> \in Seq(Rec!Line) /\ \A k \in DOMAIN <<l>> : <<l>>[k] = l /\ k = 1
      BY <2>2
    <3> QED
      BY <2>4, <3>1
  <2>6. /\ ~ Throws(l, u, rm) /\ l.type # "XAException"
        /\ service # "JTA" => ~ Votes(l, u, rm)
    BY <2>3 DEF Votes, VoteFor, VoteAgainst, Throws
  <2>7. branch'[u][rm] = "asked" /\ Undecided(service, branch[u][rm])
    BY <1>4, <2>4 DEF Undecided
  <2>8. RmBallot(u, rm)'
    <3>1. CASE service = "JTA"
      <4>1. ~ Undecided(service, branch'[u][rm])
        BY <2>7, <3>1 DEF Undecided
      <4> QED
        BY <1>2, <2>4, <2>5, <2>6, <2>7, <4>1, VoteBallots
    <3>2. CASE service # "JTA"
      BY <1>2, <2>4, <2>5, <2>6, <2>7, <3>2, LinesBallots
    <3> QED
      BY <3>1, <3>2
  <2>9. branch' = [branch EXCEPT ![u][rm] = "asked"]
    BY <2>4
  <2> QED
    BY <1>3, <2>2, <2>5, <2>8, <2>9
<1>7. CASE ResourcePrepared(u, rm)
  <2>1. PICK l : l = Outcome(u, rm, "PREPARE_OK")
    OBVIOUS
  <2>2. l \in Rec!Line /\ \A v \in TxUid, r \in RM : ForResource(l, v, r) <=> v = u /\ r = rm
    BY <2>1, ResourceLines
  <2>3. l.type = "doResult"
    BY <2>1 DEF Outcome
  <2>4. /\ stage[u] = "preparing" /\ branch[u][rm] = "asked"
        /\ branch' = [branch EXCEPT ![u][rm] = "ok"]
        /\ log' = log \o (IF service = "JTA" THEN <<>> ELSE <<l>>)
    BY <1>7, <2>1 DEF ResourcePrepared, At, Write, Wording
  <2>5. PICK lines \in Seq(Rec!Line) :
          /\ log' = log \o lines
          /\ \A k \in DOMAIN lines : lines[k] = l /\ k = 1 /\ service # "JTA"
    <3>1. <<>> \in Seq(Rec!Line) /\ DOMAIN <<>> = {}
      OBVIOUS
    <3>2. <<l>> \in Seq(Rec!Line) /\ \A k \in DOMAIN <<l>> : <<l>>[k] = l /\ k = 1
      BY <2>2
    <3>3. CASE service = "JTA"
      BY <2>4, <3>1, <3>3
    <3>4. CASE service # "JTA"
      BY <2>4, <3>2, <3>4
    <3> QED
      BY <3>3, <3>4
  <2>6. branch'[u][rm] = "ok" /\ branch' = [branch EXCEPT ![u][rm] = "ok"]
    BY <1>4, <2>4
  <2>7. /\ ~ Throws(l, u, rm) /\ l.type # "XAException" /\ ~ Undecided(service, "ok")
        /\ service # "JTA" => Undecided(service, branch[u][rm])
    BY <2>3, <2>4 DEF Throws, Undecided
  <2>8. RmBallot(u, rm)'
    <3>1. stage[u] = "preparing" /\ branch[u][rm] \in {"in", "asked"}
          /\ ~ Undecided(service, branch'[u][rm])
      BY <2>4, <2>6, <2>7
    <3>2. \A j, k \in DOMAIN lines : Votes(lines[k], u, rm) =>
            /\ Votes(lines[j], u, rm) => j = k
            /\ Throws(lines[j], u, rm) => ~ VoteFor(lines[k])
      BY <2>5, <2>7
    <3>3. \A k \in DOMAIN lines :
            /\ Throws(lines[k], u, rm) => service # "JTA" /\ branch'[u][rm] = "failed"
            /\ Votes(lines[k], u, rm) =>
                 IF lines[k].type = "XAException" THEN service = "JTA"
                                                  ELSE Undecided(service, branch[u][rm])
      BY <2>5, <2>7
    <3> QED
      BY <1>2, <2>5, <3>1, <3>2, <3>3, VoteBallots
  <2> QED
    BY <1>3, <2>2, <2>5, <2>6, <2>8
<1>8. CASE ResourceFailed(u, rm)
  <2>1. PICK x, y, z : /\ x = LRm("XAException", u, rm) /\ y = Threw(u, rm)
                       /\ z = Outcome(u, rm, "PREPARE_NOTOK")
    OBVIOUS
  <2>2. \A l \in {x, y, z} :
          l \in Rec!Line /\ \A v \in TxUid, r \in RM : ForResource(l, v, r) <=> v = u /\ r = rm
    BY <2>1, ResourceLines
  <2>3. /\ x.type = "XAException" /\ y.type = "JTSException"
        /\ z.type = "doResult" /\ z.outcome = "PREPARE_NOTOK"
    BY <2>1 DEF Outcome, Threw, LRm
  <2>4. /\ stage[u] = "preparing" /\ branch[u][rm] = "asked"
        /\ branch' = [branch EXCEPT ![u][rm] = "failed"]
        /\ log' = log \o (IF service = "JTA" THEN <<x>> ELSE <<y, z>>)
    BY <1>8, <2>1 DEF ResourceFailed, At, Write, Wording
  <2>5. PICK lines \in Seq(Rec!Line) :
          /\ log' = log \o lines
          /\ \A k \in DOMAIN lines :
               IF service = "JTA" THEN lines[k] = x /\ k = 1
               ELSE lines[k] = IF k = 1 THEN y ELSE z
          /\ DOMAIN lines \subseteq {1, 2}
    <3>1. <<x>> \in Seq(Rec!Line) /\ \A k \in DOMAIN <<x>> : <<x>>[k] = x /\ k = 1
      BY <2>2
    <3>2. /\ <<y, z>> \in Seq(Rec!Line)
          /\ \A k \in DOMAIN <<y, z>> : k \in {1, 2} /\ <<y, z>>[k] = IF k = 1 THEN y ELSE z
      BY <2>2
    <3>3. CASE service = "JTA"
      BY <2>4, <3>1, <3>3
    <3>4. CASE service # "JTA"
      <4> DEFINE two == <<y, z>>
      <4>1. /\ two \in Seq(Rec!Line) /\ log' = log \o two
            /\ \A k \in DOMAIN two : k \in {1, 2} /\ two[k] = IF k = 1 THEN y ELSE z
        BY <2>4, <3>2, <3>4
      <4> HIDE DEF two
      <4> QED
        BY <3>4, <4>1
    <3> QED
      BY <3>3, <3>4
  <2>6. branch'[u][rm] = "failed" /\ branch' = [branch EXCEPT ![u][rm] = "failed"]
    BY <1>4, <2>4
  <2>7. /\ ~ VoteFor(z) /\ ~ VoteFor(x) /\ ~ Throws(x, u, rm) /\ ~ Throws(z, u, rm)
        /\ ~ Votes(y, u, rm) /\ z.type # "XAException"
        /\ ~ Undecided(service, "failed")
        /\ service # "JTA" => Undecided(service, branch[u][rm])
    BY <2>3, <2>4 DEF Votes, VoteFor, VoteAgainst, Throws, Undecided
  <2>8. RmBallot(u, rm)'
    <3>1. stage[u] = "preparing" /\ branch[u][rm] \in {"in", "asked"}
          /\ ~ Undecided(service, branch'[u][rm])
      BY <2>4, <2>6, <2>7
    <3>2. \A j, k \in DOMAIN lines : Votes(lines[k], u, rm) =>
            /\ Votes(lines[j], u, rm) => j = k
            /\ Throws(lines[j], u, rm) => ~ VoteFor(lines[k])
      BY <2>5, <2>7
    <3>3. \A k \in DOMAIN lines :
            /\ Throws(lines[k], u, rm) => service # "JTA" /\ branch'[u][rm] = "failed"
            /\ Votes(lines[k], u, rm) =>
                 IF lines[k].type = "XAException" THEN service = "JTA"
                                                  ELSE Undecided(service, branch[u][rm])
      BY <2>3, <2>5, <2>6, <2>7
    <3> QED
      BY <1>2, <2>5, <3>1, <3>2, <3>3, VoteBallots
  <2>9. \A k \in DOMAIN lines : lines[k] \in {x, y, z}
    BY <2>5
  <2> QED
    BY <1>3, <2>2, <2>5, <2>6, <2>8, <2>9
<1> QED
  BY <1>5, <1>6, <1>7, <1>8

\* There is no participant and no line at the start.
LEMMA InitBallots ==
  ASSUME Init
  PROVE  BInv
<1> SUFFICES ASSUME NEW u \in TxUid, NEW rm \in RM PROVE RmBallot(u, rm)
  BY DEF BInv
<1>1. DOMAIN log = {} /\ DOMAIN tx[u].participants = {}
  BY DEF Init, Rec!Init, Rec!NoTransaction
<1>2. Entry(tx[u].participants, rm) = [vote |-> "none", xaException |-> FALSE]
  BY <1>1, EntryNone
<1> QED
  BY <1>1, <1>2 DEF RmBallot, BallotInv, BallotLines, EntryOpen

\* Unread lines are lost, or nothing happens.
LEMMA LostBallots ==
  ASSUME IInv, BInv, UNCHANGED <<service, branch, dbVars>>, log' = <<>> \/ log' = log,
         \A u \in TxUid : Open(stage'[u]) => Open(stage[u])
  PROVE  BInv'
<1> SUFFICES ASSUME NEW u \in TxUid, NEW rm \in RM PROVE RmBallot(u, rm)'
  BY DEF BInv
<1>1. PICK s, t, st, sx, b, e, srv :
        /\ s = log /\ t = log' /\ st = stage[u] /\ sx = stage'[u] /\ b = branch[u][rm]
        /\ srv = service /\ e = Entry(tx[u].participants, rm)
  OBVIOUS
<1>2. BallotInv(s, srv, st, b, e, u, rm)
  BY <1>1 DEF BInv, RmBallot
<1>3. DOMAIN s \subseteq Nat /\ DOMAIN t \subseteq Nat
      /\ \A i \in DOMAIN t : i + 0 \in DOMAIN s /\ t[i] = s[i + 0]
  <2>1. DOMAIN s \subseteq Nat
    BY <1>1 DEF IInv, TypeOK
  <2>2. DOMAIN t = {} \/ t = s
    BY <1>1
  <2> QED
    BY <2>1, <2>2
<1>4. Open(sx) => Open(st)
  BY <1>1
<1>5. BallotInv(t, srv, sx, b, e, u, rm)
  BY <1>2, <1>3, <1>4, BallotKept
<1>6. srv = service' /\ b = branch'[u][rm] /\ e = Entry(tx'[u].participants, rm)
  BY <1>1 DEF dbVars
<1> QED
  BY <1>1, <1>5, <1>6, RmBallotNext

\* The invariant holds with those of the transactions and of the votes.
LEMMA BallotInvariance == Spec => [](IInv /\ VInv /\ BInv)
<1>1. Init => BInv
  BY InitBallots
<1>2. ASSUME IInv, VInv, BInv, [Next]_vars
      PROVE  BInv'
  <2>1. ASSUME NEW u \in TxUid, Coordinator(u) \/ Recover(u) PROVE BInv'
    <3>1. CASE \E rm \in RM : \/ EnlistResource(u, rm) \/ AskResource(u, rm)
                              \/ ResourcePrepared(u, rm) \/ ResourceFailed(u, rm)
      BY <1>2, <3>1, ResourceBallots
    <3>2. CASE \/ BeginTx(u) \/ Rollback(u) \/ StartOnePhase(u) \/ AnswerOnePhase(u)
               \/ StartPrepare(u) \/ StartCommit(u) \/ StartAbort(u) \/ Finish(u) \/ Recover(u)
      BY <1>2, <3>2, QuietBallots
    <3> QED
      BY <2>1, <3>1, <3>2 DEF Coordinator
  <2>2. CASE ReadLine
    BY <1>2, <2>2, ReadBallots
  <2>3. CASE Redeploy
    BY <1>2, <2>3, LostBallots DEF Redeploy, serverVars
  <2>4. CASE Crash
    <3>1. stage' = [u \in TxUid |->
                      IF stage[u] = "none" THEN "none"
                      ELSE IF stage[u] = "in_doubt" \/
                              (stage[u] = "committing" /\ Recoverable(u)) THEN "in_doubt"
                      ELSE "done"]
      BY <2>4 DEF Crash
    <3>2. \A u \in TxUid : Open(stage'[u]) => Open(stage[u])
      BY <3>1 DEF Open
    <3> QED
      BY <1>2, <2>4, <3>2, LostBallots DEF Crash
  <2>5. CASE UNCHANGED vars
    BY <1>2, <2>5, LostBallots DEF vars, serverVars
  <2> QED
    BY <1>2, <2>1, <2>2, <2>3, <2>4, <2>5 DEF Next
<1>3. IInv /\ VInv /\ BInv /\ [Next]_vars => BInv'
  BY <1>2
<1> QED
  BY <1>1, <1>3, VoteInvariance, PTL DEF Spec

-----------------------------------------------------------------------------
(* The steps of the ballot.                                                 *)

RecordNow == [u \in TxUid |-> [rm \in RM |-> RecordOf(u, rm)]]

\* What is recorded is what the entries say.
LEMMA RecordIsEntry ==
  /\ \A u, rm : RecordOf(u, rm) = Entry(tx[u].participants, rm)
  /\ \A u, rm : RecordOf(u, rm)' = Entry(tx'[u].participants, rm)
BY DEF RecordOf, Participants, Entry

\* An entry has a vote and says whether there was an exception.
LEMMA EntryType ==
  ASSUME NEW ps \in Seq(Rec!Participant), NEW rm
  PROVE  Entry(ps, rm) \in Bal!Record
<1>1. CASE \E k \in DOMAIN ps : ps[k].rm = rm
  <2> DEFINE S == {ps[i] : i \in DOMAIN ps}
  <2>1. \E q \in S : q.rm = rm
    BY <1>1
  <2>2. S \subseteq Rec!Participant
    OBVIOUS
  <2> HIDE DEF S
  <2>3. PICK p \in Rec!Participant : p = CHOOSE q \in S : q.rm = rm
    BY <2>1, <2>2
  <2>4. Entry(ps, rm) = [vote |-> p.vote, xaException |-> p.xaException]
    BY <2>1, <2>3 DEF Entry, S
  <2> QED
    BY <2>4 DEF Rec!Participant, Rec!Vote, Bal!Record
<1>2. CASE \A k \in DOMAIN ps : ps[k].rm # rm
  <2>1. Entry(ps, rm) = [vote |-> "none", xaException |-> FALSE]
    BY <1>2, EntryNone
  <2> QED
    BY <2>1 DEF Bal!Record
<1> QED
  BY <1>1, <1>2

\* What a line may do to an entry is a step of the ballot, or nothing.
LEMMA EntryIsBallot ==
  ASSUME NEW l, NEW e \in Bal!Record, NEW f, NEW s, NEW u, NEW rm, NEW srv, NEW st, NEW b,
         1 \in DOMAIN s, l = s[1], BallotInv(s, srv, st, b, e, u, rm), EntryRead(l, e, f, u, rm)
  PROVE  \/ f = e
         \/ e = Bal!Absent /\ f = Bal!New
         \/ e = Bal!New /\ f = [Bal!New EXCEPT !.vote = "COMMIT"]
         \/ e.vote = "UNKNOWN" /\ f = [e EXCEPT !.vote = "ABORT"]
         \/ /\ e # Bal!Absent /\ ~ e.xaException
            /\ \E v \in {"ABORT", e.vote} : f = [vote |-> v, xaException |-> TRUE]
<1>0. e = [vote |-> e.vote, xaException |-> e.xaException] /\ e.xaException \in BOOLEAN
  BY DEF Bal!Record
<1>1. CASE /\ Enlists(l, u, rm) /\ e = [vote |-> "none", xaException |-> FALSE]
           /\ f = [vote |-> "UNKNOWN", xaException |-> FALSE]
  BY <1>1 DEF Bal!Absent, Bal!New
<1>2. CASE /\ Votes(l, u, rm) /\ e.vote # "none"
           /\ f = [vote |-> VoteOf(l), xaException |-> e.xaException \/ l.type = "XAException"]
  <2>1. /\ l.type # "XAException" => e.vote = "UNKNOWN"
        /\ l.type = "XAException" \/ VoteFor(l) => e.xaException = FALSE
    BY <1>0, <1>2 DEF BallotInv, EntryOpen
  <2>2. CASE l.type = "XAException"
    <3>1. VoteOf(l) = "ABORT"
      BY <2>2 DEF VoteOf, VoteFor
    <3>2. f = [vote |-> "ABORT", xaException |-> TRUE]
      BY <1>2, <2>2, <3>1
    <3>3. e # Bal!Absent
      BY <1>2 DEF Bal!Absent
    <3> QED
      BY <2>1, <2>2, <3>2, <3>3
  <2>3. CASE VoteFor(l) /\ l.type # "XAException"
    <3>1. VoteOf(l) = "COMMIT" /\ e.vote = "UNKNOWN" /\ e.xaException = FALSE
      BY <2>1, <2>3 DEF VoteOf
    <3>2. e = Bal!New
      BY <1>0, <3>1 DEF Bal!New
    <3>3. f = [vote |-> "COMMIT", xaException |-> e.xaException]
      BY <1>2, <2>3, <3>1
    <3>4. f = [e EXCEPT !.vote = "COMMIT"]
      BY <1>0, <3>3
    <3> QED
      BY <3>2, <3>4, Zenon
  <2>4. CASE ~ VoteFor(l) /\ l.type # "XAException"
    <3>1. VoteOf(l) = "ABORT" /\ e.vote = "UNKNOWN"
      BY <2>1, <2>4 DEF VoteOf
    <3>2. f = [vote |-> "ABORT", xaException |-> e.xaException]
      BY <1>0, <1>2, <2>4, <3>1
    <3>3. f = [e EXCEPT !.vote = "ABORT"]
      BY <1>0, <3>2
    <3> QED
      BY <3>1, <3>3
  <2> QED
    BY <2>2, <2>3, <2>4
<1>3. CASE /\ Throws(l, u, rm) /\ e.vote # "none"
           /\ f = [vote |-> e.vote, xaException |-> TRUE]
  <2>1. e # Bal!Absent
    BY <1>3 DEF Bal!Absent
  <2>2. CASE e.xaException = TRUE
    BY <1>0, <1>3, <2>2
  <2>3. CASE e.xaException = FALSE
    BY <1>3, <2>1, <2>3
  <2> QED
    BY <1>0, <2>2, <2>3
<1> QED
  BY <1>1, <1>2, <1>3 DEF EntryRead

\* Every step is one of the ballot, or leaves it alone.
LEMMA NextIsBallotStep ==
  ASSUME IInv, VInv, BInv, [Next]_vars
  PROVE  [Bal!Next]_RecordNow
<1>1. ASSUME UNCHANGED dbVars PROVE UNCHANGED RecordNow
  BY <1>1 DEF dbVars, RecordNow, RecordOf, Participants
<1>2. CASE ReadLine
  <2>1. PICK l \in Rec!Line, u \in TxUid :
          /\ 1 \in DOMAIN log /\ l = log[1] /\ About(l, u) /\ LineInv(l, u) /\ Taken(l, u)
    BY <1>2, ReadLineTakes
  <2>2. ASSUME NEW v \in TxUid, v # u, NEW rm \in RM
        PROVE  RecordNow'[v][rm] = RecordNow[v][rm]
    BY <2>1, <2>2, RecordIsEntry DEF RecordNow, Taken, SameRow
  <2>3. ASSUME NEW rm \in RM
        PROVE  /\ RecordNow[u][rm] = Entry(tx[u].participants, rm)
               /\ RecordNow'[u][rm] = Entry(tx'[u].participants, rm)
    BY RecordIsEntry DEF RecordNow
  <2>4. CASE \A rm \in RM : Entry(tx'[u].participants, rm) = Entry(tx[u].participants, rm)
    <3>1. \A v \in TxUid, rm \in RM : RecordNow'[v][rm] = RecordNow[v][rm]
      BY <2>2, <2>3, <2>4
    <3> QED
      BY <3>1 DEF RecordNow
  <2>5. ASSUME NEW r \in RM,
               EntryRead(l, Entry(tx[u].participants, r), Entry(tx'[u].participants, r), u, r),
               \A rm \in RM : rm # r =>
                 Entry(tx'[u].participants, rm) = Entry(tx[u].participants, rm)
        PROVE  [Bal!Next]_RecordNow
    <3>1. PICK e, f, s, b : /\ e = Entry(tx[u].participants, r)
                            /\ f = Entry(tx'[u].participants, r)
                            /\ s = log /\ b = branch[u][r]
      OBVIOUS
    <3>2. e = RecordNow[u][r] /\ f = RecordNow'[u][r]
      BY <2>3, <3>1
    <3>3. RecordNow' = [RecordNow EXCEPT ![u][r] = f]
      <4>1. \A v \in TxUid, rm \in RM : v # u \/ rm # r => RecordNow'[v][rm] = RecordNow[v][rm]
        BY <2>2, <2>3, <2>5
      <4>2. /\ RecordNow = [v \in TxUid |-> [rm \in RM |-> RecordNow[v][rm]]]
            /\ RecordNow' = [v \in TxUid |-> [rm \in RM |-> RecordNow'[v][rm]]]
        BY DEF RecordNow
      <4> QED
        BY <3>2, <4>1, <4>2
    <3>4. e \in Bal!Record
      <4>1. tx[u].participants \in Seq(Rec!Participant)
        BY DEF IInv, TypeOK, Rec!TypeOK, Rec!Transaction
      <4> QED
        BY <3>1, <4>1, EntryType
    <3>5. BallotInv(s, service, stage[u], b, e, u, r) /\ EntryRead(l, e, f, u, r)
          /\ 1 \in DOMAIN s /\ l = s[1]
      BY <2>1, <2>5, <3>1 DEF BInv, RmBallot
    <3>6. CASE f = e
      <4>1. \A v \in TxUid, rm \in RM : RecordNow'[v][rm] = RecordNow[v][rm]
        BY <2>2, <2>3, <2>5, <3>2, <3>6
      <4> QED
        BY <4>1 DEF RecordNow
    <3>7. CASE e = Bal!Absent /\ f = Bal!New
      <4>1. Bal!Enlist(u, r)
        BY <3>2, <3>3, <3>7 DEF Bal!Enlist, Bal!Becomes, RecordNow
      <4> QED
        BY <4>1 DEF Bal!Next
    <3>8. CASE e = Bal!New /\ f = [Bal!New EXCEPT !.vote = "COMMIT"]
      <4>1. Bal!VoteFor(u, r)
        BY <3>2, <3>3, <3>8 DEF Bal!VoteFor, Bal!Becomes, RecordNow
      <4> QED
        BY <4>1 DEF Bal!Next, Bal!Answer
    <3>9. CASE e.vote = "UNKNOWN" /\ f = [e EXCEPT !.vote = "ABORT"]
      <4>1. Bal!VoteAgainst(u, r)
        BY <3>2, <3>3, <3>9 DEF Bal!VoteAgainst, Bal!Becomes, RecordNow
      <4> QED
        BY <4>1 DEF Bal!Next, Bal!Answer
    <3>10. CASE /\ e # Bal!Absent /\ ~ e.xaException
                /\ \E v \in {"ABORT", e.vote} : f = [vote |-> v, xaException |-> TRUE]
      <4>1. Bal!Throw(u, r)
        BY <3>2, <3>3, <3>10 DEF Bal!Throw, Bal!Becomes, RecordNow
      <4> QED
        BY <4>1 DEF Bal!Next, Bal!Answer
    <3> QED
      BY <3>4, <3>5, <3>6, <3>7, <3>8, <3>9, <3>10, EntryIsBallot
  <2> QED
    BY <2>1, <2>4, <2>5, EntriesRead
<1>3. CASE ~ ReadLine
  <2>1. UNCHANGED dbVars
    BY <1>3 DEF Next, Coordinator, Recover, BeginTx, EnlistResource, Rollback, StartOnePhase,
                AnswerOnePhase, StartPrepare, StartCommit, StartAbort, AskResource,
                ResourcePrepared, ResourceFailed, Finish, At, Redeploy, Crash, vars
  <2> QED
    BY <1>1, <2>1
<1> QED
  BY <1>2, <1>3

\* Whatever is lost of the log, and however far the monitor lags, what it
\* records of every resource is a Ballot: nothing of it is taken back.
THEOREM BallotImplemented == Spec => BallotSpec
<1>1. Init => Bal!Init
  <2> SUFFICES ASSUME Init PROVE Bal!Init
    OBVIOUS
  <2>1. ASSUME NEW u \in TxUid, NEW rm \in RM PROVE RecordOf(u, rm) = Bal!Absent
    <3>1. DOMAIN tx[u].participants = {}
      BY DEF Init, Rec!Init, Rec!NoTransaction
    <3> QED
      BY <3>1, EntryNone, RecordIsEntry DEF Bal!Absent
  <2> QED
    BY <2>1 DEF Bal!Init
<1>2. IInv /\ VInv /\ BInv /\ [Next]_vars => [Bal!Next]_RecordNow
  BY NextIsBallotStep
<1> QED
  BY <1>1, <1>2, BallotInvariance, PTL DEF Spec, BallotSpec, Bal!Spec, RecordNow

=============================================================================
