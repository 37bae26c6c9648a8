---------------------------- MODULE IssuesProofs -----------------------------
(***************************************************************************)
(* Theorems about Issues, for any finite sets of sessions and transactions  *)
(* and any objects: whatever a session shows has been parsed (ShownParsed), *)
(* the wedged transactions it shows are those the plugin's test is true of  *)
(* in the time of its request (ShownCurrent), and no object is parsed more often than there    *)
(* are sessions (TypeOK).                                                   *)
(*                                                                          *)
(* The objects are shared, and created and dropped by the scans of all      *)
(* sessions, so that the argument is about who still holds what: an object  *)
(* that a session holds (issues, latest) keeps its fields, since a scan     *)
(* puts a new issue only where nobody holds one.                            *)
(***************************************************************************)
EXTENDS Issues, FiniteSetTheorems, TLAPS

Parsed(o) == heap[o].body > 0

\* What the argument needs of the types.
DatabaseTyped ==
  old \subseteq Tx /\ prepared \subseteq Tx /\ blamed \in [RM -> Seq(Tx)]

\* What is wedged follows from the database.
LEMMA WedgedTyped == wedged \subseteq Tx
  BY DEF wedged

\* It stays as long as neither status nor age changes.
LEMMA WedgedStays ==
  ASSUME UNCHANGED <<old, prepared>>
  PROVE  UNCHANGED wedged
  BY DEF wedged

HeapTyped == heap \in [Ref -> Issue \cup {Unused}]

SessionsTyped ==
  /\ stage \in [Session -> Stage]
  /\ issues \in [Session -> SUBSET Ref]
  /\ latest \in [Session -> SUBSET Ref]
  /\ todo \in [Session -> SUBSET Ref]
  /\ parsing \in [Session -> [object : Ref \cup {NoRef}, body : Nat]]

PluginsTyped == found \in [Plugin -> SUBSET Ref]

\* No object that somebody still knows has been collected.
Alive == \A o \in InUse(found, issues, latest) : heap[o] \in Issue

\* A session has still to parse what it is about to show.
TodoLatest == \A s \in Session : todo[s] \subseteq latest[s]

\* A session parses what it is about to show, and only between fetch and answer.
ParsingHeld ==
  \A s \in Session :
    parsing[s].object # NoRef => parsing[s].object \in latest[s] /\ stage[s] = "parse"

\* What was taken off the list of a session has been parsed, but for the one
\* that is being parsed.
TakenParsed ==
  \A s \in Session : \A o \in latest[s] :
    o \in todo[s] \/ o = parsing[s].object \/ Parsed(o)

IInv ==
  /\ DatabaseTyped /\ HeapTyped /\ SessionsTyped /\ PluginsTyped
  /\ Alive /\ ParsingHeld /\ TodoLatest
  /\ ShownParsed /\ TakenParsed

-----------------------------------------------------------------------------
(* Objects.                                                                 *)

\* Objects that a session shows or is about to show.
Held == UNION (Range(issues) \cup Range(latest))

\* Each session's objects are held.
LEMMA HeldBySession ==
  ASSUME SessionsTyped, NEW s \in Session, NEW o \in issues[s] \cup latest[s]
  PROVE  o \in Held /\ o \in Ref
  <1>1. issues[s] \in Range(issues) /\ latest[s] \in Range(latest)
    BY DEF SessionsTyped, Range
  <1> QED BY <1>1 DEF Held, SessionsTyped

\* A scan changes no field of an object that a session holds, and every object
\* in use after it is an issue.
LEMMA FoundKeeps ==
  ASSUME HeapTyped, PluginsTyped, Alive,
         NEW p \in Plugin, NEW new \in SUBSET Issue, Found(p, new)
  PROVE  /\ HeapTyped' /\ PluginsTyped'
         /\ \A o \in InUse(found', issues, latest) \cap Ref : heap'[o] \in Issue
         /\ \A o \in Held \cap Ref : heap'[o] = heap[o]
  <1> DEFINE keep == Keep(p, new)
             fresh == {i \in new : Key(i) \notin Keys(keep)}
             InNew(at, o) == IF \E i \in fresh : at[i] = o
                             THEN CHOOSE i \in fresh : at[i] = o
                             ELSE heap[o]
             live == InUse(found', issues, latest)
  <1>1. PICK at \in [fresh -> Ref \ InUse(found, issues, latest)] :
          /\ found' = [found EXCEPT ![p] = keep \cup {at[i] : i \in fresh}]
          /\ heap' = [o \in Ref |-> IF o \in live
                                    THEN [x \in Ref |-> InNew(at, x)][o]
                                    ELSE Unused]
    BY DEF Found, Collect
  <1> HIDE DEF live
  <1>2. \A o \in Ref : heap'[o] = IF o \in live THEN InNew(at, o) ELSE Unused
    BY <1>1
  <1>3. ASSUME NEW o \in Ref
        PROVE  \/ InNew(at, o) \in Issue
               \/ (~ \E i \in fresh : at[i] = o) /\ InNew(at, o) = heap[o]
    <2>1. CASE \E i \in fresh : at[i] = o
      <3>1. (CHOOSE i \in fresh : at[i] = o) \in new
        BY <2>1
      <3> QED BY <2>1, <3>1
    <2> QED BY <2>1
  <1>4. HeapTyped'
    <2>1. \A o \in Ref : heap'[o] \in Issue \cup {Unused}
      BY <1>2, <1>3 DEF HeapTyped
    <2>2. heap' = [o \in Ref |-> heap'[o]]
      BY <1>1, <1>2
    <2> HIDE DEF InNew
    <2> QED BY <2>1, <2>2 DEF HeapTyped
  <1>5. PluginsTyped'
    <2>1. keep \subseteq Ref
      BY DEF Keep, PluginsTyped
    <2>2. {at[i] : i \in fresh} \subseteq Ref
      OBVIOUS
    <2> HIDE DEF keep, fresh
    <2> QED BY <1>1, <2>1, <2>2 DEF PluginsTyped
  <1>6. ASSUME NEW o \in InUse(found, issues, latest) \cap Ref, o \in live
        PROVE  heap'[o] = heap[o]
    <2>1. ~ \E i \in fresh : at[i] = o
      OBVIOUS
    <2> QED BY <1>2, <1>6, <2>1
  <1>7. ASSUME NEW o \in Held \cap Ref PROVE heap'[o] = heap[o]
    <2>1. o \in live /\ o \in InUse(found, issues, latest)
      BY DEF live, Held, InUse
    <2> QED BY <1>6, <2>1
  <1>8. ASSUME NEW o \in live \cap Ref PROVE heap'[o] \in Issue
    <2>1. CASE \E i \in fresh : at[i] = o
      BY <1>2, <1>3, <2>1
    <2>2. CASE ~ \E i \in fresh : at[i] = o
      <3>1. o \in InUse(found, issues, latest)
        <4>1. CASE o \in UNION (Range(issues) \cup Range(latest))
          BY <4>1 DEF InUse
        <4>2. CASE o \in UNION Range(found')
          <5>1. PICK q \in Plugin : o \in found'[q]
            BY <4>2, <1>5 DEF PluginsTyped, Range
          <5>2. o \in found[q]
            BY <5>1, <1>1, <2>2 DEF Keep, PluginsTyped
          <5> QED BY <5>2 DEF InUse, PluginsTyped, Range
        <4> QED BY <4>1, <4>2 DEF live, InUse
      <3> QED BY <1>6, <3>1 DEF Alive
    <2> QED BY <2>1, <2>2
  <1> QED BY <1>4, <1>5, <1>7, <1>8 DEF live

\* Objects in use are objects.
LEMMA UsedAreObjects ==
  ASSUME NEW f, NEW i, NEW l,
         f \in [Plugin -> SUBSET Ref], i \in [Session -> SUBSET Ref],
         l \in [Session -> SUBSET Ref]
  PROVE  InUse(f, i, l) \subseteq Ref
  BY DEF InUse, Range

\* A step of a scan by s preserves the invariant, if the sessions do nothing
\* but that s goes on to its next stage.
LEMMA ScanStep ==
  ASSUME IInv, NEW s \in Session, NEW g \in Stage, stage[s] # "parse",
         NEW p \in Plugin, NEW new \in SUBSET Issue, Found(p, new),
         stage' = [stage EXCEPT ![s] = g],
         UNCHANGED <<dbVars, beanVars>>
  PROVE  IInv'
  <1>1. /\ HeapTyped' /\ PluginsTyped'
        /\ \A o \in InUse(found', issues, latest) \cap Ref : heap'[o] \in Issue
        /\ \A o \in Held \cap Ref : heap'[o] = heap[o]
    BY FoundKeeps DEF IInv
  <1>2. SessionsTyped' /\ DatabaseTyped'
    BY DEF IInv, SessionsTyped, DatabaseTyped, beanVars, dbVars
  <1>3. ASSUME NEW t \in Session, NEW o \in issues[t] \cup latest[t]
        PROVE  heap'[o] = heap[o]
    BY <1>1, <1>3, HeldBySession DEF IInv
  <1>4. ShownParsed'
    BY <1>3 DEF IInv, ShownParsed, beanVars
  <1>5. TakenParsed'
    BY <1>3 DEF IInv, TakenParsed, Parsed, beanVars
  <1>6. Alive'
    <2>1. UNCHANGED <<issues, latest>>
      BY DEF beanVars
    <2>2. InUse(found', issues', latest') \subseteq Ref
      BY <1>1, <1>2, UsedAreObjects DEF PluginsTyped, SessionsTyped
    <2> QED BY <1>1, <2>1, <2>2 DEF Alive
  <1>7. ParsingHeld' /\ TodoLatest'
    BY DEF IInv, ParsingHeld, TodoLatest, SessionsTyped, beanVars
  <1> QED BY <1>1, <1>2, <1>4, <1>5, <1>6, <1>7 DEF IInv

-----------------------------------------------------------------------------
(* The actions.                                                             *)

LEMMA InitIInv ==
  ASSUME Init
  PROVE  IInv
  <1>1. DatabaseTyped /\ HeapTyped /\ SessionsTyped /\ PluginsTyped
    BY DEF Init, DatabaseTyped, HeapTyped, SessionsTyped, PluginsTyped, Stage
  <1>2. InUse(found, issues, latest) = {}
    BY DEF Init, InUse, Range
  <1> QED BY <1>1, <1>2 DEF Init, IInv, Alive, ParsingHeld, TodoLatest, ShownParsed,
                           TakenParsed

LEMMA FindWedgedStep ==
  ASSUME IInv, NEW s \in Session, FindWedged(s)
  PROVE  IInv'
  <1>1. WedgedIssues \in SUBSET Issue
    BY WedgedTyped DEF WedgedIssues, Issue, Plugin
  <1>2. /\ stage[s] = "scan" /\ Found("WedgedTx", WedgedIssues)
        /\ stage' = [stage EXCEPT ![s] = "count"]
        /\ UNCHANGED <<dbVars, beanVars>>
    BY DEF FindWedged
  <1>3. "WedgedTx" \in Plugin /\ "count" \in Stage /\ stage[s] # "parse"
    BY <1>2 DEF Plugin, Stage
  <1> QED BY <1>1, <1>2, <1>3, ScanStep

\* The issues of RMRollbackPlugin name a transaction that is on record.
LEMMA RollbackIssuesTyped ==
  ASSUME DatabaseTyped
  PROVE  RollbackIssues \subseteq Issue
  <1> SUFFICES ASSUME NEW m \in RM, Len(blamed[m]) > MIN_NUMBER
               PROVE  [title |-> "RMRollback", cause |-> blamed[m][1],
                       rm |-> m, body |-> 0] \in Issue
    BY DEF RollbackIssues
  <1>1. blamed[m] \in Seq(Tx) /\ MIN_NUMBER \in Nat
    BY IssuesAssumption DEF DatabaseTyped
  <1>2. blamed[m][1] \in Tx
    BY <1>1
  <1> QED BY <1>2 DEF Issue, Plugin

\* The second half of a scan
LEMMA FindRollbackStep ==
  ASSUME IInv, NEW s \in Session, FindRollback(s)
  PROVE  IInv'
  <1>1. PICK new \in SUBSET RollbackIssues : Found("RMRollback", new)
    BY DEF FindRollback
  <1>2. RollbackIssues \subseteq Issue
    BY RollbackIssuesTyped DEF IInv
  <1>3. /\ stage[s] = "compare"
        /\ stage' = [stage EXCEPT ![s] = "fetch"]
        /\ UNCHANGED <<dbVars, beanVars>>
    BY DEF FindRollback
  <1>4. "RMRollback" \in Plugin /\ "fetch" \in Stage /\ stage[s] # "parse"
    BY <1>3 DEF Plugin, Stage
  <1> QED BY <1>1, <1>2, <1>3, <1>4, ScanStep

\* The session keeps objects it has; none of the new ones is taken off yet.
LEMMA FetchStep ==
  ASSUME IInv, NEW s \in Session, Fetch(s)
  PROVE  IInv'
  <1> DEFINE all == UNION {found[p] : p \in Plugin}
             keep == Retained(s, all)
             new == {o \in all : Key(heap[o]) \notin Keys(keep)}
             live == InUse(found, issues', latest')
  <1>1. /\ stage[s] = "fetch"
        /\ issues' = [issues EXCEPT ![s] = keep]
        /\ latest' = [latest EXCEPT ![s] = new]
        /\ todo' = [todo EXCEPT ![s] = new]
        /\ stage' = [stage EXCEPT ![s] = "parse"]
        /\ heap' = Collect(heap, live)
        /\ UNCHANGED <<dbVars, found, parsing>>
    BY DEF Fetch, pluginVars
  <1>2. keep \subseteq issues[s]
    BY DEF Retained
  <1>3. new \subseteq Ref /\ new \subseteq UNION Range(found)
    BY DEF IInv, PluginsTyped, Range
  <1> HIDE DEF keep, new, live
  <1>4. SessionsTyped' /\ DatabaseTyped' /\ PluginsTyped'
    BY <1>1, <1>2, <1>3
       DEF IInv, SessionsTyped, Stage, PluginsTyped, DatabaseTyped, dbVars
  <1>5. HeapTyped'
    BY <1>1 DEF IInv, HeapTyped, Collect
  <1>6. live \subseteq Ref /\ \A o \in live : heap'[o] = heap[o]
    <2>1. live \subseteq Ref
      BY <1>1, <1>4, UsedAreObjects DEF live, PluginsTyped, SessionsTyped
    <2> QED BY <1>1, <2>1 DEF Collect
  <1>7. live \subseteq InUse(found, issues, latest)
    <2> SUFFICES ASSUME NEW o \in live, o \notin UNION Range(found)
                 PROVE  o \in InUse(found, issues, latest)
      BY DEF InUse
    <2>1. PICK t \in Session : o \in issues'[t] \cup latest'[t]
      BY <1>4 DEF live, InUse, SessionsTyped, Range
    <2>2. o \in issues[t] \cup latest[t]
      BY <1>1, <1>2, <1>3, <2>1 DEF IInv, SessionsTyped
    <2> QED BY <2>2, HeldBySession DEF IInv, Held, InUse
  <1>8. Alive'
    BY <1>1, <1>6, <1>7 DEF IInv, Alive, live
  <1>9. ASSUME NEW t \in Session, NEW o \in issues'[t] \cup latest'[t]
        PROVE  heap'[o] = heap[o]
    <2>1. issues'[t] \in Range(issues') /\ latest'[t] \in Range(latest')
      BY <1>4 DEF SessionsTyped, Range
    <2> QED BY <1>6, <2>1 DEF live, InUse
  <1>10. ShownParsed'
    BY <1>1, <1>2, <1>9 DEF IInv, ShownParsed, SessionsTyped
  <1>11. TakenParsed'
    BY <1>1, <1>9 DEF IInv, TakenParsed, Parsed, SessionsTyped
  <1>12. ParsingHeld' /\ TodoLatest'
    BY <1>1 DEF IInv, ParsingHeld, TodoLatest, SessionsTyped
  <1> QED BY <1>4, <1>5, <1>8, <1>10, <1>11, <1>12 DEF IInv

LEMMA ParseReadStep ==
  ASSUME IInv, NEW s \in Session, NEW o \in Ref, ParseRead(s, o)
  PROVE  IInv'
  <1>1. /\ stage[s] = "parse" /\ parsing[s].object = NoRef /\ o \in todo[s]
        /\ parsing' = [parsing EXCEPT ![s] = [object |-> o, body |-> heap[o].body]]
        /\ todo' = [todo EXCEPT ![s] = @ \ {o}]
        /\ UNCHANGED <<dbVars, heap, found, stage, latest, issues>>
    BY DEF ParseRead, pluginVars
  <1>2. heap[o].body \in Nat
    BY DEF IInv, HeapTyped, Issue, Unused
  <1>3. SessionsTyped'
    BY <1>1, <1>2 DEF IInv, SessionsTyped
  <1>4. DatabaseTyped' /\ HeapTyped' /\ PluginsTyped' /\ ShownParsed' /\ Alive'
    BY <1>1 DEF IInv, DatabaseTyped, dbVars, HeapTyped, PluginsTyped, ShownParsed, Alive
  <1>5. o \in latest[s]
    BY <1>1 DEF IInv, TodoLatest
  <1>6. ParsingHeld'
    BY <1>1, <1>5 DEF IInv, ParsingHeld, SessionsTyped
  <1>7. TakenParsed'
    <2> SUFFICES ASSUME NEW t \in Session, NEW x \in latest[t]
                 PROVE  x \in todo'[t] \/ x = parsing'[t].object \/ Parsed(x)
      BY <1>1 DEF TakenParsed, Parsed
    <2>1. x \in Ref /\ NoRef \notin Ref
      BY IssuesAssumption DEF IInv, SessionsTyped
    <2>2. x \in todo[t] \/ x = parsing[t].object \/ Parsed(x)
      BY DEF IInv, TakenParsed
    <2>3. CASE t = s
      BY <1>1, <2>1, <2>2, <2>3 DEF IInv, SessionsTyped
    <2>4. CASE t # s
      BY <1>1, <2>2, <2>4 DEF IInv, SessionsTyped
    <2> QED BY <2>3, <2>4
  <1>8. TodoLatest'
    BY <1>1 DEF IInv, TodoLatest, SessionsTyped
  <1> QED BY <1>3, <1>4, <1>6, <1>7, <1>8 DEF IInv

\* Writing a body only ever adds to what is parsed.
LEMMA ParseWriteStep ==
  ASSUME IInv, NEW s \in Session, ParseWrite(s)
  PROVE  IInv'
  <1> DEFINE w == parsing[s].object
             written == [heap[w] EXCEPT !.body = parsing[s].body + 1]
  <1>1. /\ w # NoRef
        /\ heap' = [heap EXCEPT ![w] = written]
        /\ parsing' = [parsing EXCEPT ![s] = [object |-> NoRef, body |-> 0]]
        /\ UNCHANGED <<dbVars, found, stage, latest, todo, issues>>
    BY DEF ParseWrite, pluginVars
  <1>2. w \in latest[s] /\ w \in Ref
    BY <1>1 DEF IInv, ParsingHeld, SessionsTyped
  <1>3. heap[w] \in Issue
    BY <1>2, HeldBySession DEF IInv, Alive, Held, InUse
  <1>4. written \in Issue /\ written.body > 0
    <2>1. parsing[s].body + 1 \in Nat /\ parsing[s].body + 1 > 0
      BY DEF IInv, SessionsTyped
    <2> QED BY <1>3, <2>1 DEF Issue
  <1> HIDE DEF written
  <1>5. HeapTyped'
    BY <1>1, <1>2, <1>4 DEF IInv, HeapTyped
  <1>6. ASSUME NEW o \in Ref, Parsed(o) \/ o = w PROVE Parsed(o)'
    BY <1>1, <1>2, <1>4, <1>6 DEF IInv, HeapTyped, Parsed
  <1>7. SessionsTyped' /\ PluginsTyped' /\ DatabaseTyped' /\ ParsingHeld' /\ TodoLatest'
    BY <1>1 DEF IInv, SessionsTyped, PluginsTyped, DatabaseTyped, dbVars, ParsingHeld,
                TodoLatest
  <1>8. Alive'
    <2>1. InUse(found, issues, latest) \subseteq Ref
      BY UsedAreObjects DEF IInv, PluginsTyped, SessionsTyped
    <2> QED BY <1>1, <1>2, <1>4, <2>1 DEF IInv, Alive, HeapTyped
  <1>9. ShownParsed'
    <2> SUFFICES ASSUME NEW t \in Session, NEW o \in issues[t] PROVE Parsed(o)'
      BY <1>1 DEF ShownParsed, Parsed
    <2> QED BY <1>6 DEF IInv, ShownParsed, Parsed, SessionsTyped
  <1>10. TakenParsed'
    <2> SUFFICES ASSUME NEW t \in Session, NEW o \in latest[t]
                 PROVE  o \in todo[t] \/ o = parsing'[t].object \/ Parsed(o)'
      BY <1>1 DEF TakenParsed
    <2>1. o \in todo[t] \/ o = parsing[t].object \/ Parsed(o)
      BY DEF IInv, TakenParsed
    <2>2. o \in Ref
      BY DEF IInv, SessionsTyped
    <2>3. CASE t = s
      BY <1>6, <2>1, <2>2, <2>3
    <2>4. CASE t # s
      BY <1>1, <1>6, <2>1, <2>2, <2>4 DEF IInv, SessionsTyped
    <2> QED BY <2>3, <2>4
  <1> QED BY <1>5, <1>7, <1>8, <1>9, <1>10 DEF IInv

\* Nothing is left to be parsed when the new objects come to be shown.
LEMMA AnswerStep ==
  ASSUME IInv, NEW s \in Session, Answer(s)
  PROVE  IInv'
  <1>1. /\ parsing[s].object = NoRef /\ todo[s] = {}
        /\ issues' = [issues EXCEPT ![s] = @ \cup latest[s]]
        /\ latest' = [latest EXCEPT ![s] = {}]
        /\ stage' = [stage EXCEPT ![s] = "idle"]
        /\ UNCHANGED <<dbVars, heap, found, todo, parsing>>
    BY DEF Answer, pluginVars
  <1>2. SessionsTyped'
    BY <1>1 DEF IInv, SessionsTyped, Stage
  <1>3. \A o \in latest[s] : heap[o].body > 0
    BY <1>1, IssuesAssumption DEF IInv, TakenParsed, Parsed, SessionsTyped
  <1>4. ShownParsed'
    BY <1>1, <1>3 DEF IInv, ShownParsed, SessionsTyped
  <1>5. TakenParsed' /\ ParsingHeld' /\ TodoLatest'
    BY <1>1 DEF IInv, TakenParsed, Parsed, ParsingHeld, TodoLatest, SessionsTyped
  <1>6. HeapTyped' /\ PluginsTyped' /\ DatabaseTyped'
    BY <1>1 DEF IInv, HeapTyped, PluginsTyped, DatabaseTyped, dbVars
  <1>7. InUse(found', issues', latest') \subseteq InUse(found, issues, latest)
    <2> SUFFICES ASSUME NEW o \in InUse(found', issues', latest'),
                        o \notin UNION Range(found)
                 PROVE  o \in InUse(found, issues, latest)
      BY DEF InUse
    <2>1. PICK t \in Session : o \in issues'[t] \cup latest'[t]
      BY <1>1, <1>2 DEF InUse, SessionsTyped, Range
    <2>2. o \in issues[t] \cup latest[t]
      BY <1>1, <2>1 DEF IInv, SessionsTyped
    <2> QED BY <2>2, HeldBySession DEF IInv, Held, InUse
  <1>8. Alive'
    BY <1>1, <1>7 DEF IInv, Alive
  <1> QED BY <1>2, <1>4, <1>5, <1>6, <1>8 DEF IInv

\* Steps that touch neither objects nor what sessions hold.
LEMMA OtherStep ==
  ASSUME IInv, UNCHANGED <<heap, found, beanVars>>, DatabaseTyped',
         stage' \in [Session -> Stage],
         \A s \in Session : stage[s] = "parse" => stage'[s] = "parse"
  PROVE  IInv'
  BY DEF IInv, HeapTyped, SessionsTyped, PluginsTyped, Alive, ParsingHeld,
         TodoLatest, ShownParsed, TakenParsed, Parsed, beanVars

\* Time and the monitors keep the database typed.
LEMMA ChangeTyped ==
  ASSUME DatabaseTyped, NEW t \in Tx, Prepare(t) \/ LeavePrepare(t) \/ Age(t)
  PROVE  DatabaseTyped'
  BY DEF DatabaseTyped, Prepare, LeavePrepare, Age, Change

\* What the monitors write is typed.
LEMMA MonitorsStep ==
  ASSUME IInv, Monitors
  PROVE  IInv'
  <1>1. UNCHANGED <<heap, found, beanVars, stage>>
    BY DEF Monitors, Prepare, LeavePrepare, Age, Change, Blame, More, pluginVars
  <1>2. DatabaseTyped'
    <2>1. CASE \E t \in Tx : Prepare(t) \/ LeavePrepare(t) \/ Age(t)
      BY <2>1, ChangeTyped DEF IInv
    <2>2. ASSUME NEW m \in RM, NEW t \in Tx, Blame(m, t) PROVE DatabaseTyped'
      BY <2>2 DEF IInv, DatabaseTyped, Blame
    <2>3. CASE More
      BY <2>3 DEF IInv, DatabaseTyped, More
    <2> QED BY <2>1, <2>2, <2>3 DEF Monitors
  <1> QED BY <1>1, <1>2, OtherStep DEF IInv, SessionsTyped

\* The invariant is inductive.
LEMMA NextIInv == IInv /\ [Next]_vars => IInv'
  <1> SUFFICES ASSUME IInv, [Next]_vars PROVE IInv'
    OBVIOUS
  <1> USE DEF IInv, SessionsTyped, DatabaseTyped, dbVars
  <1>1. ASSUME NEW s \in Session, Request(s) PROVE IInv'
    BY <1>1, OtherStep DEF Request, pluginVars, Stage
  <1>2. ASSUME NEW s \in Session, CountTx(s) PROVE IInv'
    BY <1>2, OtherStep DEF CountTx, Stage
  <1>3. CASE UNCHANGED vars
    BY <1>3, OtherStep DEF vars, pluginVars
  <1>4. ASSUME NEW s \in Session, Serve(s) PROVE IInv'
    <2> HIDE DEF IInv
    <2> QED BY <1>2, <1>4, FindWedgedStep, FindRollbackStep, FetchStep, ParseReadStep,
               ParseWriteStep, AnswerStep DEF Serve
  <1> HIDE DEF IInv
  <1> QED BY <1>1, <1>3, <1>4, MonitorsStep DEF Next

\* Whatever sessions scan, fetch and parse, and however often issues go and
\* come back, no session shows an issue that was not parsed
\* (IssueParserBean:42-54, RMRollbackPlugin:62-65).
THEOREM ShownParsedCorrect == Spec => []ShownParsed
  <1>1. IInv => ShownParsed
    BY DEF IInv
  <1> QED BY InitIInv, NextIInv, <1>1, PTL DEF Spec

-----------------------------------------------------------------------------
(* What a session is told: the causes of the issues of WedgedTxPlugin lie    *)
(* between the transactions that were wedged all the time and those that     *)
(* were at some time, from the scan on, wherever the request has come.       *)

WedgedOf(objects) ==
  {heap[o].cause : o \in {x \in objects : heap[x].title = "WedgedTx"}}

Between(s, told) == due[s].always \subseteq told /\ told \subseteq due[s].ever

DueTyped == due \in [Session -> [ever : SUBSET Tx, always : SUBSET Tx]]

FoundTitled == \A p \in Plugin : \A o \in found[p] : heap[o].title = p

WedgedDue == \A s \in Session : stage[s] # "idle" => Between(s, wedged)

\* A scan of any session makes the plugin's issues true of this moment, which
\* is in the time of every request that is being answered.
ScannedTrue ==
  \A s \in Session :
    stage[s] \in {"count", "compare", "fetch"} => Between(s, WedgedOf(found["WedgedTx"]))

HeldTrue ==
  \A s \in Session :
    /\ stage[s] = "parse" => Between(s, WedgedOf(issues[s] \cup latest[s]))
    /\ stage[s] = "idle" => Between(s, WedgedOf(issues[s]))

DInv == DueTyped /\ FoundTitled /\ WedgedDue /\ ScannedTrue /\ HeldTrue

-----------------------------------------------------------------------------
(* What a step does to objects that are known before and after it.          *)

\* Objects as they are known before a step.
Used == InUse(found, issues, latest)

\* What a plugin finds becomes its issues, as new objects where it has none.
LEMMA FoundStep ==
  ASSUME HeapTyped, PluginsTyped, SessionsTyped, Alive,
         NEW p \in Plugin, NEW new \in SUBSET Issue, Found(p, new),
         UNCHANGED <<issues, latest>>
  PROVE  /\ \A q \in Plugin \ {p} : found'[q] = found[q]
         /\ \A o \in Used : o \in Used' => heap'[o] = heap[o]
         /\ \A o \in found'[p] : \E i \in new : Key(heap'[o]) = Key(i)
         /\ \A i \in new : \E o \in found'[p] : Key(heap'[o]) = Key(i)
         /\ \A o \in found'[p] : o \in found[p] \/ (o \notin Used /\ heap'[o] \in new)
         /\ \A o \in Ref : o \notin Used' => heap'[o] = Unused
  <1> DEFINE keep == Keep(p, new)
             fresh == {i \in new : Key(i) \notin Keys(keep)}
             live == InUse(found', issues, latest)
  <1>1. PICK at \in [fresh -> Ref \ InUse(found, issues, latest)] :
          /\ \A i, j \in fresh : at[i] = at[j] => i = j
          /\ found' = [found EXCEPT ![p] = keep \cup {at[i] : i \in fresh}]
          /\ heap' = Collect([o \in Ref |->
                                IF \E i \in fresh : at[i] = o
                                THEN CHOOSE i \in fresh : at[i] = o
                                ELSE heap[o]], live)
    BY DEF Found
  <1>2. Used' = live
    BY DEF Used
  <1> HIDE DEF live
  <1>3. \A o \in Ref : heap'[o] = IF o \in live
                                  THEN IF \E i \in fresh : at[i] = o
                                       THEN CHOOSE i \in fresh : at[i] = o
                                       ELSE heap[o]
                                  ELSE Unused
    BY <1>1 DEF Collect
  <1>4. /\ found'[p] = keep \cup {at[i] : i \in fresh}
        /\ \A q \in Plugin \ {p} : found'[q] = found[q]
    BY <1>1 DEF PluginsTyped
  <1>5. keep \subseteq found[p] /\ found[p] \subseteq Ref
    BY DEF Keep, PluginsTyped
  <1>6. found'[p] \subseteq live /\ found[p] \subseteq Used
    BY <1>1, <1>4 DEF live, Used, InUse, Range, PluginsTyped
  <1>7. Used \subseteq Ref
    BY UsedAreObjects DEF Used, PluginsTyped, SessionsTyped
  <1>8. ASSUME NEW o \in Used, o \in live PROVE heap'[o] = heap[o]
    <2>1. ~ \E i \in fresh : at[i] = o
      BY DEF Used
    <2> QED BY <1>3, <1>7, <1>8, <2>1
  <1>9. ASSUME NEW i \in fresh PROVE heap'[at[i]] = i /\ at[i] \notin Used
    <2>1. at[i] \in Ref /\ at[i] \in live /\ at[i] \notin Used
      BY <1>4, <1>6 DEF Used
    <2>2. (CHOOSE j \in fresh : at[j] = at[i]) = i
      BY <1>1
    <2> QED BY <1>3, <2>1, <2>2
  <1>10. ASSUME NEW o \in keep PROVE heap'[o] = heap[o]
    <2>1. o \in found'[p]
      BY <1>4
    <2>2. o \in Used /\ o \in live
      BY <1>5, <1>6, <2>1
    <2> QED BY <1>8, <2>2
  <1>11. \A o \in found'[p] : \E i \in new : Key(heap'[o]) = Key(i)
    <2>1. ASSUME NEW o \in keep PROVE \E i \in new : Key(heap'[o]) = Key(i)
      BY <1>10 DEF Keep
    <2> QED BY <1>4, <1>9, <2>1
  <1>12. \A i \in new : \E o \in found'[p] : Key(heap'[o]) = Key(i)
    <2> TAKE i \in new
    <2>1. CASE i \in fresh
      BY <1>4, <1>9, <2>1
    <2>2. CASE i \notin fresh
      <3>1. PICK o \in keep : Key(heap[o]) = Key(i)
        BY <2>2 DEF Keys
      <3>2. Key(heap'[o]) = Key(i) /\ o \in found'[p]
        BY <1>4, <1>10, <3>1
      <3> QED BY <3>2
    <2> QED BY <2>1, <2>2
  <1>13. \A o \in found'[p] : o \in found[p] \/ (o \notin Used /\ heap'[o] \in new)
    BY <1>4, <1>5, <1>9
  <1>14. \A o \in Ref : o \notin live => heap'[o] = Unused
    BY <1>3
  <1> HIDE DEF keep, fresh
  <1> QED BY <1>2, <1>4, <1>8, <1>11, <1>12, <1>13, <1>14

\* The objects of a session, and those that a plugin found, are known.
LEMMA UsedBy ==
  ASSUME NEW f, NEW i, NEW l,
         f \in [Plugin -> SUBSET Ref], i \in [Session -> SUBSET Ref],
         l \in [Session -> SUBSET Ref]
  PROVE  /\ \A s \in Session : i[s] \cup l[s] \subseteq InUse(f, i, l)
         /\ \A p \in Plugin : f[p] \subseteq InUse(f, i, l)
         /\ InUse(f, i, l) \subseteq Ref
  <1>1. \A s \in Session : i[s] \in Range(i) /\ l[s] \in Range(l)
    BY DEF Range
  <1>2. \A p \in Plugin : f[p] \in Range(f)
    BY DEF Range
  <1> QED BY <1>1, <1>2, UsedAreObjects DEF InUse

\* The same of the state before a step, and of the one after it.
LEMMA UsedNow ==
  ASSUME IInv
  PROVE  /\ \A s \in Session : issues[s] \cup latest[s] \subseteq Used
         /\ \A p \in Plugin : found[p] \subseteq Used
         /\ Used \subseteq Ref
  BY UsedBy DEF IInv, Used, PluginsTyped, SessionsTyped

LEMMA UsedNext ==
  ASSUME IInv'
  PROVE  /\ \A s \in Session : issues'[s] \cup latest'[s] \subseteq Used'
         /\ \A p \in Plugin : found'[p] \subseteq Used'
         /\ Used' \subseteq Ref
  BY UsedBy DEF IInv, Used, PluginsTyped, SessionsTyped

\* What the objects tell does not change as long as their fields do not.
LEMMA WedgedSame ==
  ASSUME NEW objects, \A o \in objects : /\ heap'[o].title = heap[o].title
                                         /\ heap'[o].cause = heap[o].cause
  PROVE  {heap'[o].cause : o \in {x \in objects : heap'[x].title = "WedgedTx"}}
           = WedgedOf(objects)
  BY DEF WedgedOf

\* Objects keep title and cause through a step, but those that a scan creates
\* and those that nobody knows after it.
KeysKept ==
  \A o \in Used : o \in Used' => /\ heap'[o].title = heap[o].title
                                 /\ heap'[o].cause = heap[o].cause

LEMMA StepKeepsKeys ==
  ASSUME IInv, [Next]_vars
  PROVE  KeysKept
  <1>1. Used \subseteq Ref
    BY UsedNow
  <1>2. ASSUME UNCHANGED heap PROVE KeysKept
    BY <1>2 DEF KeysKept
  <1>3. ASSUME NEW s \in Session, FindWedged(s) PROVE KeysKept
    <2>1. WedgedIssues \in SUBSET Issue
      BY WedgedTyped DEF WedgedIssues, Issue, Plugin
    <2>2. Found("WedgedTx", WedgedIssues) /\ UNCHANGED <<issues, latest>>
      BY <1>3 DEF FindWedged, beanVars
    <2>3. "WedgedTx" \in Plugin
      BY DEF Plugin
    <2>4. \A o \in Used : o \in Used' => heap'[o] = heap[o]
      BY <2>1, <2>2, <2>3, FoundStep DEF IInv
    <2> QED BY <2>4 DEF KeysKept
  <1>4. ASSUME NEW s \in Session, FindRollback(s) PROVE KeysKept
    <2>1. PICK new \in SUBSET RollbackIssues : Found("RMRollback", new)
      BY <1>4 DEF FindRollback
    <2>2. UNCHANGED <<issues, latest>>
      BY <1>4 DEF FindRollback, beanVars
    <2>3. "RMRollback" \in Plugin /\ new \in SUBSET Issue
      BY <2>1, RollbackIssuesTyped DEF IInv, Plugin
    <2>4. \A o \in Used : o \in Used' => heap'[o] = heap[o]
      BY <2>1, <2>2, <2>3, FoundStep DEF IInv
    <2> QED BY <2>4 DEF KeysKept
  <1>5. ASSUME NEW s \in Session, Fetch(s) PROVE KeysKept
    <2>1. heap' = Collect(heap, Used')
      BY <1>5 DEF Fetch, Used, pluginVars
    <2> QED BY <1>1, <2>1 DEF KeysKept, Collect
  <1>6. ASSUME NEW s \in Session, ParseWrite(s) PROVE KeysKept
    <2>1. /\ parsing[s].object \in latest[s]
          /\ heap' = [heap EXCEPT ![parsing[s].object].body = parsing[s].body + 1]
      BY <1>6 DEF ParseWrite, IInv, ParsingHeld
    <2>2. parsing[s].object \in Used /\ heap[parsing[s].object] \in Issue
      BY <2>1, UsedNow DEF IInv, Alive, Used
    <2> QED BY <1>1, <2>1, <2>2 DEF KeysKept, IInv, HeapTyped, Issue
  <1>7. ASSUME NEW s \in Session, Request(s) \/ CountTx(s) \/ Answer(s) PROVE UNCHANGED heap
    BY <1>7 DEF Request, CountTx, Answer
  <1>8. ASSUME NEW s \in Session, NEW o \in Ref, ParseRead(s, o) PROVE UNCHANGED heap
    BY <1>8 DEF ParseRead
  <1>9. ASSUME Monitors PROVE UNCHANGED heap
    BY <1>9 DEF Monitors, Prepare, LeavePrepare, Age, Change, Blame, More
  <1>10. ASSUME UNCHANGED vars PROVE UNCHANGED heap
    BY <1>10 DEF vars
  <1> QED BY <1>2, <1>3, <1>4, <1>5, <1>6, <1>7, <1>8, <1>9, <1>10 DEF Next, Serve

-----------------------------------------------------------------------------
(* The actions, as far as sessions are told of wedged transactions.         *)

\* What a session holds before and after a step tells the same.
LEMMA HeldTells ==
  ASSUME IInv, [Next]_vars, NEW objects, objects \subseteq Used, objects \subseteq Used'
  PROVE  {heap'[o].cause : o \in {x \in objects : heap'[x].title = "WedgedTx"}}
           = WedgedOf(objects)
  BY StepKeepsKeys, WedgedSame DEF KeysKept

LEMMA InitDInv ==
  ASSUME Init
  PROVE  DInv
  BY DEF Init, DInv, DueTyped, FoundTitled, WedgedDue, ScannedTrue, HeldTrue, Between,
         WedgedOf, Plugin

\* A session that neither moves nor is told of by a step: due, its stage and
\* what it holds are the same.
LEMMA HeldTrueStays ==
  ASSUME IInv, [Next]_vars, DInv, NEW s \in Session,
         due'[s] = due[s], stage'[s] = stage[s],
         issues'[s] = issues[s], latest'[s] = latest[s]
  PROVE  /\ stage'[s] = "parse" => Between(s, WedgedOf(issues[s] \cup latest[s]))'
         /\ stage'[s] = "idle" => Between(s, WedgedOf(issues[s]))'
  <1>1. IInv'
    BY NextIInv
  <1>2. issues[s] \cup latest[s] \subseteq Used /\ issues'[s] \cup latest'[s] \subseteq Used'
    BY <1>1, UsedNow, UsedNext
  <1>3. issues[s] \cup latest[s] \subseteq Used' /\ issues[s] \subseteq Used
    BY <1>2
  <1>4. /\ WedgedOf(issues[s] \cup latest[s])' = WedgedOf(issues[s] \cup latest[s])
        /\ WedgedOf(issues[s])' = WedgedOf(issues[s])
    BY <1>2, <1>3, HeldTells DEF WedgedOf
  <1> QED BY <1>4 DEF DInv, HeldTrue, Between

\* A scan makes the objects of a plugin anew, the ones of the other one stay.
LEMMA ScanTitled ==
  ASSUME IInv, [Next]_vars, DInv, NEW p \in Plugin, NEW new \in SUBSET Issue,
         Found(p, new), \A i \in new : i.title = p,
         UNCHANGED <<issues, latest>>
  PROVE  /\ FoundTitled'
         /\ {heap'[o].cause : o \in found'[p]} = {i.cause : i \in new}
         /\ \A q \in Plugin \ {p} : \A o \in found'[q] : o \in found[q] /\ heap'[o] = heap[o]
  <1>1. IInv'
    BY NextIInv
  <1>2. /\ \A q \in Plugin \ {p} : found'[q] = found[q]
        /\ \A o \in Used : o \in Used' => heap'[o] = heap[o]
        /\ \A o \in found'[p] : \E i \in new : Key(heap'[o]) = Key(i)
        /\ \A i \in new : \E o \in found'[p] : Key(heap'[o]) = Key(i)
    BY FoundStep DEF IInv
  <1>3. \A q \in Plugin : found[q] \subseteq Used /\ found'[q] \subseteq Used'
    BY <1>1, UsedNow, UsedNext
  <1>4. \A q \in Plugin \ {p} : \A o \in found'[q] : o \in found[q] /\ heap'[o] = heap[o]
    BY <1>2, <1>3
  <1>5. \A o \in found'[p] : heap'[o].title = p
    BY <1>2 DEF Key
  <1>6. FoundTitled'
    BY <1>4, <1>5 DEF DInv, FoundTitled
  <1>7. {heap'[o].cause : o \in found'[p]} = {i.cause : i \in new}
    <2>1. /\ \A o \in found'[p] : \E i \in new : heap'[o].cause = i.cause
          /\ \A i \in new : \E o \in found'[p] : heap'[o].cause = i.cause
      BY <1>2 DEF Key
    <2> QED BY <2>1
  <1> QED BY <1>4, <1>6, <1>7

\* After the first half of a scan the plugin's issues are the wedged transactions.
LEMMA FindWedgedTells ==
  ASSUME IInv, [Next]_vars, DInv, NEW s \in Session, FindWedged(s)
  PROVE  DInv'
  <1>1. /\ stage[s] = "scan" /\ Found("WedgedTx", WedgedIssues)
        /\ stage' = [stage EXCEPT ![s] = "count"]
        /\ UNCHANGED <<wedged, issues, latest, due>>
    BY WedgedStays DEF FindWedged, dbVars, beanVars
  <1>2. WedgedIssues \in SUBSET Issue /\ \A i \in WedgedIssues : i.title = "WedgedTx"
    BY WedgedTyped DEF WedgedIssues, Issue, Plugin
  <1>3. "WedgedTx" \in Plugin
    BY DEF Plugin
  <1>4. FoundTitled' /\ {heap'[o].cause : o \in found'["WedgedTx"]} = wedged
    <2>1. {i.cause : i \in WedgedIssues} = wedged
      <3>1. \A i \in WedgedIssues : i.cause \in wedged
        BY DEF WedgedIssues
      <3>2. ASSUME NEW t \in wedged PROVE \E i \in WedgedIssues : i.cause = t
        <4> DEFINE i == [title |-> "WedgedTx", cause |-> t, rm |-> NoRM, body |-> 0]
        <4>1. i \in WedgedIssues /\ i.cause = t
          BY DEF WedgedIssues
        <4> QED BY <4>1
      <3> QED BY <3>1, <3>2
    <2> QED BY <1>1, <1>2, <1>3, <2>1, ScanTitled
  <1>5. WedgedOf(found["WedgedTx"])' = wedged
    BY <1>3, <1>4 DEF FoundTitled, WedgedOf
  <1>6. \A t \in Session : stage'[t] = IF t = s THEN "count" ELSE stage[t]
    BY <1>1 DEF IInv, SessionsTyped
  <1>7. DueTyped' /\ WedgedDue'
    BY <1>1, <1>6 DEF DInv, DueTyped, WedgedDue, Between
  <1>8. ScannedTrue'
    <2> SUFFICES ASSUME NEW t \in Session, stage'[t] \in {"count", "compare", "fetch"}
                 PROVE  Between(t, wedged)
      BY <1>1, <1>5 DEF ScannedTrue, Between
    <2> QED BY <1>1, <1>6 DEF DInv, WedgedDue
  <1>9. HeldTrue'
    <2> SUFFICES ASSUME NEW t \in Session
                 PROVE  /\ stage'[t] = "parse" => Between(t, WedgedOf(issues[t] \cup latest[t]))'
                        /\ stage'[t] = "idle" => Between(t, WedgedOf(issues[t]))'
      BY DEF HeldTrue
    <2>1. CASE t = s
      BY <1>6, <2>1
    <2>2. CASE t # s
      BY <1>1, <1>6, <2>2, HeldTrueStays
    <2> QED BY <2>1, <2>2
  <1> QED BY <1>4, <1>7, <1>8, <1>9 DEF DInv

\* Sessions that do not move, and those that go from one stage of a scan to the
\* next, are told what they were, if the objects of WedgedTxPlugin are the same.
LEMMA ScanOnTells ==
  ASSUME IInv, [Next]_vars, DInv, NEW s \in Session, NEW g \in {"compare", "fetch"},
         stage[s] \in {"count", "compare"},
         stage' = [stage EXCEPT ![s] = g],
         UNCHANGED <<wedged, issues, latest, due>>,
         FoundTitled', WedgedOf(found["WedgedTx"])' = WedgedOf(found["WedgedTx"])
  PROVE  DInv'
  <1>1. \A t \in Session : stage'[t] = IF t = s THEN g ELSE stage[t]
    BY DEF IInv, SessionsTyped
  <1>2. stage[s] \in {"count", "compare"} /\ g \in {"compare", "fetch"}
    OBVIOUS
  <1>3. DueTyped' /\ WedgedDue'
    BY <1>1, <1>2 DEF DInv, DueTyped, WedgedDue, Between
  <1>4. ScannedTrue'
    BY <1>1, <1>2 DEF DInv, ScannedTrue, Between
  <1>5. HeldTrue'
    <2> SUFFICES ASSUME NEW t \in Session
                 PROVE  /\ stage'[t] = "parse" => Between(t, WedgedOf(issues[t] \cup latest[t]))'
                        /\ stage'[t] = "idle" => Between(t, WedgedOf(issues[t]))'
      BY DEF HeldTrue
    <2>1. CASE t = s
      BY <1>1, <1>2, <2>1
    <2>2. CASE t # s
      BY <1>1, <2>2, HeldTrueStays
    <2> QED BY <2>1, <2>2
  <1> QED BY <1>3, <1>4, <1>5 DEF DInv

LEMMA CountTxTells ==
  ASSUME IInv, [Next]_vars, DInv, NEW s \in Session, CountTx(s)
  PROVE  DInv'
  <1>1. /\ stage[s] = "count"
        /\ stage' = [stage EXCEPT ![s] = "compare"]
        /\ UNCHANGED <<wedged, issues, latest, due, heap, found>>
    BY WedgedStays DEF CountTx, dbVars, beanVars
  <1>2. FoundTitled' /\ WedgedOf(found["WedgedTx"])' = WedgedOf(found["WedgedTx"])
    BY <1>1 DEF DInv, FoundTitled, WedgedOf
  <1> QED BY <1>1, <1>2, ScanOnTells

\* The second half of a scan leaves the issues of WedgedTxPlugin alone.
LEMMA FindRollbackTells ==
  ASSUME IInv, [Next]_vars, DInv, NEW s \in Session, FindRollback(s)
  PROVE  DInv'
  <1>1. /\ stage[s] = "compare"
        /\ stage' = [stage EXCEPT ![s] = "fetch"]
        /\ UNCHANGED <<wedged, issues, latest, due>>
    BY WedgedStays DEF FindRollback, dbVars, beanVars
  <1>2. PICK new \in SUBSET RollbackIssues : Found("RMRollback", new)
    BY DEF FindRollback
  <1>3. new \in SUBSET Issue /\ \A i \in new : i.title = "RMRollback"
    <2>1. \A i \in RollbackIssues : i.title = "RMRollback"
      BY DEF RollbackIssues
    <2> QED BY <2>1, RollbackIssuesTyped DEF IInv
  <1>4. "WedgedTx" \in Plugin \ {"RMRollback"} /\ "RMRollback" \in Plugin
    BY DEF Plugin
  <1>5. /\ FoundTitled'
        /\ \A o \in found'["WedgedTx"] : o \in found["WedgedTx"] /\ heap'[o] = heap[o]
    BY <1>1, <1>2, <1>3, <1>4, ScanTitled
  <1>6. found'["WedgedTx"] = found["WedgedTx"]
    BY <1>1, <1>2, <1>3, <1>4, FoundStep DEF IInv
  <1>7. WedgedOf(found["WedgedTx"])' = WedgedOf(found["WedgedTx"])
    BY <1>5, <1>6 DEF WedgedOf
  <1> QED BY <1>1, <1>5, <1>7, ScanOnTells

\* The session takes over what the plugins found, under its own objects where
\* it has equal ones.
LEMMA FetchTells ==
  ASSUME IInv, [Next]_vars, DInv, NEW s \in Session, Fetch(s)
  PROVE  DInv'
  <1> DEFINE all == UNION {found[p] : p \in Plugin}
             keep == Retained(s, all)
             new == {o \in all : Key(heap[o]) \notin Keys(keep)}
  <1>1. /\ stage[s] = "fetch"
        /\ issues' = [issues EXCEPT ![s] = keep]
        /\ latest' = [latest EXCEPT ![s] = new]
        /\ stage' = [stage EXCEPT ![s] = "parse"]
        /\ UNCHANGED <<wedged, found, due>>
    BY WedgedStays DEF Fetch, dbVars, pluginVars
  <1>2. /\ \A t \in Session : stage'[t] = IF t = s THEN "parse" ELSE stage[t]
        /\ \A t \in Session \ {s} : issues'[t] = issues[t] /\ latest'[t] = latest[t]
        /\ issues'[s] = keep /\ latest'[s] = new
    BY <1>1 DEF IInv, SessionsTyped
  <1>3. IInv'
    BY NextIInv
  <1>4. \A p \in Plugin : found[p] \subseteq Used /\ found[p] \subseteq Used'
    BY <1>1, <1>3, UsedNow, UsedNext
  <1>5. KeysKept
    BY StepKeepsKeys
  <1>6. \A p \in Plugin : \A o \in found[p] : /\ heap'[o].title = heap[o].title
                                              /\ heap'[o].cause = heap[o].cause
    BY <1>4, <1>5 DEF KeysKept
  <1>7. FoundTitled'
    BY <1>1, <1>6 DEF DInv, FoundTitled
  <1>8. WedgedOf(found["WedgedTx"])' = WedgedOf(found["WedgedTx"])
    BY <1>1, <1>6, WedgedSame DEF WedgedOf, Plugin
  <1>9. DueTyped' /\ WedgedDue'
    BY <1>1, <1>2 DEF DInv, DueTyped, WedgedDue, Between
  <1>10. ScannedTrue'
    BY <1>1, <1>2, <1>8 DEF DInv, ScannedTrue, Between
  <1>11. WedgedOf(keep \cup new) = WedgedOf(found["WedgedTx"])
    <2>1. \A o \in all : heap[o].title = "WedgedTx" <=> o \in found["WedgedTx"]
      BY DEF DInv, FoundTitled, Plugin
    <2>2. ASSUME NEW o \in keep \cup new, heap[o].title = "WedgedTx"
          PROVE  \E x \in found["WedgedTx"] : heap[x].cause = heap[o].cause
      <3>1. CASE o \in new
        BY <2>1, <2>2, <3>1
      <3>2. CASE o \in keep
        <4>1. PICK x \in all : Key(heap[x]) = Key(heap[o])
          BY <3>2 DEF Retained, Keys
        <4>2. heap[x].title = "WedgedTx" /\ heap[x].cause = heap[o].cause
          BY <2>2, <4>1 DEF Key
        <4> QED BY <2>1, <4>2
      <3> QED BY <3>1, <3>2
    <2>3. ASSUME NEW x \in found["WedgedTx"]
          PROVE  \E o \in keep \cup new : /\ heap[o].title = "WedgedTx"
                                          /\ heap[o].cause = heap[x].cause
      <3>1. x \in all /\ heap[x].title = "WedgedTx"
        BY DEF DInv, FoundTitled, Plugin
      <3>2. CASE Key(heap[x]) \in Keys(keep)
        <4>1. PICK o \in keep : Key(heap[o]) = Key(heap[x])
          BY <3>2 DEF Keys
        <4>2. heap[o].title = "WedgedTx" /\ heap[o].cause = heap[x].cause
          BY <3>1, <4>1 DEF Key
        <4> QED BY <4>2
      <3>3. CASE Key(heap[x]) \notin Keys(keep)
        BY <3>1, <3>3
      <3> QED BY <3>2, <3>3
    <2>4. \A x \in found["WedgedTx"] : heap[x].title = "WedgedTx"
      BY DEF DInv, FoundTitled, Plugin
    <2> HIDE DEF keep, new
    <2> QED BY <2>2, <2>3, <2>4 DEF WedgedOf
  <1>12. WedgedOf(issues[s] \cup latest[s])' = WedgedOf(keep \cup new)
    <2>1. keep \cup new \subseteq Used' /\ keep \cup new \subseteq Used
      <3>1. keep \subseteq issues[s] /\ new \subseteq all
        BY DEF Retained
      <3>2. keep \cup new \subseteq Used
        BY <1>4, <3>1, UsedNow
      <3> QED BY <1>2, <1>3, <3>2, UsedNext
    <2> HIDE DEF keep, new
    <2>2. {heap'[o].cause : o \in {x \in keep \cup new : heap'[x].title = "WedgedTx"}}
            = WedgedOf(keep \cup new)
      BY <2>1, HeldTells
    <2> QED BY <1>2, <2>2 DEF WedgedOf
  <1> HIDE DEF keep, new
  <1>13. HeldTrue'
    <2> SUFFICES ASSUME NEW t \in Session
                 PROVE  /\ stage'[t] = "parse" => Between(t, WedgedOf(issues[t] \cup latest[t]))'
                        /\ stage'[t] = "idle" => Between(t, WedgedOf(issues[t]))'
      BY DEF HeldTrue
    <2>1. CASE t = s
      <3>1. Between(s, WedgedOf(found["WedgedTx"]))
        BY <1>1 DEF DInv, ScannedTrue
      <3>2. Between(s, WedgedOf(issues[s] \cup latest[s]))'
        BY <1>1, <1>11, <1>12, <3>1 DEF Between
      <3> QED BY <1>2, <2>1, <3>2
    <2>2. CASE t # s
      BY <1>1, <1>2, <2>2, HeldTrueStays
    <2> QED BY <2>1, <2>2
  <1> QED BY <1>7, <1>9, <1>10, <1>13 DEF DInv

\* What was about to be shown is shown.
LEMMA AnswerTells ==
  ASSUME IInv, [Next]_vars, DInv, NEW s \in Session, Answer(s)
  PROVE  DInv'
  <1>1. /\ stage[s] = "parse"
        /\ issues' = [issues EXCEPT ![s] = @ \cup latest[s]]
        /\ latest' = [latest EXCEPT ![s] = {}]
        /\ stage' = [stage EXCEPT ![s] = "idle"]
        /\ UNCHANGED <<wedged, found, due, heap>>
    BY WedgedStays DEF Answer, dbVars, pluginVars
  <1>2. /\ \A t \in Session : stage'[t] = IF t = s THEN "idle" ELSE stage[t]
        /\ \A t \in Session \ {s} : issues'[t] = issues[t] /\ latest'[t] = latest[t]
        /\ issues'[s] = issues[s] \cup latest[s]
    BY <1>1 DEF IInv, SessionsTyped
  <1>3. DueTyped' /\ WedgedDue' /\ FoundTitled' /\ ScannedTrue'
    BY <1>1, <1>2 DEF DInv, DueTyped, WedgedDue, FoundTitled, ScannedTrue, Between, WedgedOf
  <1>4. HeldTrue'
    <2> SUFFICES ASSUME NEW t \in Session
                 PROVE  /\ stage'[t] = "parse" => Between(t, WedgedOf(issues[t] \cup latest[t]))'
                        /\ stage'[t] = "idle" => Between(t, WedgedOf(issues[t]))'
      BY DEF HeldTrue
    <2>1. CASE t = s
      <3>1. WedgedOf(issues[s])' = WedgedOf(issues[s] \cup latest[s])
        BY <1>1, <1>2 DEF WedgedOf
      <3> QED BY <1>1, <1>2, <2>1, <3>1 DEF DInv, HeldTrue, Between
    <2>2. CASE t # s
      BY <1>1, <1>2, <2>2, HeldTrueStays
    <2> QED BY <2>1, <2>2
  <1> QED BY <1>3, <1>4 DEF DInv

\* Parsing changes bodies only.
LEMMA ParseTells ==
  ASSUME IInv, [Next]_vars, DInv, UNCHANGED <<wedged, found, stage, latest, issues, due>>
  PROVE  DInv'
  <1>1. IInv'
    BY NextIInv
  <1>2. \A p \in Plugin : found[p] \subseteq Used /\ found[p] \subseteq Used'
    BY <1>1, UsedNow, UsedNext
  <1>3. \A p \in Plugin : \A o \in found[p] : /\ heap'[o].title = heap[o].title
                                              /\ heap'[o].cause = heap[o].cause
    BY <1>2, StepKeepsKeys DEF KeysKept
  <1>4. FoundTitled'
    BY <1>3 DEF DInv, FoundTitled
  <1>5. WedgedOf(found["WedgedTx"])' = WedgedOf(found["WedgedTx"])
    BY <1>3, WedgedSame DEF WedgedOf, Plugin
  <1>6. DueTyped' /\ WedgedDue' /\ ScannedTrue'
    BY <1>5 DEF DInv, DueTyped, WedgedDue, ScannedTrue, Between
  <1>7. HeldTrue'
    BY HeldTrueStays DEF HeldTrue
  <1> QED BY <1>4, <1>6, <1>7 DEF DInv

\* The time of a request begins.
LEMMA RequestTells ==
  ASSUME IInv, [Next]_vars, DInv, NEW s \in Session, Request(s)
  PROVE  DInv'
  <1>1. /\ stage[s] = "idle"
        /\ stage' = [stage EXCEPT ![s] = "scan"]
        /\ due' = [due EXCEPT ![s] = [ever |-> wedged, always |-> wedged]]
        /\ UNCHANGED <<wedged, found, heap, issues, latest>>
    BY WedgedStays DEF Request, dbVars, pluginVars, beanVars
  <1>2. /\ \A t \in Session : stage'[t] = IF t = s THEN "scan" ELSE stage[t]
        /\ \A t \in Session \ {s} : due'[t] = due[t]
        /\ due'[s] = [ever |-> wedged, always |-> wedged]
    BY <1>1 DEF IInv, DInv, DueTyped, SessionsTyped
  <1>3. DueTyped' /\ WedgedDue' /\ FoundTitled' /\ ScannedTrue'
    <2>1. DueTyped'
      BY <1>1, WedgedTyped DEF DInv, DueTyped
    <2>2. WedgedDue'
      BY <1>1, <1>2 DEF DInv, WedgedDue, Between
    <2>3. FoundTitled' /\ ScannedTrue'
      BY <1>1, <1>2 DEF DInv, FoundTitled, ScannedTrue, Between, WedgedOf
    <2> QED BY <2>1, <2>2, <2>3
  <1>4. HeldTrue'
    BY <1>1, <1>2, HeldTrueStays DEF HeldTrue
  <1> QED BY <1>3, <1>4 DEF DInv

\* A transaction passes the plugin's test, or no longer does: every request that
\* is being answered takes note.
LEMMA ChangeTells ==
  ASSUME IInv, [Next]_vars, DInv, NEW p, NEW began, Change(p, began)
  PROVE  DInv'
  <1> DEFINE now == wedged'
  <1>0. now \in SUBSET Tx
    BY WedgedTyped DEF wedged
  <1>1. /\ wedged' = now /\ due' = Noted(now)
        /\ UNCHANGED <<found, heap, issues, latest, stage>>
    BY DEF Change, pluginVars, beanVars
  <1> HIDE DEF now
  <1>2. \A t \in Session :
          due'[t] = IF stage[t] = "idle" THEN due[t]
                    ELSE [ever |-> due[t].ever \cup now, always |-> due[t].always \cap now]
    BY <1>1 DEF Noted
  <1>3. \A t \in Session : stage[t] # "idle" => /\ due'[t].ever = due[t].ever \cup now
                                                /\ due'[t].always = due[t].always \cap now
    <2> TAKE t \in Session
    <2> HAVE stage[t] # "idle"
    <2>1. due'[t] = [ever |-> due[t].ever \cup now, always |-> due[t].always \cap now]
      BY <1>2
    <2> QED BY <2>1
  <1>4. DueTyped'
    <2>1. ASSUME NEW t \in Session PROVE due'[t] \in [ever : SUBSET Tx, always : SUBSET Tx]
      <3>1. due[t] \in [ever : SUBSET Tx, always : SUBSET Tx]
        BY DEF DInv, DueTyped
      <3>2. due[t].ever \cup now \in SUBSET Tx /\ due[t].always \cap now \in SUBSET Tx
        BY <1>0, <3>1
      <3>3. [ever |-> due[t].ever \cup now, always |-> due[t].always \cap now]
              \in [ever : SUBSET Tx, always : SUBSET Tx]
        BY <3>2
      <3> QED BY <1>2, <3>1, <3>3
    <2> QED BY <1>1, <2>1 DEF DueTyped, Noted
  <1>5. WedgedDue'
    <2> SUFFICES ASSUME NEW t \in Session, stage[t] # "idle" PROVE Between(t, wedged)'
      BY <1>1 DEF WedgedDue
    <2> QED BY <1>1, <1>3 DEF DInv, WedgedDue, Between
  <1>6. FoundTitled'
    BY <1>1 DEF DInv, FoundTitled
  <1>8. ASSUME NEW t \in Session, NEW told, Between(t, told)
        PROVE  due'[t].always \subseteq told /\ told \subseteq due'[t].ever
    <2>1. CASE stage[t] = "idle"
      BY <1>2, <1>8, <2>1 DEF Between
    <2>2. CASE stage[t] # "idle"
      BY <1>3, <1>8, <2>2 DEF Between
    <2> QED BY <2>1, <2>2
  <1>10. ScannedTrue'
    <2> SUFFICES ASSUME NEW t \in Session, stage[t] \in {"count", "compare", "fetch"}
                 PROVE  Between(t, WedgedOf(found["WedgedTx"]))'
      BY <1>1 DEF ScannedTrue
    <2>1. Between(t, WedgedOf(found["WedgedTx"]))
      BY DEF DInv, ScannedTrue
    <2>2. WedgedOf(found["WedgedTx"])' = WedgedOf(found["WedgedTx"])
      BY <1>1 DEF WedgedOf
    <2> QED BY <1>8, <2>1, <2>2 DEF Between
  <1>11. HeldTrue'
    <2> SUFFICES ASSUME NEW t \in Session
                 PROVE  /\ stage[t] = "parse" => Between(t, WedgedOf(issues[t] \cup latest[t]))'
                        /\ stage[t] = "idle" => Between(t, WedgedOf(issues[t]))'
      BY <1>1 DEF HeldTrue
    <2>1. /\ stage[t] = "parse" => Between(t, WedgedOf(issues[t] \cup latest[t]))
          /\ stage[t] = "idle" => Between(t, WedgedOf(issues[t]))
      BY DEF DInv, HeldTrue
    <2>2. /\ WedgedOf(issues[t] \cup latest[t])' = WedgedOf(issues[t] \cup latest[t])
          /\ WedgedOf(issues[t])' = WedgedOf(issues[t])
      BY <1>1 DEF WedgedOf
    <2> QED BY <1>8, <2>1, <2>2 DEF Between
  <1> QED BY <1>4, <1>5, <1>6, <1>10, <1>11 DEF DInv

\* Other steps of the monitors
LEMMA BlameOrMoreTells ==
  ASSUME DInv, UNCHANGED <<wedged, heap, found, stage, issues, latest, due>>
  PROVE  DInv'
  BY DEF DInv, DueTyped, FoundTitled, WedgedDue, ScannedTrue, HeldTrue, Between, WedgedOf

\* The invariant is inductive, on top of IInv.
LEMMA NextDInv == IInv /\ DInv /\ [Next]_vars => DInv'
  <1> SUFFICES ASSUME IInv, DInv, [Next]_vars PROVE DInv'
    OBVIOUS
  <1>1. CASE UNCHANGED vars
    BY <1>1, WedgedStays, BlameOrMoreTells DEF vars, dbVars, pluginVars, beanVars
  <1>2. CASE Monitors
    <2>1. ASSUME NEW t \in Tx, Prepare(t) \/ LeavePrepare(t) \/ Age(t)
          PROVE  DInv'
      BY <2>1, ChangeTells DEF Prepare, LeavePrepare, Age
    <2>2. ASSUME (\E m \in RM : \E t \in Tx : Blame(m, t)) \/ More PROVE DInv'
      BY <2>2, WedgedStays, BlameOrMoreTells DEF Blame, More, pluginVars, beanVars
    <2> QED BY <1>2, <2>1, <2>2 DEF Monitors
  <1>3. ASSUME NEW s \in Session, Serve(s) PROVE DInv'
    <2>1. ASSUME NEW o \in Ref, ParseRead(s, o) PROVE DInv'
      BY <2>1, WedgedStays, ParseTells DEF ParseRead, dbVars, pluginVars
    <2>2. CASE ParseWrite(s)
      BY <2>2, WedgedStays, ParseTells DEF ParseWrite, dbVars, pluginVars
    <2> QED BY <1>3, <2>1, <2>2, FindWedgedTells, CountTxTells, FindRollbackTells, FetchTells,
               AnswerTells DEF Serve
  <1> QED BY <1>1, <1>2, <1>3, RequestTells DEF Next

\* Whatever other sessions scan and fetch in between, the transactions a session
\* is shown as wedged are those the plugin's test (PREPARE, begun over a minute
\* ago) is true of in the time in which its request was answered
\* (PluginService:59-73, WedgedTxPlugin:47-66, IssueParserBean:34-54).
THEOREM ShownCurrentCorrect == Spec => []ShownCurrent
  <1>1. DInv => ShownCurrent
    BY DEF DInv, HeldTrue, Between, WedgedOf, ShownCurrent
  <1> QED BY InitIInv, NextIInv, InitDInv, NextDInv, <1>1, PTL DEF Spec

-----------------------------------------------------------------------------
(* How often an object is parsed.  A session parses an object once: before   *)
(* that, a plugin has the object and the session does not; afterwards the    *)
(* session has it as long as a plugin does.                                  *)

\* Sessions that may still begin to parse o, and those that are parsing it.
Ready(o) ==
  {s \in Session : \/ o \in todo[s]
                   \/ o \in UNION Range(found) /\ o \notin issues[s] \cup latest[s]}
Parsers(o) == {s \in Session : parsing[s].object = o}

\* Those that have parsed it, or never will.
Over(o) == Session \ (Ready(o) \cup Parsers(o))

LatestParse == \A s \in Session : latest[s] # {} => stage[s] = "parse"

ParsingTaken == \A s \in Session : parsing[s].object \notin todo[s]

BodiesCounted ==
  \A o \in Ref :
    /\ heap[o].body <= Cardinality(Over(o))
    /\ \A s \in Parsers(o) : parsing[s].body <= Cardinality(Over(o))

CountersTyped ==
  /\ others \in Nat /\ totalTx \in Nat
  /\ lock \in Session \cup {NoSession}

BInv == LatestParse /\ ParsingTaken /\ BodiesCounted /\ CountersTyped

\* A set of sessions has a number, which grows with the set.
LEMMA SessionsCounted ==
  ASSUME NEW S \in SUBSET Session, NEW T \in SUBSET S
  PROVE  /\ Cardinality(S) \in Nat /\ Cardinality(T) \in Nat
         /\ Cardinality(T) <= Cardinality(S)
         /\ \A s \in S : s \notin T => Cardinality(T) + 1 <= Cardinality(S)
  <1>1. IsFiniteSet(S) /\ IsFiniteSet(T)
    BY IssuesAssumption, FS_Subset
  <1>2. Cardinality(S) \in Nat /\ Cardinality(T) \in Nat /\ Cardinality(T) <= Cardinality(S)
    BY <1>1, FS_CardinalityType, FS_Subset
  <1>3. ASSUME NEW s \in S, s \notin T PROVE Cardinality(T) + 1 <= Cardinality(S)
    <2>1. T \cup {s} \in SUBSET S /\ IsFiniteSet(T \cup {s})
      BY <1>1, FS_AddElement
    <2>2. Cardinality(T \cup {s}) = Cardinality(T) + 1
      BY <1>1, <1>3, FS_AddElement
    <2>3. Cardinality(T \cup {s}) <= Cardinality(S)
      BY <1>1, <2>1, FS_Subset
    <2> QED BY <2>2, <2>3
  <1> QED BY <1>2, <1>3

\* Sessions that are over with o, and what was read of it, as after a step.
LEMMA BodyStays ==
  ASSUME BInv, IInv, IInv', NEW o \in Ref,
         Ready(o)' \cup Parsers(o)' \subseteq Ready(o) \cup Parsers(o),
         heap'[o].body <= heap[o].body \/ heap'[o].body = 0,
         \A s \in Parsers(o)' : parsing'[s].body = parsing[s].body /\ s \in Parsers(o)
  PROVE  /\ heap'[o].body <= Cardinality(Over(o)')
         /\ \A s \in Parsers(o)' : parsing'[s].body <= Cardinality(Over(o)')
  <1>1. Over(o) \subseteq Over(o)' /\ Over(o)' \subseteq Session
    BY DEF Over
  <1>2. /\ Cardinality(Over(o)) <= Cardinality(Over(o)')
        /\ Cardinality(Over(o)) \in Nat /\ Cardinality(Over(o)') \in Nat
    BY <1>1, SessionsCounted
  <1>3. heap'[o].body \in Nat
    BY DEF IInv, HeapTyped, Issue, Unused
  <1>4. heap[o].body <= Cardinality(Over(o))
    BY DEF BInv, BodiesCounted
  <1>5. \A s \in Parsers(o) : parsing[s].body <= Cardinality(Over(o))
    BY DEF BInv, BodiesCounted
  <1>6. \A s \in Parsers(o)' : parsing'[s].body \in Nat
    BY DEF IInv, SessionsTyped, Parsers
  <1>7. heap'[o].body <= Cardinality(Over(o)')
    <2>1. CASE heap'[o].body = 0
      BY <1>2, <2>1
    <2>2. CASE heap'[o].body <= heap[o].body
      <3>1. heap[o].body \in Nat
        BY DEF IInv, HeapTyped, Issue, Unused
      <3> QED BY <1>2, <1>3, <1>4, <2>2, <3>1
    <2> QED BY <2>1, <2>2
  <1> QED BY <1>2, <1>5, <1>6, <1>7

\* An object nobody knows is not parsed and not about to be.
LEMMA UnusedOver ==
  ASSUME IInv, NEW o \in Ref, o \notin Used
  PROVE  Ready(o) = {} /\ Parsers(o) = {}
  <1>1. \A p \in Plugin : o \notin found[p]
    BY UsedNow
  <1>2. o \notin UNION Range(found)
    BY <1>1 DEF IInv, PluginsTyped, Range
  <1>3. \A s \in Session : o \notin latest[s]
    BY UsedNow
  <1>4. \A s \in Session : o \notin todo[s]
    BY <1>3 DEF IInv, TodoLatest
  <1>5. \A s \in Session : parsing[s].object # o
    BY <1>3, IssuesAssumption DEF IInv, ParsingHeld
  <1> QED BY <1>2, <1>4, <1>5 DEF Ready, Parsers

LEMMA InitBInv ==
  ASSUME Init
  PROVE  BInv
  <1>1. LatestParse /\ ParsingTaken /\ CountersTyped
    BY DEF Init, LatestParse, ParsingTaken, CountersTyped
  <1>2. BodiesCounted
    <2> SUFFICES ASSUME NEW o \in Ref
                 PROVE  /\ heap[o].body <= Cardinality(Over(o))
                        /\ Parsers(o) = {}
      BY DEF BodiesCounted
    <2>1. heap[o].body = 0
      BY DEF Init, Unused
    <2>2. Cardinality(Over(o)) \in Nat
      BY SessionsCounted DEF Over
    <2>3. Parsers(o) = {}
      BY IssuesAssumption DEF Init, Parsers
    <2> QED BY <2>1, <2>2, <2>3
  <1> QED BY <1>1, <1>2 DEF BInv

\* A scan makes new objects where nobody has one, and gives no old one back to
\* a plugin.
LEMMA ScanCounted ==
  ASSUME IInv, IInv', BInv, NEW p \in Plugin, NEW new \in SUBSET Issue, Found(p, new),
         \A i \in new : i.body = 0, UNCHANGED beanVars
  PROVE  BodiesCounted'
  <1> SUFFICES ASSUME NEW o \in Ref
               PROVE  /\ heap'[o].body <= Cardinality(Over(o)')
                      /\ \A s \in Parsers(o)' : parsing'[s].body <= Cardinality(Over(o)')
    BY DEF BodiesCounted
  <1>1. /\ \A q \in Plugin \ {p} : found'[q] = found[q]
        /\ \A x \in Used : x \in Used' => heap'[x] = heap[x]
        /\ \A x \in found'[p] : x \in found[p] \/ (x \notin Used /\ heap'[x] \in new)
        /\ \A x \in Ref : x \notin Used' => heap'[x] = Unused
    BY FoundStep DEF IInv, beanVars
  <1>2. /\ Parsers(o)' = Parsers(o)
        /\ \A s \in Parsers(o)' : parsing'[s].body = parsing[s].body /\ s \in Parsers(o)
    BY DEF Parsers, beanVars
  <1>3. CASE o \notin Used'
    <2>1. Ready(o)' = {} /\ Parsers(o)' = {}
      <3>1. \A q \in Plugin : o \notin found'[q]
        BY <1>3, UsedNext
      <3>2. o \notin UNION Range(found')
        BY <3>1 DEF IInv, PluginsTyped, Range
      <3>3. \A s \in Session : o \notin latest'[s]
        BY <1>3, UsedNext
      <3>4. \A s \in Session : o \notin todo'[s]
        BY <3>3 DEF IInv, TodoLatest
      <3>5. \A s \in Session : parsing'[s].object # o
        BY <3>3, IssuesAssumption DEF IInv, ParsingHeld
      <3> QED BY <3>2, <3>4, <3>5 DEF Ready, Parsers
    <2>2. heap'[o].body = 0
      BY <1>1, <1>3 DEF Unused
    <2> QED BY <1>2, <2>1, <2>2, BodyStays
  <1>4. CASE o \in Used' /\ o \in Used
    <2>1. heap'[o] = heap[o]
      BY <1>1, <1>4
    <2>2. heap'[o].body <= heap[o].body
      BY <2>1 DEF IInv, HeapTyped, Issue, Unused
    <2>3. o \in UNION Range(found') => o \in UNION Range(found)
      <3> SUFFICES ASSUME NEW q \in Plugin, o \in found'[q] PROVE o \in found[q]
        BY DEF IInv, PluginsTyped, Range
      <3> QED BY <1>1, <1>4
    <2>4. Ready(o)' \subseteq Ready(o)
      BY <2>3 DEF Ready, beanVars
    <2> QED BY <1>2, <2>2, <2>4, BodyStays
  <1>5. CASE o \in Used' /\ o \notin Used
    <2>1. Ready(o) = {} /\ Parsers(o) = {}
      BY <1>5, UnusedOver
    <2>2. PICK q \in Plugin : o \in found'[q]
      BY <1>5 DEF Used, InUse, beanVars, IInv, PluginsTyped, Range
    <2>3. heap'[o].body = 0
      <3>1. o \notin found[q]
        BY <1>5, UsedNow
      <3>2. q = p /\ heap'[o] \in new
        BY <1>1, <2>2, <3>1
      <3> QED BY <3>2
    <2>4. Cardinality(Over(o)') \in Nat
      <3>1. Over(o)' \subseteq Session
        BY DEF Over
      <3> QED BY <3>1, SessionsCounted
    <2> QED BY <1>2, <2>1, <2>3, <2>4
  <1> QED BY <1>3, <1>4, <1>5

\* A session that fetches is about to parse what it could have parsed anyway.
LEMMA FetchCounted ==
  ASSUME IInv, IInv', BInv, NEW s \in Session, Fetch(s)
  PROVE  BodiesCounted' /\ LatestParse' /\ ParsingTaken'
  <1> DEFINE all == UNION {found[p] : p \in Plugin}
             keep == Retained(s, all)
             new == {o \in all : Key(heap[o]) \notin Keys(keep)}
  <1>1. /\ stage[s] = "fetch"
        /\ issues' = [issues EXCEPT ![s] = keep]
        /\ latest' = [latest EXCEPT ![s] = new]
        /\ todo' = [todo EXCEPT ![s] = new]
        /\ stage' = [stage EXCEPT ![s] = "parse"]
        /\ heap' = Collect(heap, Used')
        /\ UNCHANGED <<found, parsing>>
    BY DEF Fetch, pluginVars, Used
  <1>2. /\ \A t \in Session \ {s} : /\ issues'[t] = issues[t] /\ latest'[t] = latest[t]
                                    /\ todo'[t] = todo[t]
        /\ issues'[s] = keep /\ latest'[s] = new /\ todo'[s] = new
        /\ \A t \in Session : stage'[t] = IF t = s THEN "parse" ELSE stage[t]
    BY <1>1 DEF IInv, SessionsTyped
  <1>3. latest[s] = {} /\ parsing[s].object = NoRef
    BY <1>1 DEF BInv, LatestParse, IInv, ParsingHeld
  <1>4. all = UNION Range(found)
    BY DEF IInv, PluginsTyped, Range
  <1>5. \A o \in all : o \in issues[s] => o \in keep
    BY DEF Retained, Keys
  <1>6. \A o \in new : o \in all /\ o \notin keep
    BY DEF Keys
  <1>7. new \subseteq Ref
    BY DEF IInv, PluginsTyped
  <1> HIDE DEF all, keep, new
  <1>8. ASSUME NEW o \in Ref PROVE Ready(o)' \subseteq Ready(o) /\ Parsers(o)' = Parsers(o)
    <2>1. Parsers(o)' = Parsers(o)
      BY <1>1 DEF Parsers
    <2>2. ASSUME NEW t \in Session, t \in Ready(o)' PROVE t \in Ready(o)
      <3>1. CASE t # s
        BY <1>1, <1>2, <2>2, <3>1 DEF Ready
      <3>2. CASE t = s
        <4>1. o \in all /\ o \notin keep
          BY <1>1, <1>2, <1>4, <1>6, <2>2, <3>2 DEF Ready
        <4>2. o \notin issues[s] \cup latest[s]
          BY <1>3, <1>5, <4>1
        <4> QED BY <1>4, <3>2, <4>1, <4>2 DEF Ready
      <3> QED BY <3>1, <3>2
    <2> QED BY <2>1, <2>2 DEF Ready
  <1>9. BodiesCounted'
    <2> SUFFICES ASSUME NEW o \in Ref
                 PROVE  /\ heap'[o].body <= Cardinality(Over(o)')
                        /\ \A t \in Parsers(o)' : parsing'[t].body <= Cardinality(Over(o)')
      BY DEF BodiesCounted
    <2>1. heap'[o].body <= heap[o].body \/ heap'[o].body = 0
      BY <1>1 DEF Collect, Unused, IInv, HeapTyped, Issue
    <2>2. \A t \in Parsers(o)' : parsing'[t].body = parsing[t].body /\ t \in Parsers(o)
      BY <1>1, <1>8
    <2> QED BY <1>8, <2>1, <2>2, BodyStays
  <1>10. LatestParse'
    BY <1>2 DEF BInv, LatestParse
  <1>11. ParsingTaken'
    BY <1>1, <1>2, <1>3, <1>7, IssuesAssumption DEF BInv, ParsingTaken
  <1> QED BY <1>9, <1>10, <1>11

\* The body that a session has read counts fewer sessions than are over with o.
LEMMA ParseReadCounted ==
  ASSUME IInv, IInv', BInv, NEW s \in Session, NEW r \in Ref, ParseRead(s, r)
  PROVE  BodiesCounted' /\ LatestParse' /\ ParsingTaken'
  <1>1. /\ stage[s] = "parse" /\ parsing[s].object = NoRef /\ r \in todo[s]
        /\ parsing' = [parsing EXCEPT ![s] = [object |-> r, body |-> heap[r].body]]
        /\ todo' = [todo EXCEPT ![s] = @ \ {r}]
        /\ UNCHANGED <<heap, found, stage, latest, issues>>
    BY DEF ParseRead, pluginVars
  <1>2. /\ \A t \in Session \ {s} : todo'[t] = todo[t] /\ parsing'[t] = parsing[t]
        /\ todo'[s] = todo[s] \ {r}
        /\ parsing'[s] = [object |-> r, body |-> heap[r].body]
    BY <1>1 DEF IInv, SessionsTyped
  <1>3. LatestParse' /\ ParsingTaken'
    BY <1>1, <1>2 DEF BInv, LatestParse, ParsingTaken
  <1>4. ASSUME NEW o \in Ref
        PROVE  Ready(o)' \cup Parsers(o)' \subseteq Ready(o) \cup Parsers(o)
    <2>1. ASSUME NEW t \in Session, t \in Ready(o)' PROVE t \in Ready(o)
      BY <1>1, <1>2, <2>1 DEF Ready
    <2>2. ASSUME NEW t \in Session, t \in Parsers(o)' PROVE t \in Ready(o) \cup Parsers(o)
      BY <1>1, <1>2, <2>2 DEF Ready, Parsers
    <2> QED BY <2>1, <2>2 DEF Ready, Parsers
  <1>5. BodiesCounted'
    <2> SUFFICES ASSUME NEW o \in Ref
                 PROVE  /\ heap'[o].body <= Cardinality(Over(o)')
                        /\ \A t \in Parsers(o)' : parsing'[t].body <= Cardinality(Over(o)')
      BY DEF BodiesCounted
    <2>1. Over(o) \subseteq Over(o)' /\ Over(o)' \subseteq Session
      BY <1>4 DEF Over
    <2>2. /\ Cardinality(Over(o)) <= Cardinality(Over(o)')
          /\ Cardinality(Over(o)) \in Nat /\ Cardinality(Over(o)') \in Nat
      BY <2>1, SessionsCounted
    <2>3. heap[o].body \in Nat /\ heap[o].body <= Cardinality(Over(o))
      BY DEF BInv, BodiesCounted, IInv, HeapTyped, Issue, Unused
    <2>4. heap'[o].body <= Cardinality(Over(o)')
      BY <1>1, <2>2, <2>3
    <2>5. ASSUME NEW t \in Parsers(o)' PROVE parsing'[t].body <= Cardinality(Over(o)')
      <3>1. CASE t = s
        BY <1>2, <2>2, <2>3, <2>5, <3>1 DEF Parsers
      <3>2. CASE t # s
        <4>1. t \in Session /\ t \in Parsers(o) /\ parsing'[t] = parsing[t]
          BY <1>2, <2>5, <3>2 DEF Parsers
        <4>2. parsing[t].body \in Nat /\ parsing[t].body <= Cardinality(Over(o))
          BY <4>1 DEF BInv, BodiesCounted, IInv, SessionsTyped
        <4> QED BY <2>2, <4>1, <4>2
      <3> QED BY <3>1, <3>2
    <2> QED BY <2>4, <2>5
  <1> QED BY <1>3, <1>5

\* With the body that is written one more session is over with the object.
LEMMA ParseWriteCounted ==
  ASSUME IInv, IInv', BInv, NEW s \in Session, ParseWrite(s)
  PROVE  BodiesCounted' /\ LatestParse' /\ ParsingTaken'
  <1>0. PICK w : w = parsing[s].object
    OBVIOUS
  <1>1. /\ w # NoRef
        /\ heap' = [heap EXCEPT ![w].body = parsing[s].body + 1]
        /\ parsing' = [parsing EXCEPT ![s] = [object |-> NoRef, body |-> 0]]
        /\ UNCHANGED <<found, stage, latest, todo, issues>>
    BY <1>0 DEF ParseWrite, pluginVars
  <1>2. w \in latest[s] /\ w \notin todo[s] /\ w \in Ref
    BY <1>0, <1>1 DEF IInv, ParsingHeld, BInv, ParsingTaken, SessionsTyped
  <1>3. /\ \A t \in Session \ {s} : parsing'[t] = parsing[t]
        /\ parsing'[s].object = NoRef
    BY <1>1 DEF IInv, SessionsTyped
  <1>4. LatestParse' /\ ParsingTaken'
    <2>1. NoRef \notin todo[s]
      BY IssuesAssumption DEF IInv, SessionsTyped
    <2> QED BY <1>1, <1>3, <2>1 DEF BInv, LatestParse, ParsingTaken
  <1>5. ASSUME NEW o \in Ref PROVE Ready(o)' = Ready(o) /\ Parsers(o)' = Parsers(o) \ {s}
    BY <1>0, <1>1, <1>3, IssuesAssumption DEF Ready, Parsers
  <1>6. ASSUME NEW o \in Ref, o # w
        PROVE  /\ heap'[o].body <= Cardinality(Over(o)')
               /\ \A t \in Parsers(o)' : parsing'[t].body <= Cardinality(Over(o)')
    <2>1. heap'[o].body <= heap[o].body
      BY <1>1, <1>6 DEF IInv, HeapTyped, Issue, Unused
    <2>2. \A t \in Parsers(o)' : parsing'[t].body = parsing[t].body /\ t \in Parsers(o)
      BY <1>3, <1>5 DEF Parsers
    <2> QED BY <1>5, <2>1, <2>2, BodyStays
  <1>7. /\ heap'[w].body <= Cardinality(Over(w)')
        /\ \A t \in Parsers(w)' : parsing'[t].body <= Cardinality(Over(w)')
    <2>1. s \in Parsers(w) /\ s \notin Ready(w)
      BY <1>0, <1>2 DEF Parsers, Ready
    <2>2. Over(w) \subseteq Over(w)' /\ Over(w)' \subseteq Session
      BY <1>2, <1>5 DEF Over
    <2>3. s \in Over(w)' /\ s \notin Over(w)
      BY <1>2, <1>5, <2>1 DEF Over
    <2>4. /\ Cardinality(Over(w)) + 1 <= Cardinality(Over(w)')
          /\ Cardinality(Over(w)) \in Nat /\ Cardinality(Over(w)') \in Nat
      BY <2>2, <2>3, SessionsCounted
    <2>5. \A t \in Parsers(w) : /\ parsing[t].body <= Cardinality(Over(w))
                                /\ parsing[t].body \in Nat
      BY <1>2 DEF BInv, BodiesCounted, IInv, SessionsTyped, Parsers
    <2>6. heap'[w].body = parsing[s].body + 1
      BY <1>1, <1>2 DEF IInv, HeapTyped, Issue, Unused
    <2>7. \A t \in Parsers(w)' : t \in Parsers(w) /\ parsing'[t] = parsing[t]
      BY <1>2, <1>3, <1>5 DEF Parsers
    <2> QED BY <1>0, <2>1, <2>4, <2>5, <2>6, <2>7
  <1>8. BodiesCounted'
    BY <1>6, <1>7 DEF BodiesCounted
  <1> QED BY <1>4, <1>8

\* Steps after which each session has, and may parse, what it had.
LEMMA SameCounted ==
  ASSUME IInv, IInv', BInv, UNCHANGED <<heap, found, todo, parsing>>,
         \A t \in Session : issues'[t] \cup latest'[t] = issues[t] \cup latest[t]
  PROVE  BodiesCounted' /\ ParsingTaken'
  <1>1. \A o \in Ref : Ready(o)' = Ready(o) /\ Parsers(o)' = Parsers(o)
    BY DEF Ready, Parsers
  <1>2. \A o \in Ref : Over(o)' = Over(o)
    BY <1>1 DEF Over
  <1> QED BY <1>1, <1>2 DEF BInv, BodiesCounted, ParsingTaken

LEMMA NextBInv == IInv /\ IInv' /\ BInv /\ [Next]_vars => BInv'
  <1> SUFFICES ASSUME IInv, IInv', BInv, [Next]_vars PROVE BInv'
    OBVIOUS
  <1>1. ASSUME UNCHANGED <<heap, found, beanVars>>,
               \A s \in Session : stage[s] = "parse" => stage'[s] = "parse"
        PROVE  BodiesCounted' /\ LatestParse' /\ ParsingTaken'
    <2>1. UNCHANGED <<heap, found, todo, parsing, issues, latest>>
      BY <1>1 DEF beanVars
    <2> QED BY <1>1, <2>1, SameCounted DEF BInv, LatestParse
  <1>2. ASSUME UNCHANGED vars PROVE BInv'
    <2>1. UNCHANGED <<heap, found, beanVars, stage, others, totalTx, lock>>
      BY <1>2 DEF vars, dbVars, pluginVars
    <2> QED BY <1>1, <2>1 DEF BInv, CountersTyped
  <1>3. ASSUME Monitors PROVE BInv'
    <2>1. UNCHANGED <<heap, found, beanVars, stage, totalTx, lock>>
      BY <1>3 DEF Monitors, Prepare, LeavePrepare, Age, Change, Blame, More, pluginVars
    <2>2. others' \in Nat
      <3>1. Batch \in Nat /\ others \in Nat
        BY IssuesAssumption DEF BInv, CountersTyped
      <3>2. others' = others \/ others' = others + Batch
        BY <1>3 DEF Monitors, Prepare, LeavePrepare, Age, Change, Blame, More
      <3> QED BY <3>1, <3>2
    <2> QED BY <1>1, <2>1, <2>2 DEF BInv, CountersTyped
  <1>4. ASSUME NEW s \in Session, Request(s) PROVE BInv'
    <2>1. /\ UNCHANGED <<heap, found, beanVars, others, totalTx, lock>>
          /\ stage[s] = "idle" /\ stage' = [stage EXCEPT ![s] = "scan"]
      BY <1>4 DEF Request, dbVars, pluginVars
    <2>2. \A t \in Session : stage[t] = "parse" => stage'[t] = "parse"
      BY <2>1 DEF IInv, SessionsTyped
    <2> QED BY <1>1, <2>1, <2>2 DEF BInv, CountersTyped
  <1>5. ASSUME NEW s \in Session, CountTx(s) PROVE BInv'
    <2>1. /\ UNCHANGED <<heap, found, beanVars, others, lock>>
          /\ stage[s] = "count" /\ stage' = [stage EXCEPT ![s] = "compare"]
          /\ totalTx' = Cardinality(Tx) + others
      BY <1>5 DEF CountTx, dbVars
    <2>2. \A t \in Session : stage[t] = "parse" => stage'[t] = "parse"
      BY <2>1 DEF IInv, SessionsTyped
    <2>3. totalTx' \in Nat
      <3>1. Cardinality(Tx) \in Nat
        BY IssuesAssumption, FS_CardinalityType
      <3> QED BY <2>1, <3>1 DEF BInv, CountersTyped
    <2> QED BY <1>1, <2>1, <2>2, <2>3 DEF BInv, CountersTyped
  <1>6. ASSUME NEW s \in Session, NEW g \in {"count", "fetch"}, stage[s] # "parse",
               NEW p \in Plugin, NEW new \in SUBSET Issue, Found(p, new),
               \A i \in new : i.body = 0, stage' = [stage EXCEPT ![s] = g],
               lock' \in {s, NoSession}, UNCHANGED <<others, totalTx, beanVars>>
        PROVE  BInv'
    <2>1. BodiesCounted'
      BY <1>6, ScanCounted
    <2>2. \A t \in Session : stage[t] = "parse" => stage'[t] = "parse"
      BY <1>6 DEF IInv, SessionsTyped
    <2>3. LatestParse' /\ ParsingTaken' /\ CountersTyped'
      BY <1>6, <2>2 DEF BInv, LatestParse, ParsingTaken, CountersTyped, beanVars
    <2> QED BY <2>1, <2>3 DEF BInv
  <1>7. ASSUME NEW s \in Session, FindWedged(s) PROVE BInv'
    <2>1. WedgedIssues \in SUBSET Issue /\ \A i \in WedgedIssues : i.body = 0
      BY WedgedTyped DEF WedgedIssues, Issue, Plugin
    <2>2. /\ stage[s] # "parse" /\ Found("WedgedTx", WedgedIssues)
          /\ stage' = [stage EXCEPT ![s] = "count"] /\ lock' = s
          /\ UNCHANGED <<others, totalTx, beanVars>>
      BY <1>7 DEF FindWedged, dbVars
    <2>3. "WedgedTx" \in Plugin /\ "count" \in {"count", "fetch"}
      BY DEF Plugin
    <2> QED BY <1>6, <2>1, <2>2, <2>3
  <1>8. ASSUME NEW s \in Session, FindRollback(s) PROVE BInv'
    <2>1. PICK new \in SUBSET RollbackIssues : Found("RMRollback", new)
      BY <1>8 DEF FindRollback
    <2>2. new \in SUBSET Issue /\ \A i \in new : i.body = 0
      <3>1. \A i \in RollbackIssues : i.body = 0
        BY DEF RollbackIssues
      <3> QED BY <3>1, RollbackIssuesTyped DEF IInv
    <2>3. /\ stage[s] # "parse"
          /\ stage' = [stage EXCEPT ![s] = "fetch"] /\ lock' = NoSession
          /\ UNCHANGED <<others, totalTx, beanVars>>
      BY <1>8 DEF FindRollback, dbVars
    <2>4. "RMRollback" \in Plugin /\ "fetch" \in {"count", "fetch"}
      BY DEF Plugin
    <2> QED BY <1>6, <2>1, <2>2, <2>3, <2>4
  <1>9. ASSUME NEW s \in Session, Fetch(s) PROVE BInv'
    <2>1. CountersTyped'
      BY <1>9 DEF Fetch, dbVars, pluginVars, BInv, CountersTyped
    <2> QED BY <1>9, <2>1, FetchCounted DEF BInv
  <1>10. ASSUME NEW s \in Session, NEW o \in Ref, ParseRead(s, o) PROVE BInv'
    <2>1. CountersTyped'
      BY <1>10 DEF ParseRead, dbVars, pluginVars, BInv, CountersTyped
    <2> QED BY <1>10, <2>1, ParseReadCounted DEF BInv
  <1>11. ASSUME NEW s \in Session, ParseWrite(s) PROVE BInv'
    <2>1. CountersTyped'
      BY <1>11 DEF ParseWrite, dbVars, pluginVars, BInv, CountersTyped
    <2> QED BY <1>11, <2>1, ParseWriteCounted DEF BInv
  <1>12. ASSUME NEW s \in Session, Answer(s) PROVE BInv'
    <2>1. /\ issues' = [issues EXCEPT ![s] = @ \cup latest[s]]
          /\ latest' = [latest EXCEPT ![s] = {}]
          /\ stage' = [stage EXCEPT ![s] = "idle"]
          /\ UNCHANGED <<heap, found, todo, parsing, others, totalTx, lock>>
      BY <1>12 DEF Answer, dbVars, pluginVars
    <2>2. \A t \in Session : issues'[t] \cup latest'[t] = issues[t] \cup latest[t]
      BY <2>1 DEF IInv, SessionsTyped
    <2>3. LatestParse'
      BY <2>1 DEF BInv, LatestParse, IInv, SessionsTyped
    <2> QED BY <2>1, <2>2, <2>3, SameCounted DEF BInv, CountersTyped
  <1> QED BY <1>2, <1>3, <1>4, <1>5, <1>7, <1>8, <1>9, <1>10, <1>11, <1>12 DEF Next, Serve

\* Plugins, sessions and the objects they share stay well typed, and no object
\* is parsed by more sessions than there are: a session that has parsed one
\* does not come to parse it again, though it may drop it and objects go and
\* come back (IssueParserBean:42-54, PluginService:59-73).
THEOREM TypeCorrect == Spec => []TypeOK
  <1>1. ASSUME IInv, DInv, BInv PROVE TypeOK
    <2>1. \A o \in Ref : heap[o].body <= Cardinality(Session)
      <3> TAKE o \in Ref
      <3>1. Over(o) \subseteq Session
        BY DEF Over
      <3>2. /\ Cardinality(Over(o)) <= Cardinality(Session)
            /\ Cardinality(Over(o)) \in Nat /\ Cardinality(Session) \in Nat
        BY <3>1, SessionsCounted
      <3>3. heap[o].body \in Nat /\ heap[o].body <= Cardinality(Over(o))
        BY <1>1 DEF BInv, BodiesCounted, IInv, HeapTyped, Issue, Unused
      <3> QED BY <3>2, <3>3
    <2> QED BY <1>1, <2>1 DEF IInv, DInv, BInv, DatabaseTyped, HeapTyped, SessionsTyped,
               PluginsTyped, DueTyped, CountersTyped, TypeOK
  <1> QED BY InitIInv, NextIInv, InitDInv, NextDInv, InitBInv, NextBInv, <1>1, PTL DEF Spec

=============================================================================
