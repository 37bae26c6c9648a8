-------------------------------- MODULE Issues --------------------------------
(***************************************************************************)
(* The issues of the list page: the plugins that look for them              *)
(* (PluginService, WedgedTxPlugin, RMRollbackPlugin) and the sessions that  *)
(* show them (IssueParserBean).                                             *)
(*                                                                          *)
(* Every request for the list page scans, fetches the issues found and      *)
(* parses the ones its session does not have yet.  PluginService is a       *)
(* singleton: scanForIssues() and getIssues() exclude each other and        *)
(* themselves, but a scan and the fetch after it are two calls, and the     *)
(* Issue objects are shared by all sessions and parsed in place.            *)
(*                                                                          *)
(* Two issues are equal if title and cause are, whatever their bodies say.  *)
(***************************************************************************)
EXTENDS Naturals, Sequences, FiniteSets, Functions

CONSTANTS
  Tx,         \* top-level transactions that may be wedged or rolled back
  RM,         \* resource managers
  NoRM,       \* an issue of WedgedTxPlugin is about none
  Session,    \* sessions of the web application, one request of each at a time
  NoSession,  \* nobody is in PluginService
  Ref,        \* Issue objects; bound: as many are alive at once
  NoRef,      \* no object
  MIN_NUMBER, \* RMRollbackPlugin.MIN_NUMBER (3)
  THRESHOLD,  \* RMRollbackPlugin.THRESHOLD (5)
  Batch,      \* other transactions come in batches of so many
  MaxBatches  \* bound: so many batches

ASSUME IssuesAssumption ==
  /\ NoRM \notin RM /\ NoSession \notin Session /\ NoRef \notin Ref
  /\ Tx # {} /\ IsFiniteSet(Tx) /\ IsFiniteSet(Session)
  /\ {MIN_NUMBER, THRESHOLD, Batch, MaxBatches} \subseteq Nat

VARIABLES
  old,      \* transactions begun more than WedgedTxPlugin.THRESHOLD (a minute) ago
  prepared, \* transactions in status PREPARE, for however long
  blamed,   \* blamed[m]: transactions in which m threw, in the order of records
  others,   \* how many other top-level transactions there are
  heap,     \* heap[o]: the fields of the Issue object o
  found,    \* found[p]: the field issues of plugin p
  lock,     \* the session whose request is in PluginService.scanForIssues()
  totalTx,  \* the local variable of RMRollbackPlugin.findIssues()
  stage,    \* stage[s]: how far the request of s has come
  latest,   \* latest[s]: latestIssues of updateIssues()
  todo,     \* todo[s]: those of them still to be parsed
  parsing,  \* parsing[s]: the object being parsed, and its body as it was read
  issues,   \* issues[s]: the field IssueParserBean.issues
  due       \* history: transactions wedged at some time, and all the time,
            \* since the last request of s came

dbVars == <<old, prepared, blamed, others>>
pluginVars == <<found, lock, totalTx>>
beanVars == <<latest, todo, parsing, issues>>
vars == <<dbVars, heap, pluginVars, stage, beanVars, due>>

Plugin == {"WedgedTx", "RMRollback"}

\* title: the plugins' titles differ, the one of RMRollbackPlugin names no
\* resource manager.  body: how often it was parsed.
Issue == [title : Plugin, cause : Tx, rm : RM \cup {NoRM}, body : Nat]
Unused == [title |-> "unused", rm |-> NoRM, body |-> 0]

\* Issue.equals() and hashCode()
Key(i) == [title |-> i.title, cause |-> i.cause]
Keys(objects) == {Key(heap[o]) : o \in objects}

Stage == {"idle", "scan", "count", "compare", "fetch", "parse"}

\* Types; no object is parsed more often than there are sessions.  "Don't parse
\* any issues a second time" (IssueParserBean:47) is true of a session, not of an
\* object: each session to which it is new parses it, whatever others have done.
TypeOK ==
  /\ old \subseteq Tx
  /\ prepared \subseteq Tx
  /\ blamed \in [RM -> Seq(Tx)]
  /\ others \in Nat
  /\ heap \in [Ref -> Issue \cup {Unused}]
  /\ found \in [Plugin -> SUBSET Ref]
  /\ lock \in Session \cup {NoSession}
  /\ totalTx \in Nat
  /\ stage \in [Session -> Stage]
  /\ latest \in [Session -> SUBSET Ref]
  /\ todo \in [Session -> SUBSET Ref]
  /\ parsing \in [Session -> [object : Ref \cup {NoRef}, body : Nat]]
  /\ issues \in [Session -> SUBSET Ref]
  /\ due \in [Session -> [ever : SUBSET Tx, always : SUBSET Tx]]
  /\ \A o \in Ref : heap[o].body <= Cardinality(Session)

-----------------------------------------------------------------------------
(* The database, as the monitors change it.                                 *)

\* due[s] as long as a request of s is being answered
Noted(now) ==
  [s \in Session |->
     IF stage[s] = "idle" THEN due[s]
     ELSE [ever |-> due[s].ever \cup now, always |-> due[s].always \cap now]]

\* What WedgedTxPlugin takes for wedged: status PREPARE, and an age that
\* Transaction.getDuration() counts from begin, not from prepare: a transaction
\* that began a minute ago is wedged the moment its PREPARE line is recorded.
wedged == {t \in Tx : t \in prepared /\ t \in old}

\* Monitors and time change what is wedged: requests in progress take note.
Change(now, began) ==
  /\ prepared' = now /\ old' = began
  /\ due' = Noted(wedged')
  /\ UNCHANGED <<blamed, others, heap, pluginVars, stage, beanVars>>

\* The monitors record a PREPARE line ...
Prepare(t) == t \notin prepared /\ Change(prepared \cup {t}, old)

\* ... and another status.
LeavePrepare(t) == t \in prepared /\ Change(prepared \ {t}, old)

\* A minute after begin, whatever the status
Age(t) == t \notin old /\ Change(prepared, old \cup {t})

Blame(m, t) ==
  /\ t \notin Range(blamed[m])
  /\ blamed' = [blamed EXCEPT ![m] = Append(@, t)]
  /\ UNCHANGED <<old, prepared, others, heap, pluginVars, stage, beanVars, due>>

More ==
  /\ others < Batch * MaxBatches
  /\ others' = others + Batch
  /\ UNCHANGED <<old, prepared, blamed, heap, pluginVars, stage, beanVars, due>>

Monitors ==
  \/ \E t \in Tx : Prepare(t) \/ LeavePrepare(t) \/ Age(t)
  \/ \E m \in RM : \E t \in Tx : Blame(m, t)
  \/ More

-----------------------------------------------------------------------------
(* The plugins.                                                             *)

\* Objects that a plugin or a session still knows; the others are collected.
InUse(f, i, l) == UNION (Range(f) \cup Range(i) \cup Range(l))

Collect(h, live) == [o \in Ref |-> IF o \in live THEN h[o] ELSE Unused]

\* Variant with a bug: what was found before stays.
KeepAll(p, new) == found[p]

\* retainAll(): of the issues found before, those found again
Keep(p, new) == {o \in found[p] : Key(heap[o]) \in {Key(i) : i \in new}}

\* newIssues as a set: of several equal issues one is in it.
Distinct(new) == \A i, j \in new : Key(i) = Key(j) => i = j

\* addAll(): objects for the issues not found before
Found(p, new) ==
  LET keep == Keep(p, new)
      fresh == {i \in new : Key(i) \notin Keys(keep)}
  IN  \E at \in [fresh -> Ref \ InUse(found, issues, latest)] :
        /\ \A i, j \in fresh : at[i] = at[j] => i = j
        /\ found' = [found EXCEPT ![p] = keep \cup {at[i] : i \in fresh}]
        /\ heap' = Collect([o \in Ref |->
                              IF \E i \in fresh : at[i] = o
                              THEN CHOOSE i \in fresh : at[i] = o
                              ELSE heap[o]], InUse(found', issues, latest))

WedgedIssues ==
  {[title |-> "WedgedTx", cause |-> t, rm |-> NoRM, body |-> 0] : t \in wedged}

\* scanForIssues() begins: WedgedTxPlugin.findIssues()
FindWedged(s) ==
  /\ stage[s] = "scan" /\ lock = NoSession
  /\ Found("WedgedTx", WedgedIssues)
  /\ lock' = s
  /\ stage' = [stage EXCEPT ![s] = "count"]
  /\ UNCHANGED <<dbVars, totalTx, beanVars, due>>

\* RMRollbackPlugin.findIssues(): the number of transactions
CountTx(s) ==
  /\ stage[s] = "count"
  /\ totalTx' = Cardinality(Tx) + others
  /\ stage' = [stage EXCEPT ![s] = "compare"]
  /\ UNCHANGED <<dbVars, heap, found, lock, beanVars, due>>

absoluteThreshold == (totalTx \div 100) * THRESHOLD

RollbackIssues ==
  {[title |-> "RMRollback", cause |-> blamed[m][1], rm |-> m, body |-> 0] :
     m \in {x \in RM : /\ Len(blamed[x]) > MIN_NUMBER
                       /\ Len(blamed[x]) >= absoluteThreshold}}

\* RMRollbackPlugin.findIssues(): the resource managers; the scan ends.
FindRollback(s) ==
  /\ stage[s] = "compare"
  /\ \E new \in SUBSET RollbackIssues :
       /\ Distinct(new)
       /\ {Key(i) : i \in new} = {Key(i) : i \in RollbackIssues}
       /\ Found("RMRollback", new)
  /\ lock' = NoSession
  /\ stage' = [stage EXCEPT ![s] = "fetch"]
  /\ UNCHANGED <<dbVars, totalTx, beanVars, due>>

-----------------------------------------------------------------------------
(* The sessions.                                                            *)

\* A request for the list page
Request(s) ==
  /\ stage[s] = "idle"
  /\ stage' = [stage EXCEPT ![s] = "scan"]
  /\ due' = [due EXCEPT ![s] = [ever |-> wedged, always |-> wedged]]
  /\ UNCHANGED <<dbVars, heap, pluginVars, beanVars>>

\* Variant with a bug: the session takes the plugins' objects for its own.
RetainedAnew(s, all) == {o \in all : Key(heap[o]) \in Keys(issues[s])}

\* Variant with a bug: removeAll() in the place of retainAll()
Removed(s, all) == {o \in issues[s] : Key(heap[o]) \notin Keys(all)}

\* issues.retainAll(latestIssues): the session keeps its own objects.
Retained(s, all) == {o \in issues[s] : Key(heap[o]) \in Keys(all)}

\* updateIssues(): getIssues(), retainAll() and removeAll()
Fetch(s) ==
  /\ stage[s] = "fetch" /\ lock = NoSession
  /\ LET all == UNION {found[p] : p \in Plugin}
         keep == Retained(s, all)
         new == {o \in all : Key(heap[o]) \notin Keys(keep)}
     IN  /\ issues' = [issues EXCEPT ![s] = keep]
         /\ latest' = [latest EXCEPT ![s] = new]
         /\ todo' = [todo EXCEPT ![s] = new]
  /\ stage' = [stage EXCEPT ![s] = "parse"]
  /\ heap' = Collect(heap, InUse(found, issues', latest'))
  /\ UNCHANGED <<dbVars, pluginVars, parsing, due>>

\* parseIssue(): the body is read ...
ParseRead(s, o) ==
  /\ stage[s] = "parse" /\ parsing[s].object = NoRef
  /\ o \in todo[s]
  /\ parsing' = [parsing EXCEPT ![s] = [object |-> o, body |-> heap[o].body]]
  /\ todo' = [todo EXCEPT ![s] = @ \ {o}]
  /\ UNCHANGED <<dbVars, heap, pluginVars, stage, latest, issues, due>>

\* ... and replaced.
ParseWrite(s) ==
  /\ parsing[s].object # NoRef
  /\ heap' = [heap EXCEPT ![parsing[s].object].body = parsing[s].body + 1]
  /\ parsing' = [parsing EXCEPT ![s] = [object |-> NoRef, body |-> 0]]
  /\ UNCHANGED <<dbVars, pluginVars, stage, latest, todo, issues, due>>

\* issues.addAll(latestIssues), and the answer
Answer(s) ==
  /\ stage[s] = "parse" /\ parsing[s].object = NoRef /\ todo[s] = {}
  /\ issues' = [issues EXCEPT ![s] = @ \cup latest[s]]
  /\ latest' = [latest EXCEPT ![s] = {}]
  /\ stage' = [stage EXCEPT ![s] = "idle"]
  /\ UNCHANGED <<dbVars, heap, pluginVars, todo, parsing, due>>

-----------------------------------------------------------------------------
Init ==
  /\ old = {}
  /\ prepared = {}
  /\ blamed = [m \in RM |-> <<>>]
  /\ others = 0
  /\ heap = [o \in Ref |-> Unused]
  /\ found = [p \in Plugin |-> {}]
  /\ lock = NoSession
  /\ totalTx = 0
  /\ stage = [s \in Session |-> "idle"]
  /\ latest = [s \in Session |-> {}]
  /\ todo = [s \in Session |-> {}]
  /\ parsing = [s \in Session |-> [object |-> NoRef, body |-> 0]]
  /\ issues = [s \in Session |-> {}]
  /\ due = [s \in Session |-> [ever |-> {}, always |-> {}]]

Serve(s) ==
  \/ FindWedged(s) \/ CountTx(s) \/ FindRollback(s) \/ Fetch(s)
  \/ \E o \in Ref : ParseRead(s, o)
  \/ ParseWrite(s) \/ Answer(s)

Next == Monitors \/ \E s \in Session : Request(s) \/ Serve(s)

Spec == Init /\ [][Next]_vars

-----------------------------------------------------------------------------
(* Properties.                                                              *)

\* Facelets shows the body of every issue of the session: none of them is raw,
\* though objects are dropped and created again by scans of other sessions
\* (IssueParserBean:42-54, RMRollbackPlugin:62-65).
ShownParsed == \A s \in Session : \A o \in issues[s] : heap[o].body > 0

\* The transactions a session is shown as wedged are those the plugin's test is
\* true of, in PREPARE and begun over a minute ago, in the time in which its
\* request was answered: one of which it was true all the time is shown, one of
\* which it never was is not, whatever other sessions scan and fetch in between
\* (PluginService:59-73, WedgedTxPlugin:47-66, IssueParserBean:34-54).  The issue's
\* own text, "in status prepare longer than" a minute (WedgedTxPlugin:21-22), is
\* another claim, and not true of one that is slow and has just prepared.
ShownCurrent ==
  \A s \in Session :
    stage[s] = "idle" =>
      LET shown == {heap[o].cause :
                      o \in {x \in issues[s] : heap[x].title = "WedgedTx"}}
      IN  due[s].always \subseteq shown /\ shown \subseteq due[s].ever

\* "Percentage threshold of transaction rollbacks caused by a resource manager
\* at which to report an issue" (RMRollbackPlugin:22-25): a scan that finds a
\* resource manager at the threshold, and above MIN_NUMBER, reports it.
ThresholdReported ==
  [][\A s \in Session : stage[s] = "compare" /\ stage'[s] = "fetch" =>
       \A m \in RM :
         Len(blamed[m]) > MIN_NUMBER /\ 100 * Len(blamed[m]) >= THRESHOLD * totalTx
           => \E o \in found'["RMRollback"] : heap'[o].rm = m]_vars

=============================================================================
