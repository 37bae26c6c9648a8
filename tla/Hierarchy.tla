------------------------------ MODULE Hierarchy ------------------------------
(***************************************************************************)
(* How the monitors of several application-server nodes rebuild, in one     *)
(* shared database, the parent / subordinate hierarchy of a distributed     *)
(* transaction (HandlerService of txvis-core).                              *)
(*                                                                          *)
(* Every node runs one monitor: a Tailer thread that reads the node's own   *)
(* server.log and calls HandlerService line by line.  A monitor is          *)
(* sequential, monitors interleave.  A handler is split where another       *)
(* monitor can see or change the database in between: every query and every *)
(* commit is a step of its own (pc), and what was read is kept in the local *)
(* variables of the handler (job).                                          *)
(*                                                                          *)
(* The log of a node is a constant: a monitor may lag arbitrarily behind    *)
(* its server, so every order in which lines are written and read is an     *)
(* order in which the monitors read complete logs.                          *)
(***************************************************************************)
EXTENDS Naturals, Sequences

CONSTANTS
  Node,         \* application servers, each with its monitor
  TxUid,        \* transaction uids, shared by all the branches of a transaction
  Request,      \* RequestRecord.CompositePK: request id and IOR
  Thread,       \* threads of the application servers, as named in the log
  NoTxUid,      \* the null txuid of a record made by the sender of a request
  NoRequest,    \* no entry in threadReqMap
  NoRecord,     \* the null RequestRecord
  NoRow,        \* the null Transaction
  Log,          \* Log[n] is the sequence of relevant lines of n's server.log
  Lossy,        \* types of lines whose first database transaction may fail
  MaxFailures,  \* bound: database transactions that fail for their own reasons
  MaxRestarts   \* bound: monitors that stop and start again

\* The lines the handlers of as8.handlers extract, with the groups they use.
Line ==
  [type : {"Begin"}, txuid : TxUid, thread : Thread]
    \cup [type : {"send_request"}, request : Request]
    \cup [type : {"receive_request"}, thread : Thread, request : Request]
    \cup [type : {"enlist", "get_status"}, txuid : TxUid]

ASSUME ConstantsAssumption ==
  /\ NoTxUid \notin TxUid
  /\ NoRequest \notin Request
  /\ Lossy \subseteq {"Begin", "enlist", "get_status"}
  /\ MaxFailures \in Nat
  /\ MaxRestarts \in Nat

ASSUME LogAssumption == Log \in [Node -> Seq(Line)]

VARIABLES
  next,          \* next[n]: the position of the Tailer of n in its log
  pc,            \* pc[n]: the step the handler running on n has reached
  job,           \* job[n]: the local variables of that handler
  threadReqMap,  \* threadReqMap[n]: the field of n's HandlerService
  txs,           \* rows of Transaction
  enlisted,      \* rows of Transaction that have a ParticipantRecord
  links,         \* rows of Transaction_Hierarchy
  requests,      \* rows of RequestRecord
  failures, restarts  \* counters of the bounds

vars == <<next, pc, job, threadReqMap, txs, enlisted, links, requests,
          failures, restarts>>

\* A row is identified by the log line its begin() came from (the generated id).
Row == [node : Node, txuid : TxUid, line : Nat]

\* No row is none of them.
ASSUME RowAssumption == NoRow \notin Row

HierarchyRow == [parent : Row, subordinate : Row]
RequestRecord ==
  [request : Request, node : Node, txuid : TxUid \cup {NoTxUid}]

Job == [request : Request \cup {NoRequest}, txuid : TxUid \cup {NoTxUid},
        rec : RequestRecord \cup {NoRecord},
        subordinate : Row \cup {NoRow}, parent : Row \cup {NoRow},
        snapshot : SUBSET Row]

NoJob == [request |-> NoRequest, txuid |-> NoTxUid, rec |-> NoRecord,
          subordinate |-> NoRow, parent |-> NoRow, snapshot |-> {}]

Steps == {"idle", "find", "insert", "refind", "load", "link", "remove"}

\* Types of every variable of the monitors and of the shared tables.
TypeOK ==
  /\ next \in [Node -> Nat \ {0}]
  /\ pc \in [Node -> Steps]
  /\ job \in [Node -> Job]
  /\ threadReqMap \in [Node -> [Thread -> Request \cup {NoRequest}]]
  /\ txs \subseteq Row
  /\ enlisted \subseteq Row
  /\ links \subseteq HierarchyRow
  /\ requests \subseteq RequestRecord
  /\ failures \in Nat
  /\ restarts \in Nat

-----------------------------------------------------------------------------
(* Queries and helpers.                                                     *)

\* Transaction.findNatural; getSingleResult returns t iff the answer is {t}.
FindNatural(n, u) == {t \in txs : t.node = n /\ t.txuid = u}

\* em.find(RequestRecord.class, key)
FindRequest(r) == {rec \in requests : rec.request = r}

\* The next line of n, if its monitor is waiting for one and it has type ty.
AtLine(n, ty) ==
  /\ pc[n] = "idle"
  /\ next[n] \in DOMAIN Log[n]
  /\ Log[n][next[n]].type = ty

Current(n) == Log[n][next[n]]

\* The handler returns, or an exception it does not catch reaches intercept().
Finish(n) ==
  /\ pc' = [pc EXCEPT ![n] = "idle"]
  /\ job' = [job EXCEPT ![n] = NoJob]

GoTo(n, step) == pc' = [pc EXCEPT ![n] = step]

\* Variant with a bug: the arguments are swapped.
HandleRequestSwapped(n, r, u) ==
  /\ GoTo(n, "find")
  /\ job' = [job EXCEPT ![n] = [NoJob EXCEPT !.request = u, !.txuid = r]]

\* handleRequest(requestid, ior, txuid) is entered with these arguments.
HandleRequest(n, r, u) ==
  /\ GoTo(n, "find")
  /\ job' = [job EXCEPT ![n] = [NoJob EXCEPT !.request = r, !.txuid = u]]

\* Arguments of createHierarchy: begin() runs on the subordinate's node and
\* passes its txuid, checkIfParent() runs on the parent's node and has none.
FromBegin(n) == job[n].txuid # NoTxUid
SubordinateNode(n) == IF FromBegin(n) THEN n ELSE job[n].rec.node
ParentNode(n) == IF FromBegin(n) THEN job[n].rec.node ELSE n
CallTxUid(n) == IF FromBegin(n) THEN job[n].txuid ELSE job[n].rec.txuid

-----------------------------------------------------------------------------
(* Handlers: one action per step between two accesses to the database.      *)

\* Variant with a bug: the association is read with get() and survives.
DissociateNot(n, th) == threadReqMap

\* threadReqMap.remove(threadId)
Dissociate(n, th) == [threadReqMap EXCEPT ![n][th] = NoRequest]

\* begin(): the new row is committed before the hierarchy is looked at.
Begin(n) ==
  /\ AtLine(n, "Begin")
  /\ LET l == Current(n)
         r == threadReqMap[n][l.thread]
     IN  /\ txs' = txs \cup
                     {[node |-> n, txuid |-> l.txuid, line |-> next[n]]}
         /\ threadReqMap' = Dissociate(n, l.thread)
         /\ IF r # NoRequest THEN HandleRequest(n, r, l.txuid)
                             ELSE UNCHANGED <<pc, job>>
  /\ next' = [next EXCEPT ![n] = @ + 1]
  /\ UNCHANGED <<enlisted, links, requests, failures, restarts>>

\* checkIfParent(), entered for a send_request line
CheckIfParent(n) ==
  /\ AtLine(n, "send_request")
  /\ HandleRequest(n, Current(n).request, NoTxUid)
  /\ next' = [next EXCEPT ![n] = @ + 1]
  /\ UNCHANGED <<threadReqMap, txs, enlisted, links, requests, failures, restarts>>

\* associateThreadWithRequestId(), for a receive_request line
AssociateThread(n) ==
  /\ AtLine(n, "receive_request")
  /\ threadReqMap' =
       [threadReqMap EXCEPT ![n][Current(n).thread] = Current(n).request]
  /\ next' = [next EXCEPT ![n] = @ + 1]
  /\ UNCHANGED <<pc, job, txs, enlisted, links, requests, failures, restarts>>

\* enlistResourceManagerJTA / JTS(), as far as cleanup() depends on it
Enlist(n) ==
  /\ AtLine(n, "enlist")
  /\ enlisted' = enlisted \cup
       {t \in txs : FindNatural(n, Current(n).txuid) = {t}}
  /\ next' = [next EXCEPT ![n] = @ + 1]
  /\ UNCHANGED <<pc, job, threadReqMap, txs, links, requests, failures, restarts>>

\* Variant with a bug: the participants of t are not looked at.
IsPhantomUnlinked(t) == \A l \in links : l.parent # t /\ l.subordinate # t

\* What cleanup() takes for a phantom transaction.
IsPhantom(t) ==
  /\ t \notin enlisted
  /\ \A l \in links : l.parent # t /\ l.subordinate # t

\* cleanup(): the check, outside any database transaction
CheckPhantom(n) ==
  /\ AtLine(n, "get_status")
  /\ \/ \E t \in txs :
          /\ FindNatural(n, Current(n).txuid) = {t}
          /\ IsPhantom(t)
          /\ GoTo(n, "remove")
          /\ job' = [job EXCEPT ![n] = [NoJob EXCEPT !.subordinate = t]]
     \/ /\ ~ \E t \in txs :
               /\ FindNatural(n, Current(n).txuid) = {t}
               /\ IsPhantom(t)
        /\ UNCHANGED <<pc, job>>
  /\ next' = [next EXCEPT ![n] = @ + 1]
  /\ UNCHANGED <<threadReqMap, txs, enlisted, links, requests, failures, restarts>>

\* cleanup(): the removal.  The join row in which t is the subordinate goes
\* with t; one in which t is the parent is a foreign key, and the removal fails.
RemovePhantom(n) ==
  /\ pc[n] = "remove"
  /\ LET t == job[n].subordinate
     IN  IF \E l \in links : l.parent = t
         THEN UNCHANGED <<txs, links>>
         ELSE /\ txs' = txs \ {t}
              /\ links' = {l \in links : l.subordinate # t}
  /\ Finish(n)
  /\ UNCHANGED <<next, threadReqMap, enlisted, requests, failures, restarts>>

\* handleRequest(): the first em.find
Find(n) ==
  /\ pc[n] = "find"
  /\ \/ \E rec \in FindRequest(job[n].request) :
          /\ job' = [job EXCEPT ![n].rec = rec]
          /\ GoTo(n, "load")
     \/ /\ FindRequest(job[n].request) = {}
        /\ GoTo(n, "insert")
        /\ UNCHANGED job
  /\ UNCHANGED <<next, threadReqMap, txs, enlisted, links, requests, failures, restarts>>

\* Variant with a bug: the exception ends the handler.
OnDuplicateKeyGiveUp(n) == Finish(n) /\ UNCHANGED requests

\* The primary key of RequestRecord refuses a second record of a request.
OnDuplicateKey(n) == GoTo(n, "refind") /\ UNCHANGED <<job, requests>>

\* handleRequest(): persist and flush; a violated key is a PersistenceException
Insert(n) ==
  /\ pc[n] = "insert"
  /\ \/ /\ FindRequest(job[n].request) = {}
        /\ requests' = requests \cup
             {[request |-> job[n].request, node |-> n, txuid |-> job[n].txuid]}
        /\ Finish(n)
     \/ /\ FindRequest(job[n].request) # {}
        /\ OnDuplicateKey(n)
  /\ UNCHANGED <<next, threadReqMap, txs, enlisted, links, failures, restarts>>

\* handleRequest(): the second em.find, in the exception handler
Refind(n) ==
  /\ pc[n] = "refind"
  /\ \/ \E rec \in FindRequest(job[n].request) :
          /\ job' = [job EXCEPT ![n].rec = rec]
          /\ GoTo(n, "load")
     \/ /\ FindRequest(job[n].request) = {}
        /\ Finish(n)
  /\ UNCHANGED <<next, threadReqMap, txs, enlisted, links, requests, failures, restarts>>

\* createHierarchy(): both transactions are looked up, and with the parent
\* Hibernate loads the bag of its subordinates.  A missing transaction is a
\* NullPointerException, a duplicated one a NonUniqueResultException.
Load(n) ==
  /\ pc[n] = "load"
  /\ LET Found(s, p) ==
           /\ FindNatural(SubordinateNode(n), CallTxUid(n)) = {s}
           /\ FindNatural(ParentNode(n), CallTxUid(n)) = {p}
     IN  \/ \E s, p \in txs :
              /\ Found(s, p)
              /\ job' = [job EXCEPT
                           ![n].subordinate = s,
                           ![n].parent = p,
                           ![n].snapshot =
                             {x \in txs : [parent |-> p, subordinate |-> x] \in links}]
              /\ GoTo(n, "link")
         \/ /\ ~ \E s, p \in txs : Found(s, p)
            /\ Finish(n)
  /\ UNCHANGED <<next, threadReqMap, txs, enlisted, links, requests, failures, restarts>>

\* Variants with a bug: the rows of the parent always go; the ends are swapped.
KeptLinksOfOthers(n) == {l \in links : l.parent # job[n].parent}
InsertedLinksSwapped(n) ==
  {[parent |-> x, subordinate |-> job[n].parent] :
     x \in job[n].snapshot \cup {job[n].subordinate}}

\* What setParent() makes of the join table: a bag without an index column is
\* rewritten as a whole.  The rows of the parent are deleted, unless the bag
\* was empty when it was loaded, and those of the bag in memory inserted.
KeptLinks(n) ==
  IF job[n].snapshot = {} THEN links
                          ELSE {l \in links : l.parent # job[n].parent}
InsertedLinks(n) ==
  {[parent |-> job[n].parent, subordinate |-> x] :
     x \in job[n].snapshot \cup {job[n].subordinate}}

\* The constraints the commit must meet: the record is still there to be
\* removed, the linked rows exist (foreign keys) and no subordinate occurs
\* twice in the join table (unique key).
CommitAllowed(n) ==
  /\ FindRequest(job[n].request) # {}
  /\ \A l \in InsertedLinks(n) : l.parent \in txs /\ l.subordinate \in txs
  /\ job[n].subordinate \notin job[n].snapshot
  /\ \A k \in KeptLinks(n), l \in InsertedLinks(n) : k.subordinate # l.subordinate

\* setParent(), em.remove(rec) and the commit that makes both durable
CommitHierarchy(n) ==
  /\ pc[n] = "link"
  /\ IF CommitAllowed(n)
     THEN /\ links' = KeptLinks(n) \cup InsertedLinks(n)
          /\ requests' = requests \ FindRequest(job[n].request)
     ELSE UNCHANGED <<links, requests>>
  /\ Finish(n)
  /\ UNCHANGED <<next, threadReqMap, txs, enlisted, failures, restarts>>

-----------------------------------------------------------------------------
(* The environment.                                                         *)

\* A query or a commit of n fails (connection lost, deadlock victim): the
\* database transaction is rolled back and intercept() swallows the exception,
\* except around the insert, where handleRequest() catches it.
Fail(n) ==
  /\ pc[n] # "idle"
  /\ failures < MaxFailures
  /\ IF pc[n] = "insert" THEN GoTo(n, "refind") /\ UNCHANGED job ELSE Finish(n)
  /\ failures' = failures + 1
  /\ UNCHANGED <<next, threadReqMap, txs, enlisted, links, requests, restarts>>

\* The first database transaction of a handler fails, and the line has no
\* effect.  A begin() that fails so does not reach threadReqMap: the association
\* of its thread stays.
LoseLine(n) ==
  /\ \E type \in Lossy : AtLine(n, type)
  /\ failures < MaxFailures
  /\ next' = [next EXCEPT ![n] = @ + 1]
  /\ failures' = failures + 1
  /\ UNCHANGED <<pc, job, threadReqMap, txs, enlisted, links, requests, restarts>>

\* The monitor of n stops, between two lines or inside a handler, and is
\* started again: a new HandlerService, and a Tailer at the end of the file as
\* it is then, so that any number of lines is never read.
Restart(n) ==
  /\ restarts < MaxRestarts
  /\ \E k \in next[n] .. Len(Log[n]) + 1 : next' = [next EXCEPT ![n] = k]
  /\ threadReqMap' = [threadReqMap EXCEPT ![n] = [th \in Thread |-> NoRequest]]
  /\ Finish(n)
  /\ restarts' = restarts + 1
  /\ UNCHANGED <<txs, enlisted, links, requests, failures>>

-----------------------------------------------------------------------------
Init ==
  /\ next = [n \in Node |-> 1]
  /\ pc = [n \in Node |-> "idle"]
  /\ job = [n \in Node |-> NoJob]
  /\ threadReqMap = [n \in Node |-> [th \in Thread |-> NoRequest]]
  /\ txs = {}
  /\ enlisted = {}
  /\ links = {}
  /\ requests = {}
  /\ failures = 0
  /\ restarts = 0

Monitor(n) ==
  \/ Begin(n) \/ CheckIfParent(n) \/ AssociateThread(n) \/ Enlist(n)
  \/ CheckPhantom(n) \/ RemovePhantom(n)
  \/ Find(n) \/ Insert(n) \/ Refind(n) \/ Load(n) \/ CommitHierarchy(n)

Next == \E n \in Node : Monitor(n) \/ Fail(n) \/ LoseLine(n) \/ Restart(n)

Spec == Init /\ [][Next]_vars

\* The Tailer thread of every node keeps reading as long as there are lines.
FairSpec == Spec /\ \A n \in Node : WF_vars(Monitor(n))

-----------------------------------------------------------------------------
(* What the logs say, independently of how the monitors read them.          *)

Sends(n, r) ==
  \E i \in DOMAIN Log[n] :
    Log[n][i].type = "send_request" /\ Log[n][i].request = r

\* The last line before k that binds thread th is the receive_request of r.
Receiving(n, th, k, r) ==
  \E i \in DOMAIN Log[n] :
    /\ i < k
    /\ Log[n][i].type = "receive_request"
    /\ Log[n][i].thread = th
    /\ Log[n][i].request = r
    /\ \A j \in DOMAIN Log[n] :
         (i < j /\ j < k /\ Log[n][j].type \in {"Begin", "receive_request"})
           => Log[n][j].thread # th

\* Line k of n begins a transaction in the service of request r.
ServingLine(n, k, r) ==
  /\ k \in DOMAIN Log[n]
  /\ Log[n][k].type = "Begin"
  /\ Receiving(n, Log[n][k].thread, k, r)

Serves(n, u, r) ==
  \E k \in DOMAIN Log[n] : ServingLine(n, k, r) /\ Log[n][k].txuid = u

\* p sent a request in whose service s was begun, for the same transaction.
IsCall(p, s) ==
  /\ p.txuid = s.txuid
  /\ \E r \in Request : Sends(p.node, r) /\ Serves(s.node, s.txuid, r)

\* Every request is logged once by its sender and begins one subordinate.
CallsUnique ==
  /\ \A n, m \in Node : \A i \in DOMAIN Log[n], j \in DOMAIN Log[m] :
       (/\ Log[n][i].type = "send_request"
        /\ Log[m][j].type = "send_request"
        /\ Log[n][i].request = Log[m][j].request) => n = m /\ i = j
  /\ \A n, m \in Node : \A r \in Request :
       \A i \in DOMAIN Log[n], j \in DOMAIN Log[m] :
         (ServingLine(n, i, r) /\ ServingLine(m, j, r)) => n = m /\ i = j

\* The rows and the links a complete reading of the logs should leave.
LoggedRows ==
  UNION {{[node |-> n, txuid |-> Log[n][i].txuid, line |-> i] :
            i \in {k \in DOMAIN Log[n] : Log[n][k].type = "Begin"}} : n \in Node}
CallLinks ==
  {l \in [parent : LoggedRows, subordinate : LoggedRows] :
     IsCall(l.parent, l.subordinate)}

\* Line i of n has been read and its handler has returned.
Handled(n, i) == i < next[n] /\ ~(i = next[n] - 1 /\ pc[n] # "idle")

AllRead == \A n \in Node : pc[n] = "idle" /\ next[n] = Len(Log[n]) + 1

-----------------------------------------------------------------------------
(* Properties.                                                              *)

\* The hierarchy never invents a call: wherever two monitors meet, and however
\* often they fail or restart, a link joins the branch that sent a request and
\* the branch begun in its service (createHierarchy, HandlerService:275-283).
\* It takes begin()s that do not fail themselves: when the row of a transaction
\* cannot be committed (HandlerService:59), its thread keeps the association, and
\* the next transaction begun on it, which may serve nobody, is linked instead.
LinksAreCalls == \A l \in links : IsCall(l.parent, l.subordinate)

\* While nothing fails no request record is left behind: a record is there
\* only as long as the other side's line has not been handled (the race that
\* handleRequest, HandlerService:241-255, must survive).
NoOrphanRecord ==
  \A rec \in requests :
    \E n \in Node : \E i \in DOMAIN Log[n] :
      /\ ~Handled(n, i)
      /\ IF rec.txuid = NoTxUid
         THEN ServingLine(n, i, rec.request)
         ELSE Log[n][i].type = "send_request" /\ Log[n][i].request = rec.request

\* Once every line is read the join table holds exactly the calls of the logs.
HierarchyComplete == AllRead => links = CallLinks

\* The monitors finish reading, and from then on the hierarchy is complete.
HierarchyEstablished == <>[](links = CallLinks /\ requests = {})

\* cleanup() removes only transactions that, when they go, have no participant
\* and no subordinate (HandlerService:555-559 checks before it removes).
OnlyPhantomsRemoved ==
  [][\A t \in txs \ txs' :
       t \notin enlisted /\ \A l \in links : l.parent # t]_vars

\* As long as nothing fails or restarts, a call between two branches that both
\* did some work is linked once every line is read: cleanup() may only cost the
\* hierarchy branches that never enlisted a participant (HandlerService:551-562).
\* It takes a parent that calls two others at most, or one only if that one may
\* be removed: a bag with a removed branch in it is refused as a whole.
WorkIsLinked ==
  (AllRead /\ failures = 0 /\ restarts = 0) =>
    \A l \in CallLinks :
      (l.parent \in enlisted /\ l.subordinate \in enlisted) => l \in links

\* The two ends of a request: the abstract state of handleRequest().
Met ==
  [r \in Request |->
     IF FindRequest(r) # {} THEN "waiting"
     ELSE IF \E l \in links : /\ Sends(l.parent.node, r)
                              /\ Serves(l.subordinate.node, l.subordinate.txuid, r)
          THEN "joined"
          ELSE "none"]

R == INSTANCE Rendezvous WITH met <- Met

\* Every step of the monitors is a step of the rendezvous or a stutter: the two
\* ends meet once, the record goes in the same step as the link comes, and the
\* link is there for good (HandlerService:61-71 and 260-273).
RendezvousSpec == R!Spec

\* What the tables say of the branch that began with a line.
Recorded ==
  [b \in LoggedRows |-> IF b \in txs THEN "there"
                        ELSE IF b.line < next[b.node] THEN "gone" ELSE "none"]
LinkedUnder ==
  [b \in LoggedRows |-> {l.subordinate : l \in {k \in links : k.parent = b}}]

\* The branch that called each, as the logs have it.
Callers ==
  [s \in LoggedRows |->
     IF \E p \in LoggedRows : IsCall(p, s) THEN CHOOSE p \in LoggedRows : IsCall(p, s)
                                           ELSE NoRow]

F == INSTANCE Forest WITH
       Branch <- LoggedRows, NoBranch <- NoRow, Caller <- Callers,
       row <- Recorded, subordinates <- LinkedUnder

\* Every step of the monitors, the failed ones and those of a restart included,
\* is a step of the forest or a stutter: no branch comes back, none loses its
\* link while it is there, and one that has done some work stays
\* (HandlerService:51-73, 260-283 and 551-562).  It takes parents that call
\* two others at most.
ForestSpec == F!Spec

=============================================================================
