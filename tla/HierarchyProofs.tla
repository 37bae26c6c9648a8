--------------------------- MODULE HierarchyProofs ---------------------------
(***************************************************************************)
(* Proofs about Hierarchy.                                                  *)
(*                                                                          *)
(* For every set of nodes, every logs and any number of failures and        *)
(* restarts: the types, OnlyPhantomsRemoved, and LinksAreCalls whenever     *)
(* each request is logged once by its sender and begins one subordinate.    *)
(* Where a branch calls two others at most and no Begin is lost, whatever   *)
(* else is: the rows are a Forest, no link is taken back.                   *)
(*                                                                          *)
(* What becomes of every call, as long as nothing fails and no monitor      *)
(* restarts: the two ends meet, and no record is left behind                *)
(* (NoOrphanRecord); the link is there when all lines are read, and lost    *)
(* only with a branch that cleanup() takes away (HierarchyComplete,         *)
(* WorkIsLinked); and the monitors are a Rendezvous.                        *)
(***************************************************************************)
EXTENDS Hierarchy, TLAPS

-----------------------------------------------------------------------------
(* Facts about the logs.                                                    *)

\* What the handlers take from a line has the type they expect.
LEMMA LineTypes ==
  ASSUME NEW n \in Node, NEW k \in DOMAIN Log[n]
  PROVE  /\ k \in Nat /\ k >= 1 /\ k <= Len(Log[n])
         /\ Len(Log[n]) \in Nat
         /\ Log[n][k] \in Line
         /\ Log[n][k].type = "Begin" =>
              Log[n][k].txuid \in TxUid /\ Log[n][k].thread \in Thread
         /\ Log[n][k].type = "send_request" => Log[n][k].request \in Request
         /\ Log[n][k].type = "receive_request" =>
              Log[n][k].request \in Request /\ Log[n][k].thread \in Thread
         /\ Log[n][k].type \in {"enlist", "get_status"} =>
              Log[n][k].txuid \in TxUid
<1>1. Log[n] \in Seq(Line)
  BY LogAssumption
<1>2. k \in Nat /\ k >= 1 /\ k <= Len(Log[n]) /\ Len(Log[n]) \in Nat /\ Log[n][k] \in Line
  BY <1>1
<1>3. CASE Log[n][k] \in [type : {"Begin"}, txuid : TxUid, thread : Thread]
  BY <1>2, <1>3
<1>4. CASE Log[n][k] \in [type : {"send_request"}, request : Request]
  BY <1>2, <1>4
<1>5. CASE Log[n][k] \in [type : {"receive_request"}, thread : Thread, request : Request]
  BY <1>2, <1>5
<1>6. CASE Log[n][k] \in [type : {"enlist", "get_status"}, txuid : TxUid]
  BY <1>2, <1>6
<1> QED BY <1>2, <1>3, <1>4, <1>5, <1>6 DEF Line

-----------------------------------------------------------------------------
(* Type correctness.                                                        *)

\* A step finds the local variables it reads set: part of the inductive
\* invariant for the types of the tables.
LocalsSet ==
  \A n \in Node :
    /\ pc[n] \in {"find", "insert", "refind", "load", "link"} =>
         job[n].request \in Request
    /\ pc[n] = "load" => job[n].rec \in RequestRecord
    /\ pc[n] = "link" => job[n].parent \in Row /\ job[n].subordinate \in Row

Typed == TypeOK /\ LocalsSet

\* The value the local variables have between two handlers has their type.
LEMMA NoJobType == NoJob \in Job
BY DEF NoJob, Job

\* Monitors, handlers and tables start typed.
LEMMA InitTyped == Init => Typed
BY ConstantsAssumption, NoJobType DEF Init, Typed, TypeOK, LocalsSet, Steps

\* Entering handleRequest with a request of the log keeps the locals typed.
LEMMA HandleRequestTyped ==
  ASSUME Typed, NEW n \in Node, NEW r \in Request,
         NEW u \in TxUid \cup {NoTxUid}, HandleRequest(n, r, u)
  PROVE  /\ pc' \in [Node -> Steps] /\ job' \in [Node -> Job]
         /\ LocalsSet'
<1>1. [NoJob EXCEPT !.request = r, !.txuid = u] \in Job
  BY NoJobType DEF NoJob, Job
<1>2. pc' \in [Node -> Steps] /\ job' \in [Node -> Job]
  BY <1>1 DEF HandleRequest, GoTo, Typed, TypeOK, Steps
<1>3. LocalsSet'
  BY <1>1, NoJobType DEF HandleRequest, GoTo, Typed, TypeOK, LocalsSet, NoJob
<1> QED BY <1>2, <1>3

\* Leaving a handler keeps the locals typed.
LEMMA FinishTyped ==
  ASSUME Typed, NEW n \in Node, Finish(n)
  PROVE  /\ pc' \in [Node -> Steps] /\ job' \in [Node -> Job]
         /\ LocalsSet'
BY NoJobType DEF Finish, Typed, TypeOK, LocalsSet, Steps

\* Every step keeps variables, tables and locals typed.
LEMMA NextTyped == Typed /\ [Next]_vars => Typed'
<1> SUFFICES ASSUME Typed, [Next]_vars PROVE Typed'
  OBVIOUS
<1>1. ASSUME NEW n \in Node, Begin(n) PROVE Typed'
  <2>1. /\ next[n] \in DOMAIN Log[n]
        /\ Current(n).txuid \in TxUid
        /\ Current(n).thread \in Thread
    BY <1>1, LineTypes DEF Begin, AtLine, Current
  <2>2. /\ job' \in [Node -> Job] /\ pc' \in [Node -> Steps]
        /\ LocalsSet'
    <3>1. CASE threadReqMap[n][Current(n).thread] = NoRequest
      BY <1>1, <3>1 DEF Begin, Typed, TypeOK, LocalsSet
    <3>2. CASE threadReqMap[n][Current(n).thread] # NoRequest
      <4>1. threadReqMap[n][Current(n).thread] \in Request
        BY <2>1, <3>2 DEF Typed, TypeOK
      <4> QED BY <1>1, <2>1, <3>2, <4>1, HandleRequestTyped DEF Begin
    <3> QED BY <3>1, <3>2
  <2>3. txs' \subseteq Row
    BY <1>1, <2>1 DEF Begin, Row, Typed, TypeOK
  <2>4. threadReqMap' \in [Node -> [Thread -> Request \cup {NoRequest}]]
    BY <1>1, <2>1 DEF Begin, Dissociate, Typed, TypeOK
  <2>5. next' \in [Node -> Nat \ {0}]
    BY <1>1 DEF Begin, Typed, TypeOK
  <2>6. TypeOK'
    BY <1>1, <2>2, <2>3, <2>4, <2>5 DEF Begin, Typed, TypeOK
  <2> QED BY <2>2, <2>6 DEF Typed
<1>2. ASSUME NEW n \in Node, CheckIfParent(n) PROVE Typed'
  <2>1. Current(n).request \in Request
    BY <1>2, LineTypes DEF CheckIfParent, AtLine, Current
  <2>2. /\ job' \in [Node -> Job] /\ pc' \in [Node -> Steps]
        /\ LocalsSet'
    BY <1>2, <2>1, HandleRequestTyped DEF CheckIfParent
  <2>3. next' \in [Node -> Nat \ {0}]
    BY <1>2 DEF CheckIfParent, Typed, TypeOK
  <2>4. TypeOK'
    BY <1>2, <2>2, <2>3 DEF CheckIfParent, Typed, TypeOK
  <2> QED BY <2>2, <2>4 DEF Typed
<1>3. ASSUME NEW n \in Node, AssociateThread(n) PROVE Typed'
  <2>1. Current(n).request \in Request /\ Current(n).thread \in Thread
    BY <1>3, LineTypes DEF AssociateThread, AtLine, Current
  <2> QED BY <1>3, <2>1 DEF AssociateThread, Typed, TypeOK, LocalsSet
<1>4. ASSUME NEW n \in Node, Enlist(n) PROVE Typed'
  BY <1>4 DEF Enlist, Typed, TypeOK, LocalsSet
<1>5. ASSUME NEW n \in Node, CheckPhantom(n) PROVE Typed'
  <2>1. /\ job' \in [Node -> Job] /\ pc' \in [Node -> Steps]
        /\ LocalsSet'
    <3>1. CASE UNCHANGED <<pc, job>>
      BY <3>1 DEF Typed, TypeOK, LocalsSet
    <3>2. ASSUME NEW t \in txs, GoTo(n, "remove"),
                 job' = [job EXCEPT ![n] = [NoJob EXCEPT !.subordinate = t]]
          PROVE  /\ job' \in [Node -> Job] /\ pc' \in [Node -> Steps]
                 /\ LocalsSet'
      <4>1. [NoJob EXCEPT !.subordinate = t] \in Job
        BY NoJobType DEF NoJob, Job, Typed, TypeOK
      <4> QED BY <3>2, <4>1 DEF GoTo, Typed, TypeOK, LocalsSet, Steps
    <3> QED BY <1>5, <3>1, <3>2 DEF CheckPhantom
  <2>2. next' \in [Node -> Nat \ {0}]
    BY <1>5 DEF CheckPhantom, Typed, TypeOK
  <2>3. TypeOK'
    BY <1>5, <2>1, <2>2 DEF CheckPhantom, Typed, TypeOK
  <2> QED BY <2>1, <2>3 DEF Typed
<1>6. ASSUME NEW n \in Node, RemovePhantom(n) PROVE Typed'
  BY <1>6, FinishTyped DEF RemovePhantom, Typed, TypeOK
<1>7. ASSUME NEW n \in Node, NEW rec \in requests,
             job' = [job EXCEPT ![n].rec = rec], GoTo(n, "load"),
             job[n].request \in Request
      PROVE  /\ job' \in [Node -> Job] /\ pc' \in [Node -> Steps]
             /\ LocalsSet'
  <2>1. job' \in [Node -> Job]
    <3>1. job[n] \in Job /\ rec \in RequestRecord
      BY DEF Typed, TypeOK
    <3>2. [job[n] EXCEPT !.rec = rec] \in Job
      BY <3>1 DEF Job
    <3> QED BY <1>7, <3>2 DEF Typed, TypeOK
  <2> QED BY <1>7, <2>1 DEF GoTo, Typed, TypeOK, LocalsSet, Steps, Job
<1>8. ASSUME NEW n \in Node, Find(n) PROVE Typed'
  <2>1. job[n].request \in Request
    BY <1>8 DEF Find, Typed, LocalsSet
  <2>2. CASE \E rec \in FindRequest(job[n].request) :
               job' = [job EXCEPT ![n].rec = rec] /\ GoTo(n, "load")
    BY <1>7, <1>8, <2>1, <2>2 DEF Find, FindRequest, Typed, TypeOK
  <2>3. CASE GoTo(n, "insert") /\ UNCHANGED job
    BY <1>8, <2>1, <2>3 DEF Find, GoTo, Typed, TypeOK, LocalsSet, Steps
  <2> QED BY <1>8, <2>2, <2>3 DEF Find
<1>9. ASSUME NEW n \in Node, Insert(n) PROVE Typed'
  <2>1. job[n].request \in Request /\ job[n].txuid \in TxUid \cup {NoTxUid}
    BY <1>9 DEF Insert, Typed, TypeOK, LocalsSet, Job
  <2>2. requests' \subseteq RequestRecord
    BY <1>9, <2>1 DEF Insert, OnDuplicateKey, RequestRecord, Typed, TypeOK
  <2>3. /\ job' \in [Node -> Job] /\ pc' \in [Node -> Steps]
        /\ LocalsSet'
    <3>1. CASE Finish(n)
      BY <3>1, FinishTyped
    <3>2. CASE OnDuplicateKey(n)
      BY <2>1, <3>2 DEF OnDuplicateKey, GoTo, Typed, TypeOK, LocalsSet, Steps
    <3> QED BY <1>9, <3>1, <3>2 DEF Insert
  <2> QED BY <1>9, <2>2, <2>3 DEF Insert, Typed, TypeOK
<1>10. ASSUME NEW n \in Node, Refind(n) PROVE Typed'
  <2>1. job[n].request \in Request
    BY <1>10 DEF Refind, Typed, LocalsSet
  <2>2. CASE \E rec \in FindRequest(job[n].request) :
               job' = [job EXCEPT ![n].rec = rec] /\ GoTo(n, "load")
    BY <1>7, <1>10, <2>1, <2>2 DEF Refind, FindRequest, Typed, TypeOK
  <2>3. CASE Finish(n)
    BY <1>10, <2>3, FinishTyped DEF Refind, Typed, TypeOK
  <2> QED BY <1>10, <2>2, <2>3 DEF Refind
<1>11. ASSUME NEW n \in Node, Load(n) PROVE Typed'
  <2>1. ASSUME NEW s \in txs, NEW p \in txs, GoTo(n, "link"),
               job' = [job EXCEPT
                         ![n].subordinate = s,
                         ![n].parent = p,
                         ![n].snapshot =
                           {x \in txs : [parent |-> p, subordinate |-> x] \in links}]
        PROVE  /\ job' \in [Node -> Job] /\ pc' \in [Node -> Steps]
               /\ LocalsSet'
    <3>1. job' \in [Node -> Job]
      <4> DEFINE bag == {x \in txs : [parent |-> p, subordinate |-> x] \in links}
      <4>1. job[n] \in Job /\ s \in Row /\ p \in Row /\ bag \in SUBSET Row
        BY DEF Typed, TypeOK
      <4>2. [job[n] EXCEPT !.subordinate = s, !.parent = p, !.snapshot = bag] \in Job
        BY <4>1 DEF Job
      <4>3. job' = [job EXCEPT ![n] = [job[n] EXCEPT !.subordinate = s,
                                         !.parent = p, !.snapshot = bag]]
        BY <2>1 DEF Typed, TypeOK
      <4> QED BY <4>2, <4>3 DEF Typed, TypeOK
    <3>2. job[n].request \in Request
      BY <1>11 DEF Load, Typed, LocalsSet
    <3> QED BY <2>1, <3>1, <3>2 DEF GoTo, Typed, TypeOK, LocalsSet, Steps, Job
  <2>2. /\ job' \in [Node -> Job] /\ pc' \in [Node -> Steps]
        /\ LocalsSet'
    BY <1>11, <2>1, FinishTyped DEF Load
  <2> QED BY <1>11, <2>2 DEF Load, Typed, TypeOK
<1>12. ASSUME NEW n \in Node, CommitHierarchy(n) PROVE Typed'
  <2>1. /\ job[n].parent \in Row /\ job[n].subordinate \in Row
        /\ job[n].snapshot \subseteq Row
    BY <1>12 DEF CommitHierarchy, Typed, TypeOK, LocalsSet, Job
  <2>2. links' \subseteq HierarchyRow
    BY <1>12, <2>1
       DEF CommitHierarchy, KeptLinks, InsertedLinks, HierarchyRow, Typed, TypeOK
  <2>3. requests' \subseteq RequestRecord
    BY <1>12 DEF CommitHierarchy, Typed, TypeOK
  <2> QED BY <1>12, <2>2, <2>3, FinishTyped DEF CommitHierarchy, Typed, TypeOK
<1>13. ASSUME NEW n \in Node, Fail(n) PROVE Typed'
  <2>1. CASE Finish(n)
    BY <1>13, <2>1, FinishTyped DEF Fail, Typed, TypeOK
  <2>2. CASE pc[n] = "insert" /\ GoTo(n, "refind") /\ UNCHANGED job
    BY <1>13, <2>2 DEF Fail, GoTo, Typed, TypeOK, LocalsSet, Steps
  <2> QED BY <1>13, <2>1, <2>2 DEF Fail
<1>14. ASSUME NEW n \in Node, Restart(n) PROVE Typed'
  <2>1. next' \in [Node -> Nat \ {0}]
    BY <1>14, LogAssumption DEF Restart, Typed, TypeOK
  <2> QED BY <1>14, <2>1, FinishTyped DEF Restart, Typed, TypeOK
<1>15. ASSUME NEW n \in Node, LoseLine(n) PROVE Typed'
  BY <1>15 DEF LoseLine, Typed, TypeOK, LocalsSet
<1>16. CASE UNCHANGED vars
  BY <1>16 DEF vars, Typed, TypeOK, LocalsSet
<1> QED
  BY <1>1, <1>2, <1>3, <1>4, <1>5, <1>6, <1>8, <1>9, <1>10, <1>11, <1>12,
     <1>13, <1>14, <1>15, <1>16 DEF Next, Monitor

\* In every run of any cluster the variables have their types.
THEOREM TypeCorrect == Spec => []TypeOK
<1>1. Typed => TypeOK
  BY DEF Typed
<1> QED BY InitTyped, NextTyped, <1>1, PTL DEF Spec

-----------------------------------------------------------------------------
(* The inductive invariant behind LinksAreCalls.                            *)

\* Line k of n is the one that takes request r to handleRequest(r, u).
SideLine(n, k, r, u) ==
  /\ k \in DOMAIN Log[n]
  /\ IF u = NoTxUid
     THEN Log[n][k].type = "send_request" /\ Log[n][k].request = r
     ELSE ServingLine(n, k, r) /\ Log[n][k].txuid = u

\* threadReqMap holds the receive_request of the lines read so far.
ThreadsInv ==
  \A n \in Node : \A th \in Thread :
    threadReqMap[n][th] # NoRequest =>
      Receiving(n, th, next[n], threadReqMap[n][th])

\* A record was left by a line its monitor has read.
RecordsInv ==
  \A rec \in requests :
    \E k \in Nat : k < next[rec.node] /\ SideLine(rec.node, k, rec.request, rec.txuid)

\* rec was made by the end of the request that n is handling.
SameSide(rec, n) ==
  /\ rec.request = job[n].request
  /\ rec.txuid = NoTxUid <=> job[n].txuid = NoTxUid

\* A handler works on the line just read, the record it found came from the
\* other end of the request, and what it is about to link is a call.
JobInv(n) ==
  /\ pc[n] \in {"find", "insert", "refind", "load"} =>
       /\ SideLine(n, next[n] - 1, job[n].request, job[n].txuid)
       /\ \A rec \in requests : ~SameSide(rec, n)
  /\ pc[n] = "load" =>
       /\ job[n].rec.request = job[n].request
       /\ ~SameSide(job[n].rec, n)
       /\ \E k \in Nat :
            SideLine(job[n].rec.node, k, job[n].rec.request, job[n].rec.txuid)
  /\ pc[n] = "link" =>
       \A x \in job[n].snapshot \cup {job[n].subordinate} : IsCall(job[n].parent, x)

\* What a step has to keep beside the types.
Kept ==
  LinksAreCalls /\ ThreadsInv /\ RecordsInv /\ \A n \in Node : JobInv(n)

IInv ==
  /\ Typed
  /\ LinksAreCalls
  /\ ThreadsInv
  /\ RecordsInv
  /\ \A n \in Node : JobInv(n)

\* Where every request has one sender and one server, the line that takes it
\* to handleRequest is unique on either side.
LEMMA SideLineUnique ==
  ASSUME CallsUnique, NEW n \in Node, NEW m \in Node, NEW r \in Request,
         NEW i, NEW j, NEW u, NEW v, SideLine(n, i, r, u), SideLine(m, j, r, v),
         u = NoTxUid <=> v = NoTxUid
  PROVE  n = m /\ i = j
<1>1. CASE u = NoTxUid
  BY <1>1 DEF SideLine, CallsUnique
<1>2. CASE u # NoTxUid
  BY <1>2 DEF SideLine, CallsUnique
<1> QED BY <1>1, <1>2

\* A thread keeps its request over a line that does not bind it again.
LEMMA ReceivingStep ==
  ASSUME NEW n \in Node, NEW th \in Thread, NEW r, NEW k \in Nat,
         Receiving(n, th, k, r),
         k \in DOMAIN Log[n] =>
           ~(/\ Log[n][k].type \in {"Begin", "receive_request"}
             /\ Log[n][k].thread = th)
  PROVE  Receiving(n, th, k + 1, r)
<1>1. PICK i \in DOMAIN Log[n] :
        /\ i < k
        /\ Log[n][i].type = "receive_request"
        /\ Log[n][i].thread = th
        /\ Log[n][i].request = r
        /\ \A j \in DOMAIN Log[n] :
             (i < j /\ j < k /\ Log[n][j].type \in {"Begin", "receive_request"})
               => Log[n][j].thread # th
  BY DEF Receiving
<1>2. i < k + 1
  BY <1>1, LineTypes
<1>3. ASSUME NEW j \in DOMAIN Log[n], i < j, j < k + 1,
             Log[n][j].type \in {"Begin", "receive_request"}
      PROVE  Log[n][j].thread # th
  <2>1. j < k \/ j = k
    BY <1>3, LineTypes
  <2> QED BY <1>1, <1>3, <2>1
<1> QED BY <1>1, <1>2, <1>3 DEF Receiving

\* The other monitors' handlers are not disturbed unless a record appears.
LEMMA OthersKeep ==
  ASSUME NEW m \in Node, JobInv(m), requests' \subseteq requests,
         pc'[m] = pc[m], job'[m] = job[m], next'[m] = next[m]
  PROVE  JobInv(m)'
BY DEF JobInv, SameSide

\* A handler that has returned has nothing to keep.
LEMMA FinishJob ==
  ASSUME Typed, NEW n \in Node, Finish(n)
  PROVE  /\ JobInv(n)'
         /\ \A m \in Node \ {n} : pc'[m] = pc[m] /\ job'[m] = job[m]
<1>1. pc'[n] = "idle" /\ \A m \in Node \ {n} : pc'[m] = pc[m] /\ job'[m] = job[m]
  BY DEF Finish, Typed, TypeOK
<1> QED BY <1>1 DEF JobInv

\* The line just read is the only one of its side: no record of it can exist.
LEMMA HandleRequestJob ==
  ASSUME CallsUnique, IInv, NEW n \in Node, NEW r \in Request,
         NEW u \in TxUid \cup {NoTxUid},
         SideLine(n, next[n], r, u), HandleRequest(n, r, u),
         next' = [next EXCEPT ![n] = @ + 1], UNCHANGED requests
  PROVE  /\ JobInv(n)'
         /\ \A m \in Node \ {n} : pc'[m] = pc[m] /\ job'[m] = job[m]
<1>1. /\ pc'[n] = "find"
      /\ job'[n].request = r
      /\ job'[n].txuid = u
      /\ next'[n] - 1 = next[n]
      /\ \A m \in Node \ {n} : pc'[m] = pc[m] /\ job'[m] = job[m]
  BY DEF HandleRequest, GoTo, NoJob, IInv, Typed, TypeOK
<1>2. ASSUME NEW rec \in requests, rec.request = r,
             rec.txuid = NoTxUid <=> u = NoTxUid
      PROVE  FALSE
  <2>1. rec.node \in Node /\ next[n] \in Nat
    BY DEF IInv, Typed, TypeOK, RequestRecord
  <2>2. PICK k \in Nat : k < next[rec.node] /\ SideLine(rec.node, k, r, rec.txuid)
    BY <1>2 DEF IInv, RecordsInv
  <2>3. rec.node = n /\ k = next[n]
    BY <1>2, <2>1, <2>2, SideLineUnique
  <2> QED BY <2>1, <2>2, <2>3
<1>3. SideLine(n, next'[n] - 1, job'[n].request, job'[n].txuid)
  BY <1>1
<1>4. \A rec \in requests' : ~SameSide(rec, n)'
  BY <1>1, <1>2 DEF SameSide
<1>5. JobInv(n)'
  BY <1>1, <1>3, <1>4 DEF JobInv
<1> QED BY <1>1, <1>5

\* Records stay accounted for while no record appears and monitors read on.
LEMMA RecordsKeep ==
  ASSUME IInv, requests' \subseteq requests, next' \in [Node -> Nat \ {0}],
         \A m \in Node : next'[m] >= next[m]
  PROVE  RecordsInv'
<1> SUFFICES ASSUME NEW rec \in requests
             PROVE  \E k \in Nat : /\ k < next'[rec.node]
                                   /\ SideLine(rec.node, k, rec.request, rec.txuid)
  BY DEF RecordsInv
<1>1. rec.node \in Node
  BY DEF IInv, Typed, TypeOK, RequestRecord
<1>2. PICK k \in Nat : k < next[rec.node] /\ SideLine(rec.node, k, rec.request, rec.txuid)
  BY DEF IInv, RecordsInv
<1>3. k < next'[rec.node]
  <2>1. next[rec.node] \in Nat /\ next'[rec.node] \in Nat /\ next'[rec.node] >= next[rec.node]
    BY <1>1 DEF IInv, Typed, TypeOK
  <2> QED BY <1>2, <2>1
<1> QED BY <1>2, <1>3

\* threadReqMap stays true over a line, except for a thread the line binds.
LEMMA ThreadsKeep ==
  ASSUME IInv, NEW n \in Node, next[n] \in DOMAIN Log[n],
         next' = [next EXCEPT ![n] = @ + 1],
         threadReqMap' \in [Node -> [Thread -> Request \cup {NoRequest}]],
         \A m \in Node : \A th \in Thread :
           threadReqMap'[m][th] # NoRequest =>
             threadReqMap'[m][th] = threadReqMap[m][th],
         \A th \in Thread :
           (/\ Current(n).type \in {"Begin", "receive_request"}
            /\ Current(n).thread = th) => threadReqMap'[n][th] = NoRequest
  PROVE  ThreadsInv'
<1> SUFFICES ASSUME NEW m \in Node, NEW th \in Thread, threadReqMap'[m][th] # NoRequest
             PROVE  Receiving(m, th, next'[m], threadReqMap'[m][th])
  BY DEF ThreadsInv
<1>1. Receiving(m, th, next[m], threadReqMap'[m][th])
  BY DEF IInv, ThreadsInv
<1>2. CASE m # n
  <2>1. next'[m] = next[m]
    BY <1>2 DEF IInv, Typed, TypeOK
  <2> QED BY <1>1, <2>1
<1>3. CASE m = n
  <2>1. next'[n] = next[n] + 1 /\ next[n] \in Nat
    BY DEF IInv, Typed, TypeOK
  <2>2. ~(/\ Log[n][next[n]].type \in {"Begin", "receive_request"}
          /\ Log[n][next[n]].thread = th)
    BY <1>3 DEF Current
  <2>3. Receiving(n, th, next[n] + 1, threadReqMap'[n][th])
    BY <1>1, <1>3, <2>1, <2>2, ReceivingStep
  <2> QED BY <1>3, <2>1, <2>3
<1> QED BY <1>2, <1>3

\* A record found from one end of a request was left by the other end.
LEMMA FoundJob ==
  ASSUME IInv, NEW n \in Node, pc[n] \in {"find", "refind"},
         NEW rec \in FindRequest(job[n].request),
         job' = [job EXCEPT ![n].rec = rec], GoTo(n, "load"),
         UNCHANGED <<next, requests>>
  PROVE  \A m \in Node : JobInv(m)'
<1>1. \A m \in Node \ {n} : pc'[m] = pc[m] /\ job'[m] = job[m]
  BY DEF GoTo, IInv, Typed, TypeOK
<1>2. \A m \in Node \ {n} : JobInv(m)'
  BY <1>1, OthersKeep DEF IInv
<1>3. /\ pc'[n] = "load"
      /\ job'[n].request = job[n].request
      /\ job'[n].txuid = job[n].txuid
      /\ job'[n].rec = rec
  BY DEF GoTo, IInv, Typed, TypeOK, Job
<1>4. rec \in requests /\ rec.request = job[n].request
  BY DEF FindRequest
<1>5. /\ SideLine(n, next[n] - 1, job[n].request, job[n].txuid)
      /\ \A x \in requests : ~SameSide(x, n)
  BY DEF IInv, JobInv
<1>6. \E k \in Nat : SideLine(rec.node, k, rec.request, rec.txuid)
  BY <1>4 DEF IInv, RecordsInv
<1>7. ~SameSide(rec, n)' /\ \A x \in requests' : ~SameSide(x, n)'
  BY <1>3, <1>4, <1>5 DEF SameSide
<1>8. JobInv(n)'
  BY <1>3, <1>4, <1>5, <1>6, <1>7 DEF JobInv
<1> QED BY <1>2, <1>8

\* createHierarchy() called from either end names the two ends of a call.
LEMMA FoundIsCall ==
  ASSUME IInv, NEW n \in Node, pc[n] = "load", NEW s, NEW p,
         FindNatural(SubordinateNode(n), CallTxUid(n)) = {s},
         FindNatural(ParentNode(n), CallTxUid(n)) = {p}
  PROVE  IsCall(p, s)
<1> DEFINE rec == job[n].rec
           r == job[n].request
<1>1. /\ r \in Request /\ rec \in RequestRecord /\ rec.request = r
      /\ SideLine(n, next[n] - 1, r, job[n].txuid)
      /\ ~(rec.txuid = NoTxUid <=> job[n].txuid = NoTxUid)
  BY DEF IInv, Typed, LocalsSet, JobInv, SameSide
<1>2. PICK k \in Nat : SideLine(rec.node, k, r, rec.txuid)
  BY <1>1 DEF IInv, JobInv
<1>3. /\ s.node = SubordinateNode(n) /\ s.txuid = CallTxUid(n)
      /\ p.node = ParentNode(n) /\ p.txuid = CallTxUid(n)
  BY DEF FindNatural
<1>4. CASE FromBegin(n)
  <2>1. Sends(rec.node, r)
    BY <1>1, <1>2, <1>4 DEF FromBegin, SideLine, Sends
  <2>2. Serves(n, job[n].txuid, r)
    BY <1>1, <1>4 DEF FromBegin, SideLine, Serves
  <2> QED BY <1>1, <1>3, <1>4, <2>1, <2>2
          DEF IsCall, SubordinateNode, ParentNode, CallTxUid
<1>5. CASE ~FromBegin(n)
  <2>1. Sends(n, r)
    BY <1>1, <1>5 DEF FromBegin, SideLine, Sends
  <2>2. Serves(rec.node, rec.txuid, r)
    BY <1>1, <1>2, <1>5 DEF FromBegin, SideLine, Serves
  <2> QED BY <1>1, <1>3, <1>5, <2>1, <2>2
          DEF IsCall, SubordinateNode, ParentNode, CallTxUid
<1> QED BY <1>4, <1>5

\* A step that only ends the handler of n, and adds no link and no record.
LEMMA EndingKeeps ==
  ASSUME IInv, NEW n \in Node, Finish(n),
         links' \subseteq links, requests' \subseteq requests,
         UNCHANGED <<next, threadReqMap>>
  PROVE  Kept'
<1>1. LinksAreCalls' /\ ThreadsInv'
  BY DEF IInv, LinksAreCalls, ThreadsInv
<1>2. RecordsInv'
  BY DEF IInv, RecordsInv
<1>3. Typed /\ \A m \in Node : JobInv(m) /\ next'[m] = next[m]
  BY DEF IInv
<1>4. \A m \in Node : JobInv(m)'
  BY <1>3, FinishJob, OthersKeep
<1> QED BY <1>1, <1>2, <1>4 DEF Kept

\* Before any line is read the invariant holds.
LEMMA InitIInv == Init => IInv
<1> SUFFICES ASSUME Init PROVE IInv
  OBVIOUS
<1>1. Typed
  BY InitTyped
<1>2. LinksAreCalls /\ ThreadsInv /\ RecordsInv
  BY DEF Init, LinksAreCalls, ThreadsInv, RecordsInv
<1>3. \A n \in Node : JobInv(n)
  BY DEF Init, JobInv
<1> QED BY <1>1, <1>2, <1>3 DEF IInv

\* Every step of every monitor, failure and restart keeps the invariant, as long
\* as no begin() fails.
LEMMA NextIInv ==
  ASSUME CallsUnique, "Begin" \notin Lossy \/ failures' = 0, IInv, [Next]_vars
  PROVE  IInv'
<1>0. Typed'
  BY NextTyped DEF IInv
<1>t. Typed /\ next \in [Node -> Nat \ {0}] /\ next' \in [Node -> Nat \ {0}]
  BY <1>0 DEF IInv, Typed, TypeOK
<1>m. threadReqMap' \in [Node -> [Thread -> Request \cup {NoRequest}]]
  BY <1>0 DEF Typed, TypeOK
<1>1. ASSUME NEW n \in Node, Begin(n) PROVE Kept'
  <2> DEFINE l == Current(n)
             r == threadReqMap[n][l.thread]
  <2>1. /\ next[n] \in DOMAIN Log[n] /\ l = Log[n][next[n]] /\ l.type = "Begin"
        /\ l.txuid \in TxUid /\ l.thread \in Thread
        /\ next' = [next EXCEPT ![n] = @ + 1]
        /\ UNCHANGED <<links, requests>>
    BY <1>1, LineTypes DEF Begin, AtLine, Current
  <2>2. \A m \in Node : next'[m] >= next[m]
    BY <1>t, <2>1
  <2>3. \A m \in Node \ {n} : next'[m] = next[m]
    BY <1>t, <2>1
  <2>4. LinksAreCalls' /\ RecordsInv'
    BY <1>t, <2>1, <2>2, RecordsKeep DEF IInv, LinksAreCalls
  <2>5. ThreadsInv'
    <3>1. threadReqMap' = [threadReqMap EXCEPT ![n][l.thread] = NoRequest]
      BY <1>1 DEF Begin, Dissociate
    <3>2. /\ \A m \in Node : \A th \in Thread :
               threadReqMap'[m][th] # NoRequest =>
                 threadReqMap'[m][th] = threadReqMap[m][th]
          /\ threadReqMap'[n][l.thread] = NoRequest
      BY <2>1, <3>1 DEF IInv, Typed, TypeOK
    <3> QED BY <1>m, <2>1, <3>2, ThreadsKeep
  <2>6. \A m \in Node : JobInv(m)'
    <3>1. CASE r = NoRequest
      <4>1. UNCHANGED <<pc, job>>
        BY <1>1, <3>1 DEF Begin
      <4>2. pc[n] = "idle"
        BY <1>1 DEF Begin, AtLine
      <4>3. JobInv(n)'
        BY <4>1, <4>2 DEF JobInv
      <4>4. \A m \in Node \ {n} : JobInv(m)'
        BY <2>1, <2>3, <4>1, OthersKeep DEF IInv
      <4> QED BY <4>3, <4>4
    <3>2. CASE r # NoRequest
      <4>1. r \in Request
        BY <2>1, <3>2 DEF IInv, Typed, TypeOK
      <4>2. Receiving(n, l.thread, next[n], r)
        BY <2>1, <3>2 DEF IInv, ThreadsInv
      <4>3. SideLine(n, next[n], r, l.txuid)
        BY <2>1, <4>2, ConstantsAssumption DEF SideLine, ServingLine
      <4>4. HandleRequest(n, r, l.txuid)
        BY <1>1, <3>2 DEF Begin
      <4>5. JobInv(n)' /\ \A m \in Node \ {n} : pc'[m] = pc[m] /\ job'[m] = job[m]
        BY <2>1, <4>1, <4>3, <4>4, HandleRequestJob
      <4>6. \A m \in Node \ {n} : JobInv(m)'
        BY <2>1, <2>3, <4>5, OthersKeep DEF IInv
      <4> QED BY <4>5, <4>6
    <3> QED BY <3>1, <3>2
  <2> QED BY <2>4, <2>5, <2>6 DEF Kept
<1>2. ASSUME NEW n \in Node, CheckIfParent(n) PROVE Kept'
  <2> DEFINE r == Current(n).request
  <2>1. /\ next[n] \in DOMAIN Log[n] /\ Current(n) = Log[n][next[n]]
        /\ Current(n).type = "send_request" /\ r \in Request
        /\ next' = [next EXCEPT ![n] = @ + 1]
        /\ HandleRequest(n, r, NoTxUid)
        /\ UNCHANGED <<threadReqMap, links, requests>>
    BY <1>2, LineTypes DEF CheckIfParent, AtLine, Current
  <2>2. /\ \A m \in Node : next'[m] >= next[m]
        /\ \A m \in Node \ {n} : next'[m] = next[m]
    BY <1>t, <2>1
  <2>3. LinksAreCalls' /\ RecordsInv'
    BY <1>t, <2>1, <2>2, RecordsKeep DEF IInv, LinksAreCalls
  <2>4. ThreadsInv'
    BY <1>m, <2>1, ThreadsKeep
  <2>5. SideLine(n, next[n], r, NoTxUid)
    BY <2>1 DEF SideLine
  <2>6. JobInv(n)' /\ \A m \in Node \ {n} : pc'[m] = pc[m] /\ job'[m] = job[m]
    BY <2>1, <2>5, HandleRequestJob
  <2>7. \A m \in Node \ {n} : JobInv(m)'
    BY <2>1, <2>2, <2>6, OthersKeep DEF IInv
  <2> QED BY <2>3, <2>4, <2>6, <2>7 DEF Kept
<1>3. ASSUME NEW n \in Node, AssociateThread(n) PROVE Kept'
  <2> DEFINE l == Current(n)
  <2>1. /\ next[n] \in DOMAIN Log[n] /\ l = Log[n][next[n]]
        /\ l.type = "receive_request" /\ l.request \in Request /\ l.thread \in Thread
        /\ next' = [next EXCEPT ![n] = @ + 1]
        /\ threadReqMap' = [threadReqMap EXCEPT ![n][l.thread] = l.request]
        /\ pc[n] = "idle"
        /\ UNCHANGED <<pc, job, links, requests>>
    BY <1>3, LineTypes DEF AssociateThread, AtLine, Current
  <2>2. /\ \A m \in Node : next'[m] >= next[m]
        /\ \A m \in Node \ {n} : next'[m] = next[m]
        /\ next'[n] = next[n] + 1
    BY <1>t, <2>1
  <2>3. LinksAreCalls' /\ RecordsInv'
    BY <1>t, <2>1, <2>2, RecordsKeep DEF IInv, LinksAreCalls
  <2>4. \A m \in Node : JobInv(m)'
    <3>1. JobInv(n)'
      BY <2>1 DEF JobInv
    <3> QED BY <2>1, <2>2, <3>1, OthersKeep DEF IInv
  <2>5. ThreadsInv'
    <3> SUFFICES ASSUME NEW m \in Node, NEW th \in Thread, threadReqMap'[m][th] # NoRequest
                 PROVE  Receiving(m, th, next'[m], threadReqMap'[m][th])
      BY DEF ThreadsInv
    <3>1. CASE m = n /\ th = l.thread
      <4>1. threadReqMap'[m][th] = l.request /\ next'[m] = next[n] + 1
        BY <2>1, <2>2, <3>1 DEF IInv, Typed, TypeOK
      <4>2. next[n] \in Nat
        BY <1>t
      <4>3. ~ \E j \in DOMAIN Log[n] : next[n] < j /\ j < next[n] + 1
        BY <4>2, LineTypes
      <4>4. next[n] < next[n] + 1
        BY <4>2
      <4>5. Receiving(n, th, next[n] + 1, l.request)
        BY <2>1, <3>1, <4>3, <4>4 DEF Receiving
      <4> QED BY <3>1, <4>1, <4>5
    <3>2. CASE ~(m = n /\ th = l.thread)
      <4>1. threadReqMap'[m][th] = threadReqMap[m][th]
        BY <2>1, <3>2 DEF IInv, Typed, TypeOK
      <4>2. Receiving(m, th, next[m], threadReqMap'[m][th])
        BY <4>1 DEF IInv, ThreadsInv
      <4>3. CASE m # n
        BY <2>2, <4>2, <4>3
      <4>4. CASE m = n
        <5>1. Receiving(n, th, next[n] + 1, threadReqMap'[n][th])
          BY <1>t, <2>1, <3>2, <4>2, <4>4, ReceivingStep
        <5> QED BY <2>2, <4>4, <5>1
      <4> QED BY <4>3, <4>4
    <3> QED BY <3>1, <3>2
  <2> QED BY <2>3, <2>4, <2>5 DEF Kept
<1>4. ASSUME NEW n \in Node, Enlist(n) PROVE Kept'
  <2>1. /\ next[n] \in DOMAIN Log[n] /\ Current(n).type = "enlist"
        /\ next' = [next EXCEPT ![n] = @ + 1]
        /\ pc[n] = "idle"
        /\ UNCHANGED <<pc, job, threadReqMap, links, requests>>
    BY <1>4 DEF Enlist, AtLine, Current
  <2>2. /\ \A m \in Node : next'[m] >= next[m]
        /\ \A m \in Node \ {n} : next'[m] = next[m]
    BY <1>t, <2>1
  <2>3. LinksAreCalls' /\ RecordsInv'
    BY <1>t, <2>1, <2>2, RecordsKeep DEF IInv, LinksAreCalls
  <2>4. ThreadsInv'
    BY <1>m, <2>1, ThreadsKeep
  <2>5. JobInv(n)'
    BY <2>1 DEF JobInv
  <2>6. \A m \in Node \ {n} : JobInv(m)'
    BY <2>1, <2>2, OthersKeep DEF IInv
  <2> QED BY <2>3, <2>4, <2>5, <2>6 DEF Kept
<1>5. ASSUME NEW n \in Node, CheckPhantom(n) PROVE Kept'
  <2>1. /\ next[n] \in DOMAIN Log[n] /\ Current(n).type = "get_status"
        /\ next' = [next EXCEPT ![n] = @ + 1]
        /\ UNCHANGED <<threadReqMap, links, requests>>
    BY <1>5 DEF CheckPhantom, AtLine, Current
  <2>2. /\ pc'[n] \in {"idle", "remove"}
        /\ \A m \in Node \ {n} : pc'[m] = pc[m] /\ job'[m] = job[m]
    BY <1>5 DEF CheckPhantom, AtLine, GoTo, IInv, Typed, TypeOK
  <2>3. /\ \A m \in Node : next'[m] >= next[m]
        /\ \A m \in Node \ {n} : next'[m] = next[m]
    BY <1>t, <2>1
  <2>4. LinksAreCalls' /\ RecordsInv'
    BY <1>t, <2>1, <2>3, RecordsKeep DEF IInv, LinksAreCalls
  <2>5. ThreadsInv'
    BY <1>m, <2>1, ThreadsKeep
  <2>6. JobInv(n)'
    BY <2>2 DEF JobInv
  <2>7. \A m \in Node \ {n} : JobInv(m)'
    BY <2>1, <2>2, <2>3, OthersKeep DEF IInv
  <2> QED BY <2>4, <2>5, <2>6, <2>7 DEF Kept
<1>6. ASSUME NEW n \in Node, RemovePhantom(n) PROVE Kept'
  BY <1>6, EndingKeeps DEF RemovePhantom
<1>7. ASSUME NEW n \in Node, NEW rec \in FindRequest(job[n].request),
             pc[n] \in {"find", "refind"},
             job' = [job EXCEPT ![n].rec = rec], GoTo(n, "load"),
             UNCHANGED <<next, threadReqMap, links, requests>>
      PROVE  Kept'
  <2>1. LinksAreCalls' /\ ThreadsInv' /\ RecordsInv'
    BY <1>7 DEF IInv, LinksAreCalls, ThreadsInv, RecordsInv
  <2>2. \A m \in Node : JobInv(m)'
    BY <1>7, FoundJob
  <2> QED BY <2>1, <2>2 DEF Kept
<1>8. ASSUME NEW n \in Node, GoTo(n, "insert") \/ GoTo(n, "refind"),
             pc[n] \in {"find", "insert"},
             UNCHANGED <<next, job, threadReqMap, links, requests>>
      PROVE  Kept'
  <2>1. LinksAreCalls' /\ ThreadsInv' /\ RecordsInv'
    BY <1>8 DEF IInv, LinksAreCalls, ThreadsInv, RecordsInv
  <2>2. /\ pc'[n] \in {"insert", "refind"}
        /\ \A m \in Node \ {n} : pc'[m] = pc[m]
    BY <1>8 DEF GoTo, IInv, Typed, TypeOK
  <2>3. JobInv(n)'
    BY <1>8, <2>2 DEF IInv, JobInv, SameSide
  <2>4. \A m \in Node \ {n} : JobInv(m)'
    BY <1>8, <2>2, OthersKeep DEF IInv
  <2> QED BY <2>1, <2>3, <2>4 DEF Kept
<1>9. ASSUME NEW n \in Node, Find(n) PROVE Kept'
  BY <1>7, <1>8, <1>9 DEF Find
<1>10. ASSUME NEW n \in Node, Insert(n) PROVE Kept'
  <2>1. CASE OnDuplicateKey(n)
    BY <1>8, <1>10, <2>1 DEF Insert, OnDuplicateKey
  <2>2. CASE Finish(n) /\ requests' = requests \cup
               {[request |-> job[n].request, node |-> n, txuid |-> job[n].txuid]}
    <3> DEFINE new == [request |-> job[n].request, node |-> n, txuid |-> job[n].txuid]
    <3>1. /\ SideLine(n, next[n] - 1, job[n].request, job[n].txuid)
          /\ job[n].request \in Request
          /\ pc[n] = "insert"
          /\ UNCHANGED <<next, threadReqMap, links>>
      BY <1>10 DEF Insert, IInv, JobInv, Typed, LocalsSet
    <3>2. LinksAreCalls' /\ ThreadsInv'
      BY <3>1 DEF IInv, LinksAreCalls, ThreadsInv
    <3>3. RecordsInv'
      <4>1. next[n] - 1 \in Nat /\ next[n] - 1 < next[n]
        BY <1>t
      <4> QED BY <2>2, <3>1, <4>1 DEF IInv, RecordsInv
    <3>4. JobInv(n)' /\ \A m \in Node \ {n} : pc'[m] = pc[m] /\ job'[m] = job[m]
      BY <1>t, <2>2, FinishJob
    <3>5. ASSUME NEW m \in Node \ {n} PROVE JobInv(m)'
      <4>1. CASE pc[m] \in {"find", "insert", "refind", "load"}
        <5>1. /\ SideLine(m, next[m] - 1, job[m].request, job[m].txuid)
              /\ job[m].request \in Request
              /\ \A x \in requests : ~SameSide(x, m)
          BY <4>1 DEF IInv, JobInv, Typed, LocalsSet
        <5>2. ~SameSide(new, m)
          BY <3>1, <5>1, SideLineUnique DEF SameSide
        <5>3. \A x \in requests' : ~SameSide(x, m)'
          BY <2>2, <3>4, <5>1, <5>2 DEF SameSide
        <5> QED BY <3>1, <3>4, <5>3 DEF IInv, JobInv, SameSide
      <4>2. CASE pc[m] \notin {"find", "insert", "refind", "load"}
        BY <3>1, <3>4, <4>2 DEF IInv, JobInv
      <4> QED BY <4>1, <4>2
    <3> QED BY <3>2, <3>3, <3>4, <3>5 DEF Kept
  <2> QED BY <1>10, <2>1, <2>2 DEF Insert
<1>11. ASSUME NEW n \in Node, Refind(n) PROVE Kept'
  <2>1. CASE Finish(n)
    BY <1>11, <2>1, EndingKeeps DEF Refind
  <2> QED BY <1>7, <1>11, <2>1 DEF Refind
<1>12. ASSUME NEW n \in Node, Load(n) PROVE Kept'
  <2>1. CASE Finish(n)
    BY <1>12, <2>1, EndingKeeps DEF Load
  <2>2. ASSUME NEW s \in txs, NEW p \in txs,
               FindNatural(SubordinateNode(n), CallTxUid(n)) = {s},
               FindNatural(ParentNode(n), CallTxUid(n)) = {p},
               job' = [job EXCEPT
                         ![n].subordinate = s,
                         ![n].parent = p,
                         ![n].snapshot =
                           {x \in txs : [parent |-> p, subordinate |-> x] \in links}],
               GoTo(n, "link")
        PROVE  Kept'
    <3>1. pc[n] = "load" /\ UNCHANGED <<next, threadReqMap, links, requests>>
      BY <1>12 DEF Load
    <3>2. LinksAreCalls' /\ ThreadsInv' /\ RecordsInv'
      BY <3>1 DEF IInv, LinksAreCalls, ThreadsInv, RecordsInv
    <3>3. IsCall(p, s)
      BY <2>2, <3>1, FoundIsCall
    <3>4. /\ pc'[n] = "link"
          /\ job'[n].parent = p /\ job'[n].subordinate = s
          /\ job'[n].snapshot =
                {x \in txs : [parent |-> p, subordinate |-> x] \in links}
          /\ \A m \in Node \ {n} : pc'[m] = pc[m] /\ job'[m] = job[m]
      BY <2>2 DEF GoTo, IInv, Typed, TypeOK, Job
    <3>5. \A x \in job'[n].snapshot : IsCall(p, x)
      BY <3>4 DEF IInv, LinksAreCalls
    <3>6. JobInv(n)'
      BY <3>3, <3>4, <3>5 DEF JobInv
    <3>7. \A m \in Node \ {n} : JobInv(m)'
      BY <3>1, <3>4, OthersKeep DEF IInv
    <3> QED BY <3>2, <3>6, <3>7 DEF Kept
  <2> QED BY <1>12, <2>1, <2>2 DEF Load
<1>13. ASSUME NEW n \in Node, CommitHierarchy(n) PROVE Kept'
  <2>1. \A x \in job[n].snapshot \cup {job[n].subordinate} : IsCall(job[n].parent, x)
    BY <1>13 DEF CommitHierarchy, IInv, JobInv
  <2>2. LinksAreCalls'
    BY <1>13, <2>1 DEF CommitHierarchy, KeptLinks, InsertedLinks, IInv, LinksAreCalls
  <2>3. /\ requests' \subseteq requests /\ Finish(n)
        /\ UNCHANGED <<next, threadReqMap>>
    BY <1>13 DEF CommitHierarchy
  <2>4. ThreadsInv' /\ RecordsInv'
    BY <2>3 DEF IInv, ThreadsInv, RecordsInv
  <2>5. \A m \in Node : JobInv(m)'
    BY <1>t, <2>3, FinishJob, OthersKeep DEF IInv
  <2> QED BY <2>2, <2>4, <2>5 DEF Kept
<1>14. ASSUME NEW n \in Node, Fail(n) PROVE Kept'
  <2>1. CASE Finish(n)
    BY <1>14, <2>1, EndingKeeps DEF Fail
  <2>2. CASE pc[n] = "insert" /\ GoTo(n, "refind") /\ UNCHANGED job
    BY <1>8, <1>14, <2>2 DEF Fail
  <2> QED BY <1>14, <2>1, <2>2 DEF Fail
<1>15. ASSUME NEW n \in Node, Restart(n) PROVE Kept'
  <2>1. PICK k \in next[n] .. Len(Log[n]) + 1 : next' = [next EXCEPT ![n] = k]
    BY <1>15 DEF Restart
  <2>2. /\ threadReqMap' = [threadReqMap EXCEPT ![n] = [th \in Thread |-> NoRequest]]
        /\ Finish(n) /\ UNCHANGED <<links, requests>>
    BY <1>15 DEF Restart
  <2>3. /\ \A m \in Node : next'[m] >= next[m]
        /\ \A m \in Node \ {n} : next'[m] = next[m]
    BY <1>t, <2>1
  <2>4. LinksAreCalls' /\ RecordsInv'
    BY <1>t, <2>2, <2>3, RecordsKeep DEF IInv, LinksAreCalls
  <2>5. ThreadsInv'
    BY <2>2, <2>3 DEF IInv, ThreadsInv, Typed, TypeOK
  <2>6. \A m \in Node : JobInv(m)'
    BY <1>t, <2>2, <2>3, FinishJob, OthersKeep DEF IInv
  <2> QED BY <2>4, <2>5, <2>6 DEF Kept
<1>16. ASSUME NEW n \in Node, LoseLine(n) PROVE Kept'
  <2>1. /\ next[n] \in DOMAIN Log[n] /\ pc[n] = "idle"
        /\ Current(n).type \in {"enlist", "get_status"}
        /\ next' = [next EXCEPT ![n] = @ + 1]
        /\ UNCHANGED <<pc, job, threadReqMap, links, requests>>
    <3>1. failures' # 0
      BY <1>16 DEF LoseLine, IInv, Typed, TypeOK
    <3> QED BY <1>16, <3>1, ConstantsAssumption DEF LoseLine, AtLine, Current
  <2>2. /\ \A m \in Node : next'[m] >= next[m]
        /\ \A m \in Node \ {n} : next'[m] = next[m]
    BY <1>t, <2>1
  <2>3. LinksAreCalls' /\ RecordsInv'
    BY <1>t, <2>1, <2>2, RecordsKeep DEF IInv, LinksAreCalls
  <2>4. ThreadsInv'
    BY <1>m, <2>1, ThreadsKeep
  <2>5. \A m \in Node : JobInv(m)'
    <3>1. JobInv(n)'
      BY <2>1 DEF JobInv
    <3> QED BY <2>1, <2>2, <3>1, OthersKeep DEF IInv
  <2> QED BY <2>3, <2>4, <2>5 DEF Kept
<1>17. ASSUME UNCHANGED vars PROVE Kept'
  <2>1. UNCHANGED <<next, pc, job, threadReqMap, links, requests>>
    BY <1>17 DEF vars
  <2>2. LinksAreCalls' /\ ThreadsInv' /\ RecordsInv'
    BY <2>1 DEF IInv, LinksAreCalls, ThreadsInv, RecordsInv
  <2>3. \A m \in Node : JobInv(m)'
    BY <2>1, OthersKeep DEF IInv
  <2> QED BY <2>2, <2>3 DEF Kept
<1>18. ASSUME Next PROVE Kept'
  <2>1. PICK n \in Node : Monitor(n) \/ Fail(n) \/ LoseLine(n) \/ Restart(n)
    BY <1>18 DEF Next
  <2> QED
    BY <2>1, <1>1, <1>2, <1>3, <1>4, <1>5, <1>6, <1>9, <1>10, <1>11, <1>12, <1>13,
       <1>14, <1>15, <1>16 DEF Monitor
<1> QED BY <1>0, <1>17, <1>18 DEF IInv, Kept

\* Provided requests are unique and begin() itself commits its row, no
\* interleaving, failure or restart makes the monitors link two branches that
\* did not call each other.
THEOREM LinksAreCallsCorrect ==
  CallsUnique /\ "Begin" \notin Lossy => (Spec => []LinksAreCalls)
<1> SUFFICES ASSUME CallsUnique, "Begin" \notin Lossy PROVE Spec => []LinksAreCalls
  OBVIOUS
<1>1. IInv /\ [Next]_vars => IInv'
  BY NextIInv
<1>2. IInv => LinksAreCalls
  BY DEF IInv
<1> QED BY InitIInv, <1>1, <1>2, PTL DEF Spec

-----------------------------------------------------------------------------
(* Phantoms.                                                                *)

\* A row that cleanup() has found idle stays so until it is removed: rows are
\* enlisted by the monitor of their own node, which is busy with cleanup().
PhantomsIdle ==
  \A n \in Node : pc[n] = "remove" =>
    /\ job[n].subordinate.node = n
    /\ job[n].subordinate \notin enlisted

PInv == Typed /\ PhantomsIdle

\* A step after which no monitor has come to a removal, and nothing is enlisted.
LEMMA NoNewPhantom ==
  ASSUME PhantomsIdle, UNCHANGED enlisted,
         \A n \in Node : pc'[n] = "remove" => pc[n] = "remove" /\ job'[n] = job[n]
  PROVE  PhantomsIdle'
BY DEF PhantomsIdle

LEMMA NextPInv == PInv /\ [Next]_vars => PInv'
<1> SUFFICES ASSUME PInv, [Next]_vars PROVE PhantomsIdle'
  BY NextTyped DEF PInv
<1>t. /\ pc \in [Node -> Steps] /\ job \in [Node -> Job]
  BY DEF PInv, Typed, TypeOK
<1> USE DEF PInv
<1>1. ASSUME NEW n \in Node, Enlist(n) PROVE PhantomsIdle'
  <2> SUFFICES ASSUME NEW m \in Node, pc[m] = "remove"
               PROVE  job[m].subordinate \notin enlisted'
    BY <1>1 DEF Enlist, PhantomsIdle
  <2>1. m # n /\ job[m].subordinate.node = m /\ job[m].subordinate \notin enlisted
    BY <1>1 DEF Enlist, AtLine, PhantomsIdle
  <2>2. \A t \in enlisted' \ enlisted : t.node = n
    BY <1>1 DEF Enlist, FindNatural
  <2> QED BY <2>1, <2>2
<1>2. ASSUME NEW n \in Node, CheckPhantom(n) PROVE PhantomsIdle'
  <2>1. CASE UNCHANGED <<pc, job>>
    BY <1>2, <2>1, NoNewPhantom DEF CheckPhantom
  <2>2. ASSUME NEW t \in txs, FindNatural(n, Current(n).txuid) = {t}, IsPhantom(t),
               GoTo(n, "remove"),
               job' = [job EXCEPT ![n] = [NoJob EXCEPT !.subordinate = t]]
        PROVE  PhantomsIdle'
    <3>1. t.node = n /\ t \notin enlisted
      BY <2>2 DEF FindNatural, IsPhantom
    <3>2. job'[n].subordinate = t
      BY <1>t, <2>2 DEF NoJob
    <3>3. \A m \in Node \ {n} : pc'[m] = pc[m] /\ job'[m] = job[m]
      BY <1>t, <2>2 DEF GoTo
    <3>4. UNCHANGED enlisted
      BY <1>2 DEF CheckPhantom
    <3> QED BY <3>1, <3>2, <3>3, <3>4 DEF PhantomsIdle
  <2> QED BY <1>2, <2>1, <2>2 DEF CheckPhantom
<1>3. ASSUME NEW n \in Node,
             UNCHANGED enlisted,
             \A m \in Node \ {n} : pc'[m] = pc[m] /\ job'[m] = job[m],
             pc'[n] # "remove"
      PROVE  PhantomsIdle'
  BY <1>3, NoNewPhantom
<1>4. ASSUME NEW n \in Node, Finish(n), UNCHANGED enlisted PROVE PhantomsIdle'
  BY <1>t, <1>3, <1>4 DEF Finish
<1>5. ASSUME NEW n \in Node, NEW s \in Steps \ {"remove"}, GoTo(n, s), UNCHANGED enlisted,
             \A m \in Node \ {n} : job'[m] = job[m]
      PROVE  PhantomsIdle'
  BY <1>t, <1>3, <1>5 DEF GoTo
<1>6. ASSUME UNCHANGED <<pc, job, enlisted>> PROVE PhantomsIdle'
  BY <1>6, NoNewPhantom
<1>7. ASSUME NEW n \in Node, Begin(n) \/ CheckIfParent(n) \/ AssociateThread(n)
      PROVE  PhantomsIdle'
  <2>1. ASSUME NEW r, NEW u, HandleRequest(n, r, u), UNCHANGED enlisted
        PROVE  PhantomsIdle'
    BY <1>t, <1>5, <2>1 DEF HandleRequest, Steps
  <2> QED BY <1>6, <1>7, <2>1 DEF Begin, CheckIfParent, AssociateThread
<1>8. ASSUME NEW n \in Node,
             Find(n) \/ Insert(n) \/ Refind(n) \/ Load(n) \/ CommitHierarchy(n)
               \/ RemovePhantom(n)
      PROVE  PhantomsIdle'
  <2>1. CASE Find(n)
    BY <1>t, <1>5, <2>1 DEF Find, Steps
  <2>2. CASE Insert(n)
    BY <1>t, <1>4, <1>5, <2>2 DEF Insert, OnDuplicateKey, Steps
  <2>3. CASE Refind(n)
    BY <1>t, <1>4, <1>5, <2>3 DEF Refind, Steps
  <2>4. CASE Load(n)
    BY <1>t, <1>4, <1>5, <2>4 DEF Load, Steps
  <2>5. CASE CommitHierarchy(n) \/ RemovePhantom(n)
    BY <1>4, <2>5 DEF CommitHierarchy, RemovePhantom
  <2> QED BY <1>8, <2>1, <2>2, <2>3, <2>4, <2>5
<1>9. ASSUME NEW n \in Node, Fail(n) \/ LoseLine(n) \/ Restart(n) PROVE PhantomsIdle'
  BY <1>t, <1>4, <1>5, <1>6, <1>9 DEF Fail, LoseLine, Restart, Steps
<1>10. CASE UNCHANGED vars
  BY <1>6, <1>10 DEF vars
<1> QED BY <1>1, <1>2, <1>7, <1>8, <1>9, <1>10 DEF Next, Monitor

\* A row goes by RemovePhantom alone.
LEMMA RemovedByPhantom ==
  ASSUME PInv, [Next]_vars, NEW t \in txs \ txs'
  PROVE  t \notin enlisted /\ \A l \in links : l.parent # t
<1>1. PICK n \in Node : RemovePhantom(n)
  <2>1. \A n \in Node : ~ Begin(n)
    BY DEF Begin
  <2>2. Next
    BY DEF vars
  <2> QED BY <2>1, <2>2
          DEF Next, Monitor, CheckIfParent, AssociateThread, Enlist, CheckPhantom, Find,
              Insert, Refind, Load, CommitHierarchy, Fail, LoseLine, Restart
<1>2. t = job[n].subordinate /\ ~ \E l \in links : l.parent = t
  BY <1>1 DEF RemovePhantom
<1> QED BY <1>1, <1>2 DEF RemovePhantom, PInv, PhantomsIdle

\* Whatever fails or restarts, and whatever the monitors of other nodes link
\* meanwhile, cleanup() removes no row with a participant or a subordinate
\* (HandlerService:551-562).
THEOREM OnlyPhantomsRemovedCorrect == Spec => OnlyPhantomsRemoved
<1>1. Init => PInv
  BY InitTyped DEF Init, PInv, PhantomsIdle
<1>2. PInv /\ [Next]_vars =>
        [\A t \in txs \ txs' :
           t \notin enlisted /\ \A l \in links : l.parent # t]_vars
  BY RemovedByPhantom
<1> QED BY NextPInv, <1>1, <1>2, PTL DEF Spec, OnlyPhantomsRemoved

-----------------------------------------------------------------------------
(* What the logs have to be like.                                           *)

\* A node begins its branch of a transaction once.
BeginsOnce ==
  \A n \in Node : \A i, j \in DOMAIN Log[n] :
    (/\ Log[n][i].type = "Begin" /\ Log[n][j].type = "Begin"
     /\ Log[n][i].txuid = Log[n][j].txuid) => i = j

\* A request is sent in a transaction that its sender has begun.
SentWithin ==
  \A n, m \in Node : \A r \in Request :
    \A i \in DOMAIN Log[n], k \in DOMAIN Log[m] :
      (/\ Log[n][i].type = "send_request" /\ Log[n][i].request = r
       /\ ServingLine(m, k, r)) =>
        \E j \in DOMAIN Log[n] : /\ j < i /\ Log[n][j].type = "Begin"
                                 /\ Log[n][j].txuid = Log[m][k].txuid

LogsInOrder == CallsUnique /\ BeginsOnce /\ SentWithin

\* The status of a branch is queried before it has a participant, so that
\* cleanup() may take it for a phantom.
MayGo(t) ==
  \E k \in DOMAIN Log[t.node] :
    /\ t.line < k /\ Log[t.node][k].type = "get_status" /\ Log[t.node][k].txuid = t.txuid
    /\ \A j \in DOMAIN Log[t.node] :
         (t.line < j /\ j < k /\ Log[t.node][j].type = "enlist")
           => Log[t.node][j].txuid # t.txuid

\* A branch calls two others at most, and one only if that may go.  (With three
\* the rewriting of the bag loses links, and with one that goes the bag cannot
\* be written.)
FewCalls ==
  \A p, x, y, z \in LoggedRows :
    /\ IsCall(p, x) /\ IsCall(p, y) /\ IsCall(p, z) => x = y \/ y = z \/ x = z
    /\ IsCall(p, x) /\ IsCall(p, y) /\ x # y => ~ MayGo(x)

\* No branch is queried for its status before it has a participant.
NoneMayGo == \A t \in LoggedRows : ~ MayGo(t)

\* Every request that is sent is served, and every one served was sent.
EveryCallAnswered ==
  \A r \in Request :
    (\E n \in Node : Sends(n, r)) <=> \E n \in Node : \E k \in DOMAIN Log[n] : ServingLine(n, k, r)

-----------------------------------------------------------------------------
(* The invariant.                                                           *)

\* Request r is the call of s by p.
Call(r, p, s) ==
  /\ p \in LoggedRows /\ s \in LoggedRows /\ p.txuid = s.txuid
  /\ Sends(p.node, r) /\ ServingLine(s.node, s.line, r)

\* A request has two ends.
Ends == {"sender", "server"}
OtherEnd(e) == IF e = "sender" THEN "server" ELSE "sender"

\* handleRequest() is entered without a txuid by the sender.
EndOf(u) == IF u = NoTxUid THEN "sender" ELSE "server"

\* Line k of n is this end of r.
EndLine(n, k, r, end) ==
  /\ k \in DOMAIN Log[n]
  /\ IF end = "sender" THEN Log[n][k].type = "send_request" /\ Log[n][k].request = r
                       ELSE ServingLine(n, k, r)

EndDone(r, end) ==
  \E n \in Node : \E k \in DOMAIN Log[n] : EndLine(n, k, r, end) /\ Handled(n, k)

HasRecord(r, end) == \E rec \in requests : rec.request = r /\ EndOf(rec.txuid) = end

\* Both ends have met.
BothDone(r) == EndDone(r, "sender") /\ EndDone(r, "server")
Settled(r) == BothDone(r) /\ FindRequest(r) = {}

\* Rows: the lines read tell which there are, but for those that may go.
RowsThere ==
  /\ \A t \in txs : t \in LoggedRows /\ t.line < next[t.node]
  /\ \A t \in LoggedRows : t.line < next[t.node] /\ ~ MayGo(t) => t \in txs

\* Rows with a participant: the lines read tell which they are.
EnlistedInv ==
  /\ enlisted \subseteq txs
  /\ \A t \in txs : \A j \in DOMAIN Log[t.node] :
       (/\ t.line < j /\ j < next[t.node]
        /\ Log[t.node][j].type = "enlist" /\ Log[t.node][j].txuid = t.txuid)
         => t \in enlisted

\* cleanup() is about to remove a row that may go.
RemovalInv(n) ==
  pc[n] = "remove" =>
    /\ next[n] - 1 \in DOMAIN Log[n] /\ Log[n][next[n] - 1].type = "get_status"
    /\ job[n].subordinate \in LoggedRows /\ MayGo(job[n].subordinate)
    /\ job[n].subordinate.node = n /\ job[n].subordinate \notin enlisted

RowsInv == RowsThere /\ EnlistedInv /\ \A n \in Node : RemovalInv(n)

\* A thread that is to serve a request is known to.
ServingKnown ==
  \A n \in Node : \A th \in Thread : \A r \in Request :
    Receiving(n, th, next[n], r) => threadReqMap[n][th] = r

\* Records: a record was left by one end, and it waits for the other.
WaitingInv ==
  /\ \A rec \in requests : EndDone(rec.request, EndOf(rec.txuid))
  /\ \A x, y \in requests : x.request = y.request => x = y
  /\ \A r \in Request : \A end \in Ends :
       EndDone(r, end) => HasRecord(r, end) \/ EndDone(r, OtherEnd(end))

\* Links: there is one of every call both of whose ends are done, but for
\* branches that are gone; and of no other.  No record of it is left unless one
\* of the two may go.
LinksInv ==
  /\ \A l \in links :
       /\ l.parent \in txs /\ l.subordinate \in txs
       /\ \E r \in Request : Call(r, l.parent, l.subordinate) /\ Settled(r)
  /\ \A r \in Request : \A p, s \in LoggedRows :
       Call(r, p, s) /\ BothDone(r) =>
         /\ [parent |-> p, subordinate |-> s] \in links \/ p \notin txs \/ s \notin txs
         /\ FindRequest(r) = {} \/ MayGo(p) \/ MayGo(s)

\* The end whose line the handler of n has come to.
HandledEnd(n) == EndOf(job[n].txuid)

HandlerInv(n) ==
  /\ pc[n] \in {"find", "insert", "refind", "load", "link"} =>
       /\ job[n].request \in Request
       /\ EndLine(n, next[n] - 1, job[n].request, HandledEnd(n))
  /\ pc[n] = "refind" => HasRecord(job[n].request, OtherEnd(HandledEnd(n)))
  /\ pc[n] \in {"load", "link"} =>
       /\ job[n].rec \in requests /\ job[n].rec.request = job[n].request
       /\ EndOf(job[n].rec.txuid) = OtherEnd(HandledEnd(n))
  /\ pc[n] = "link" =>
       /\ Call(job[n].request, job[n].parent, job[n].subordinate)
       /\ \A x \in job[n].snapshot :
            \E r \in Request : Call(r, job[n].parent, x) /\ Settled(r)

TablesInv == WaitingInv /\ LinksInv /\ \A n \in Node : HandlerInv(n)

CInv == RowsInv /\ ServingKnown /\ TablesInv

Smooth == failures = 0 /\ restarts = 0

-----------------------------------------------------------------------------
(* Facts about the logs.                                                    *)

\* A thread receives one request at a time.
LEMMA ReceivingUnique ==
  ASSUME NEW n \in Node, NEW th, NEW k \in Nat, NEW r, NEW q,
         Receiving(n, th, k, r), Receiving(n, th, k, q)
  PROVE  r = q
<1>1. PICK i \in DOMAIN Log[n] :
        /\ i < k
        /\ Log[n][i].type = "receive_request"
        /\ Log[n][i].thread = th
        /\ Log[n][i].request = r
        /\ \A x \in DOMAIN Log[n] :
             (i < x /\ x < k /\ Log[n][x].type \in {"Begin", "receive_request"})
               => Log[n][x].thread # th
  BY DEF Receiving
<1>2. PICK j \in DOMAIN Log[n] :
        /\ j < k
        /\ Log[n][j].type = "receive_request"
        /\ Log[n][j].thread = th
        /\ Log[n][j].request = q
        /\ \A x \in DOMAIN Log[n] :
             (j < x /\ x < k /\ Log[n][x].type \in {"Begin", "receive_request"})
               => Log[n][x].thread # th
  BY DEF Receiving
<1>3. i \in Nat /\ j \in Nat
  BY LineTypes
<1>4. ~ (i < j) /\ ~ (j < i)
  BY <1>1, <1>2
<1> QED BY <1>1, <1>2, <1>3, <1>4

\* The request of a thread after line k is the one received at line k, or the
\* one it had before, which a line that binds the thread takes from it.
LEMMA ReceivingBefore ==
  ASSUME NEW n \in Node, NEW th \in Thread, NEW k \in Nat, NEW r,
         Receiving(n, th, k + 1, r)
  PROVE  \/ /\ k \in DOMAIN Log[n] /\ Log[n][k].type = "receive_request"
            /\ Log[n][k].thread = th /\ Log[n][k].request = r
         \/ /\ Receiving(n, th, k, r)
            /\ k \in DOMAIN Log[n] =>
                 ~ (/\ Log[n][k].type \in {"Begin", "receive_request"}
                    /\ Log[n][k].thread = th)
<1>1. PICK i \in DOMAIN Log[n] :
        /\ i < k + 1
        /\ Log[n][i].type = "receive_request"
        /\ Log[n][i].thread = th
        /\ Log[n][i].request = r
        /\ \A j \in DOMAIN Log[n] :
             (i < j /\ j < k + 1 /\ Log[n][j].type \in {"Begin", "receive_request"})
               => Log[n][j].thread # th
  BY DEF Receiving
<1>2. i \in Nat /\ k < k + 1
  BY LineTypes
<1>3. CASE i = k
  BY <1>1, <1>3
<1>4. CASE i # k
  <2>1. i < k
    BY <1>1, <1>2, <1>4
  <2>2. ASSUME NEW j \in DOMAIN Log[n], i < j, j < k,
               Log[n][j].type \in {"Begin", "receive_request"}
        PROVE  Log[n][j].thread # th
    <3>1. j < k + 1
      BY <2>2, LineTypes
    <3> QED BY <1>1, <2>2, <3>1
  <2>3. Receiving(n, th, k, r)
    BY <1>1, <2>1, <2>2 DEF Receiving
  <2> QED BY <1>1, <1>2, <2>1, <2>3
<1> QED BY <1>3, <1>4

\* The row of a Begin line.
LEMMA RowOfLine ==
  ASSUME NEW n \in Node, NEW k \in DOMAIN Log[n], Log[n][k].type = "Begin"
  PROVE  [node |-> n, txuid |-> Log[n][k].txuid, line |-> k] \in LoggedRows
BY DEF LoggedRows

\* What a row says of the line it comes from.
LEMMA LineOfRow ==
  ASSUME NEW t \in LoggedRows
  PROVE  /\ t.node \in Node /\ t.line \in DOMAIN Log[t.node] /\ t.line \in Nat
         /\ Log[t.node][t.line].type = "Begin"
         /\ Log[t.node][t.line].txuid = t.txuid
         /\ t = [node |-> t.node, txuid |-> t.txuid, line |-> t.line]
         /\ t.txuid \in TxUid
<1>1. PICK n \in Node :
        t \in {[node |-> n, txuid |-> Log[n][i].txuid, line |-> i] :
                 i \in {k \in DOMAIN Log[n] : Log[n][k].type = "Begin"}}
  BY DEF LoggedRows
<1>2. PICK i \in DOMAIN Log[n] :
        /\ Log[n][i].type = "Begin"
        /\ t = [node |-> n, txuid |-> Log[n][i].txuid, line |-> i]
  BY <1>1
<1>3. t.node = n /\ t.line = i /\ t.txuid = Log[n][i].txuid
  BY <1>2
<1> QED BY <1>2, <1>3, LineTypes

\* findNatural() has one answer at most.
LEMMA RowUnique ==
  ASSUME BeginsOnce, NEW t \in LoggedRows, NEW x \in LoggedRows,
         t.node = x.node, t.txuid = x.txuid
  PROVE  t = x
<1>1. t.line = x.line
  BY LineOfRow DEF BeginsOnce
<1> QED BY <1>1, LineOfRow

\* A line is the end of one request.
LEMMA EndOfLine ==
  ASSUME NEW n \in Node, NEW k, NEW r, NEW q, NEW a \in Ends, NEW b \in Ends,
         EndLine(n, k, r, a), EndLine(n, k, q, b)
  PROVE  r = q /\ a = b
<1>1. k \in DOMAIN Log[n] /\ k \in Nat
  BY LineTypes DEF EndLine
<1>2. a = b
  BY DEF EndLine, ServingLine, Ends
<1>3. CASE a = "sender"
  BY <1>2, <1>3 DEF EndLine
<1>4. CASE a # "sender"
  BY <1>1, <1>2, <1>4, ReceivingUnique DEF EndLine, ServingLine
<1> QED BY <1>2, <1>3, <1>4

\* An end of a request is one line.
LEMMA EndUnique ==
  ASSUME CallsUnique, NEW n \in Node, NEW m \in Node, NEW i, NEW j, NEW r \in Request,
         NEW a \in Ends, EndLine(n, i, r, a), EndLine(m, j, r, a)
  PROVE  n = m /\ i = j
<1>1. CASE a = "sender"
  BY <1>1 DEF EndLine, CallsUnique
<1>2. CASE a # "sender"
  BY <1>2 DEF EndLine, CallsUnique
<1> QED BY <1>1, <1>2

\* The caller of a request sends it, after its branch has begun.
LEMMA CallSent ==
  ASSUME LogsInOrder, NEW r \in Request, NEW p, NEW s, Call(r, p, s),
         NEW n \in Node, NEW k, EndLine(n, k, r, "sender")
  PROVE  n = p.node /\ p.line < k
<1>1. p \in LoggedRows /\ s \in LoggedRows /\ p.txuid = s.txuid
  BY DEF Call
<1>2. p.node \in Node /\ s.node \in Node
  BY <1>1, LineOfRow
<1>3. PICK i \in DOMAIN Log[p.node] : EndLine(p.node, i, r, "sender")
  BY DEF Call, Sends, EndLine
<1>4. n = p.node /\ i = k
  BY <1>2, <1>3, EndUnique DEF LogsInOrder, Ends
<1>5. PICK j \in DOMAIN Log[p.node] :
        /\ j < i /\ Log[p.node][j].type = "Begin"
        /\ Log[p.node][j].txuid = Log[s.node][s.line].txuid
  BY <1>2, <1>3 DEF LogsInOrder, SentWithin, Call, EndLine, ServingLine
<1>6. j = p.line
  BY <1>1, <1>5, LineOfRow DEF LogsInOrder, BeginsOnce
<1> QED BY <1>4, <1>5, <1>6

\* The line that serves a request is that of the called branch.
LEMMA CallServed ==
  ASSUME CallsUnique, NEW r \in Request, NEW p, NEW s, Call(r, p, s),
         NEW n \in Node, NEW k, EndLine(n, k, r, "server")
  PROVE  n = s.node /\ s.line = k
<1>1. s.node \in Node
  BY LineOfRow DEF Call
<1>2. ServingLine(s.node, s.line, r) /\ ServingLine(n, k, r)
  BY DEF Call, EndLine
<1>3. s.line \in DOMAIN Log[s.node] /\ k \in DOMAIN Log[n]
  BY <1>2 DEF ServingLine
<1> QED BY <1>1, <1>2, <1>3 DEF CallsUnique

\* A request is one call.
LEMMA CallUnique ==
  ASSUME LogsInOrder, NEW r \in Request, NEW p, NEW s, NEW x, NEW y,
         Call(r, p, s), Call(r, x, y)
  PROVE  p = x /\ s = y
<1>1. /\ p \in LoggedRows /\ s \in LoggedRows /\ p.txuid = s.txuid
      /\ x \in LoggedRows /\ y \in LoggedRows /\ x.txuid = y.txuid
  BY DEF Call
<1>2. EndLine(s.node, s.line, r, "server")
  BY DEF Call, EndLine, ServingLine
<1>3. s.node = y.node /\ s.line = y.line
  <2>1. s.node \in Node
    BY <1>1, LineOfRow
  <2> QED BY <1>2, <2>1, CallServed DEF LogsInOrder
<1>4. s = y
  BY <1>1, <1>3, LineOfRow
<1>5. PICK i \in DOMAIN Log[p.node] : EndLine(p.node, i, r, "sender")
  BY DEF Call, Sends, EndLine
<1>6. p.node = x.node
  <2>1. p.node \in Node
    BY <1>1, LineOfRow
  <2> QED BY <1>5, <2>1, CallSent
<1>7. p = x
  BY <1>1, <1>4, <1>6, RowUnique DEF LogsInOrder
<1> QED BY <1>4, <1>7

\* A branch is begun in the service of one request.
LEMMA ServedOnce ==
  ASSUME NEW r \in Request, NEW q \in Request, NEW p, NEW x, NEW s,
         Call(r, p, s), Call(q, x, s)
  PROVE  r = q
<1>1. s.node \in Node
  BY LineOfRow DEF Call
<1>2. EndLine(s.node, s.line, r, "server") /\ EndLine(s.node, s.line, q, "server")
  BY DEF Call, EndLine, ServingLine
<1> QED BY <1>1, <1>2, EndOfLine DEF Ends

\* A call, as the property of the hierarchy sees it.
LEMMA CallIsCall ==
  ASSUME NEW r \in Request, NEW p, NEW s, Call(r, p, s)
  PROVE  IsCall(p, s) /\ p \in LoggedRows /\ s \in LoggedRows
<1>1. s \in LoggedRows
  BY DEF Call
<1>2. Log[s.node][s.line].txuid = s.txuid /\ s.line \in DOMAIN Log[s.node]
  BY <1>1, LineOfRow
<1>3. Serves(s.node, s.txuid, r)
  BY <1>2 DEF Call, Serves
<1> QED BY <1>3 DEF Call, IsCall

\* Conversely, of logged rows.
LEMMA IsCallCall ==
  ASSUME BeginsOnce, NEW p \in LoggedRows, NEW s \in LoggedRows, IsCall(p, s)
  PROVE  \E r \in Request : Call(r, p, s)
<1>1. PICK r \in Request : Sends(p.node, r) /\ Serves(s.node, s.txuid, r)
  BY DEF IsCall
<1>2. PICK k \in DOMAIN Log[s.node] :
        ServingLine(s.node, k, r) /\ Log[s.node][k].txuid = s.txuid
  BY <1>1 DEF Serves
<1>3. k = s.line
  BY <1>2, LineOfRow DEF BeginsOnce, ServingLine
<1> QED BY <1>1, <1>2, <1>3 DEF Call, IsCall

-----------------------------------------------------------------------------
(* The rows.                                                                *)

\* As long as nothing fails, every step is one of a monitor that reads on or
\* goes on with its handler.
LEMMA SmoothStep ==
  ASSUME Typed, [Next]_vars, Smooth'
  PROVE  Smooth /\ ((\E n \in Node : Monitor(n)) \/ UNCHANGED vars)
<1>1. failures \in Nat /\ restarts \in Nat
  BY DEF Typed, TypeOK
<1>2. CASE UNCHANGED vars
  BY <1>2 DEF vars, Smooth
<1>3. ASSUME NEW n \in Node, Fail(n) \/ LoseLine(n) \/ Restart(n) PROVE FALSE
  BY <1>1, <1>3 DEF Fail, LoseLine, Restart, Smooth
<1>4. ASSUME NEW n \in Node, Monitor(n) PROVE Smooth
  BY <1>4 DEF Monitor, Begin, CheckIfParent, AssociateThread, Enlist, CheckPhantom,
              RemovePhantom, Find, Insert, Refind, Load, CommitHierarchy, Smooth
<1> QED BY <1>2, <1>3, <1>4 DEF Next

\* What a step of n leaves alone, and where it reads to.
LEMMA MonitorFrame ==
  ASSUME Typed, NEW n \in Node, Monitor(n)
  PROVE  /\ \A m \in Node \ {n} : pc'[m] = pc[m] /\ job'[m] = job[m]
         /\ \A m \in Node \ {n} : next'[m] = next[m]
         /\ \A m \in Node : next[m] \in Nat \ {0} /\ next'[m] \in Nat \ {0}
         /\ \/ pc[n] = "idle" /\ next[n] \in DOMAIN Log[n] /\ next'[n] = next[n] + 1
            \/ pc[n] # "idle" /\ next'[n] = next[n]
<1>t. /\ next \in [Node -> Nat \ {0}] /\ pc \in [Node -> Steps] /\ job \in [Node -> Job]
  BY DEF Typed, TypeOK
<1>1. CASE \/ Begin(n) \/ CheckIfParent(n) \/ AssociateThread(n) \/ Enlist(n)
           \/ CheckPhantom(n)
  <2>1. /\ pc[n] = "idle" /\ next[n] \in DOMAIN Log[n]
        /\ next' = [next EXCEPT ![n] = @ + 1]
    BY <1>1 DEF Begin, CheckIfParent, AssociateThread, Enlist, CheckPhantom, AtLine
  <2>2. \A m \in Node \ {n} : pc'[m] = pc[m] /\ job'[m] = job[m]
    BY <1>t, <1>1 DEF Begin, CheckIfParent, AssociateThread, Enlist, CheckPhantom,
                      HandleRequest, GoTo
  <2> QED BY <1>t, <2>1, <2>2
<1>2. CASE \/ RemovePhantom(n) \/ Find(n) \/ Insert(n) \/ Refind(n) \/ Load(n)
           \/ CommitHierarchy(n)
  <2>1. pc[n] # "idle" /\ next' = next
    BY <1>2 DEF RemovePhantom, Find, Insert, Refind, Load, CommitHierarchy
  <2>2. \A m \in Node \ {n} : pc'[m] = pc[m] /\ job'[m] = job[m]
    BY <1>t, <1>2 DEF RemovePhantom, Find, Insert, OnDuplicateKey, Refind, Load,
                      CommitHierarchy, Finish, GoTo
  <2> QED BY <1>t, <2>1, <2>2
<1> QED BY <1>1, <1>2 DEF Monitor

\* A step of n that changes no row and reads no line about rows.
LEMMA RowsKeep ==
  ASSUME Typed, RowsInv, NEW n \in Node, Monitor(n), UNCHANGED <<txs, enlisted>>,
         next[n] \in DOMAIN Log[n] /\ pc[n] = "idle" =>
           Log[n][next[n]].type \notin {"Begin", "enlist"},
         RemovalInv(n)'
  PROVE  RowsInv'
<1>f. /\ \A m \in Node \ {n} : pc'[m] = pc[m] /\ job'[m] = job[m]
      /\ \A m \in Node \ {n} : next'[m] = next[m]
      /\ \A m \in Node : next[m] \in Nat \ {0} /\ next'[m] \in Nat \ {0}
      /\ \/ pc[n] = "idle" /\ next[n] \in DOMAIN Log[n] /\ next'[n] = next[n] + 1
         \/ pc[n] # "idle" /\ next'[n] = next[n]
  BY MonitorFrame
<1>l. \A m \in Node : \A k \in DOMAIN Log[m] :
        k < next'[m] => \/ k < next[m]
                        \/ Log[m][k].type \notin {"Begin", "enlist"}
  BY <1>f, LineTypes
<1>1. \A t \in txs : t \in LoggedRows /\ t.line < next'[t.node]
  <2> SUFFICES ASSUME NEW t \in txs PROVE t \in LoggedRows /\ t.line < next'[t.node]
    OBVIOUS
  <2>1. t \in LoggedRows /\ t.line < next[t.node]
    BY DEF RowsInv, RowsThere
  <2>2. t.node \in Node /\ t.line \in Nat
    BY <2>1, LineOfRow
  <2> QED BY <1>f, <2>1, <2>2
<1>2. \A t \in LoggedRows : t.line < next'[t.node] /\ ~ MayGo(t) => t \in txs
  BY <1>l, LineOfRow DEF RowsInv, RowsThere
<1>3. RowsThere'
  BY <1>1, <1>2 DEF RowsThere
<1>4. EnlistedInv'
  <2>1. \A t \in txs : t.node \in Node
    BY LineOfRow DEF RowsInv, RowsThere
  <2> QED BY <1>l, <2>1 DEF RowsInv, EnlistedInv
<1>5. \A m \in Node \ {n} : RemovalInv(m)'
  BY <1>f DEF RowsInv, RemovalInv
<1> QED BY <1>3, <1>4, <1>5 DEF RowsInv

\* begin() makes the row of its line.
LEMMA BeginRows ==
  ASSUME Typed, RowsInv, NEW n \in Node, Begin(n)
  PROVE  RowsInv'
<1> DEFINE new == [node |-> n, txuid |-> Current(n).txuid, line |-> next[n]]
<1>f. /\ \A m \in Node \ {n} : pc'[m] = pc[m] /\ job'[m] = job[m]
      /\ \A m \in Node \ {n} : next'[m] = next[m]
      /\ \A m \in Node : next[m] \in Nat \ {0} /\ next'[m] \in Nat \ {0}
      /\ next[n] \in DOMAIN Log[n] /\ next'[n] = next[n] + 1
  <2>1. pc[n] = "idle"
    BY DEF Begin, AtLine
  <2> QED BY <2>1, MonitorFrame DEF Monitor
<1>0. /\ Log[n][next[n]].type = "Begin" /\ txs' = txs \cup {new} /\ UNCHANGED enlisted
      /\ new = [node |-> n, txuid |-> Log[n][next[n]].txuid, line |-> next[n]]
  BY DEF Begin, AtLine, Current
<1>l. \A m \in Node : \A k \in DOMAIN Log[m] :
        k < next'[m] => k < next[m] \/ (m = n /\ k = next[n])
  BY <1>f, LineTypes
<1>n. new \in LoggedRows
  BY <1>f, <1>0, RowOfLine
<1>1. \A t \in txs' : t \in LoggedRows /\ t.line < next'[t.node]
  <2> SUFFICES ASSUME NEW t \in txs PROVE t \in LoggedRows /\ t.line < next'[t.node]
    BY <1>f, <1>0, <1>n
  <2>1. t \in LoggedRows /\ t.line < next[t.node]
    BY DEF RowsInv, RowsThere
  <2>2. t.node \in Node /\ t.line \in Nat
    BY <2>1, LineOfRow
  <2> QED BY <1>f, <2>1, <2>2
<1>2. ASSUME NEW t \in LoggedRows, t.line < next'[t.node], ~ MayGo(t) PROVE t \in txs'
  <2>1. /\ t.node \in Node /\ t.line \in DOMAIN Log[t.node]
        /\ t = [node |-> t.node, txuid |-> t.txuid, line |-> t.line]
        /\ t.txuid = Log[t.node][t.line].txuid
    BY LineOfRow
  <2>2. CASE t.line < next[t.node]
    BY <1>0, <1>2, <2>2 DEF RowsInv, RowsThere
  <2>3. CASE t.node = n /\ t.line = next[n]
    BY <1>0, <2>1, <2>3
  <2> QED BY <1>l, <1>2, <2>1, <2>2, <2>3
<1>3. RowsThere'
  BY <1>1, <1>2 DEF RowsThere
<1>4. EnlistedInv'
  <2>1. enlisted' \subseteq txs'
    BY <1>0 DEF RowsInv, EnlistedInv
  <2>2. ASSUME NEW t \in txs, NEW j \in DOMAIN Log[t.node], t.line < j, j < next'[t.node],
               Log[t.node][j].type = "enlist", Log[t.node][j].txuid = t.txuid
        PROVE  t \in enlisted'
    <3>1. t.node \in Node
      BY LineOfRow DEF RowsInv, RowsThere
    <3>2. j < next[t.node]
      BY <1>l, <1>0, <2>2, <3>1
    <3> QED BY <1>0, <2>2, <3>2 DEF RowsInv, EnlistedInv
  <2>3. ASSUME NEW j \in DOMAIN Log[n], next[n] < j, j < next'[n] PROVE FALSE
    BY <1>f, <2>3, LineTypes
  <2>4. new.node = n /\ new.line = next[n]
    OBVIOUS
  <2> QED BY <1>0, <2>1, <2>2, <2>3, <2>4 DEF EnlistedInv
<1>5. RemovalInv(n)'
  <2>1. pc[n] = "idle" /\ (pc' = pc \/ pc' = [pc EXCEPT ![n] = "find"])
    BY DEF Begin, AtLine, HandleRequest, GoTo
  <2>2. pc'[n] # "remove"
    BY <2>1 DEF Typed, TypeOK
  <2> QED BY <2>2 DEF RemovalInv
<1>6. \A m \in Node \ {n} : RemovalInv(m)'
  BY <1>f, <1>0 DEF RowsInv, RemovalInv
<1> QED BY <1>3, <1>4, <1>5, <1>6 DEF RowsInv

\* A row of a node is the answer of findNatural() to its txuid.
LEMMA FindsRow ==
  ASSUME BeginsOnce, RowsInv, NEW t \in txs
  PROVE  FindNatural(t.node, t.txuid) = {t}
<1>1. \A x \in txs : x \in LoggedRows
  BY DEF RowsInv, RowsThere
<1>2. \A x \in txs : x.node = t.node /\ x.txuid = t.txuid => x = t
  BY <1>1, RowUnique
<1> QED BY <1>2 DEF FindNatural

\* An enlist line marks the row of its node.
LEMMA EnlistRows ==
  ASSUME BeginsOnce, Typed, RowsInv, NEW n \in Node, Enlist(n)
  PROVE  RowsInv'
<1>0. /\ pc[n] = "idle" /\ Log[n][next[n]].type = "enlist" /\ UNCHANGED <<pc, job, txs>>
      /\ enlisted' = enlisted \cup {t \in txs : FindNatural(n, Log[n][next[n]].txuid) = {t}}
  BY DEF Enlist, AtLine, Current
<1>f. /\ \A m \in Node \ {n} : next'[m] = next[m]
      /\ \A m \in Node : next[m] \in Nat \ {0} /\ next'[m] \in Nat \ {0}
      /\ next[n] \in DOMAIN Log[n] /\ next'[n] = next[n] + 1
  BY <1>0, MonitorFrame DEF Monitor
<1>l. \A m \in Node : \A k \in DOMAIN Log[m] :
        k < next'[m] => k < next[m] \/ (m = n /\ k = next[n])
  BY <1>f, LineTypes
<1>1. \A t \in txs : t \in LoggedRows /\ t.line < next'[t.node]
  <2> SUFFICES ASSUME NEW t \in txs PROVE t \in LoggedRows /\ t.line < next'[t.node]
    OBVIOUS
  <2>1. t \in LoggedRows /\ t.line < next[t.node]
    BY DEF RowsInv, RowsThere
  <2>2. t.node \in Node /\ t.line \in Nat
    BY <2>1, LineOfRow
  <2> QED BY <1>f, <2>1, <2>2
<1>2. \A t \in LoggedRows : t.line < next'[t.node] /\ ~ MayGo(t) => t \in txs
  BY <1>l, <1>0, LineOfRow DEF RowsInv, RowsThere
<1>3. RowsThere'
  BY <1>0, <1>1, <1>2 DEF RowsThere
<1>4. ASSUME NEW t \in txs, NEW j \in DOMAIN Log[t.node], t.line < j, j < next'[t.node],
             Log[t.node][j].type = "enlist", Log[t.node][j].txuid = t.txuid
      PROVE  t \in enlisted'
  <2>1. t.node \in Node
    BY LineOfRow DEF RowsInv, RowsThere
  <2>2. CASE j < next[t.node]
    BY <1>0, <1>4, <2>2 DEF RowsInv, EnlistedInv
  <2>3. CASE t.node = n /\ j = next[n]
    <3>1. FindNatural(n, Log[n][next[n]].txuid) = {t}
      BY <1>4, <2>3, FindsRow
    <3> QED BY <1>0, <3>1
  <2> QED BY <1>l, <1>4, <2>1, <2>2, <2>3
<1>5. EnlistedInv'
  BY <1>0, <1>4 DEF RowsInv, EnlistedInv
<1>6. ASSUME NEW m \in Node, pc'[m] = "remove" PROVE job'[m].subordinate \notin enlisted'
  <2>1. m # n /\ job[m].subordinate.node = m /\ job[m].subordinate \notin enlisted
    BY <1>0, <1>6 DEF RowsInv, RemovalInv
  <2>2. \A t \in enlisted' \ enlisted : t.node = n
    BY <1>0 DEF FindNatural
  <2> QED BY <1>0, <2>1, <2>2
<1>7. \A m \in Node : RemovalInv(m)'
  BY <1>0, <1>6, <1>f DEF RowsInv, RemovalInv
<1> QED BY <1>3, <1>5, <1>7 DEF RowsInv

\* cleanup() takes a row for a phantom only if its status is queried before it
\* has a participant.
LEMMA CheckPhantomRows ==
  ASSUME BeginsOnce, Typed, RowsInv, NEW n \in Node, CheckPhantom(n)
  PROVE  RowsInv'
<1>0. /\ pc[n] = "idle" /\ Log[n][next[n]].type = "get_status" /\ next[n] \in DOMAIN Log[n]
      /\ UNCHANGED <<txs, enlisted>>
  BY DEF CheckPhantom, AtLine, Current
<1>1. next[n] \in Nat /\ next'[n] = next[n] + 1
  BY <1>0, MonitorFrame DEF Monitor
<1>2. RemovalInv(n)'
  <2>1. CASE UNCHANGED <<pc, job>>
    BY <1>0, <2>1 DEF RemovalInv
  <2>2. ASSUME NEW t \in txs, FindNatural(n, Log[n][next[n]].txuid) = {t}, IsPhantom(t),
               job' = [job EXCEPT ![n] = [NoJob EXCEPT !.subordinate = t]]
        PROVE  RemovalInv(n)'
    <3>1. job'[n].subordinate = t
      BY <2>2 DEF Typed, TypeOK, NoJob
    <3>2. t.node = n /\ t.txuid = Log[n][next[n]].txuid
      BY <2>2 DEF FindNatural
    <3>3. t \in LoggedRows /\ t.line < next[n] /\ t \notin enlisted
      BY <2>2, <3>2 DEF RowsInv, RowsThere, IsPhantom
    <3>4. \A j \in DOMAIN Log[n] :
            (t.line < j /\ j < next[n] /\ Log[n][j].type = "enlist") => Log[n][j].txuid # t.txuid
      BY <2>2, <3>2, <3>3 DEF RowsInv, EnlistedInv
    <3>5. MayGo(t)
      BY <1>0, <3>2, <3>3, <3>4 DEF MayGo
    <3> QED BY <1>0, <1>1, <3>1, <3>2, <3>3, <3>5 DEF RemovalInv
  <2> QED BY <2>1, <2>2 DEF CheckPhantom, Current
<1> QED BY <1>0, <1>2, RowsKeep DEF Monitor

\* A row removed by cleanup() may go.
LEMMA RemovePhantomRows ==
  ASSUME Typed, RowsInv, NEW n \in Node, RemovePhantom(n)
  PROVE  RowsInv'
<1> DEFINE t == job[n].subordinate
<1>0. /\ pc[n] = "remove" /\ UNCHANGED <<next, enlisted>> /\ Finish(n)
      /\ txs' = txs \/ txs' = txs \ {t}
  BY DEF RemovePhantom
<1>1. MayGo(t) /\ t \notin enlisted
  BY <1>0 DEF RowsInv, RemovalInv
<1>2. RowsThere'
  BY <1>0, <1>1 DEF RowsInv, RowsThere
<1>3. EnlistedInv'
  BY <1>0, <1>1 DEF RowsInv, EnlistedInv
<1>4. pc'[n] = "idle" /\ \A m \in Node \ {n} : pc'[m] = pc[m] /\ job'[m] = job[m]
  BY <1>0 DEF Typed, TypeOK, Finish
<1>5. \A m \in Node : RemovalInv(m)'
  BY <1>0, <1>4 DEF RowsInv, RemovalInv
<1> QED BY <1>2, <1>3, <1>5 DEF RowsInv

\* Every step of a monitor keeps what the lines read say of the rows.
LEMMA NextRows ==
  ASSUME BeginsOnce, Typed, RowsInv, NEW n \in Node, Monitor(n)
  PROVE  RowsInv'
<1>t. pc \in [Node -> Steps]
  BY DEF Typed, TypeOK
<1>1. CASE CheckIfParent(n) \/ AssociateThread(n)
  <2>1. /\ pc[n] = "idle" /\ Log[n][next[n]].type \notin {"Begin", "enlist"}
        /\ UNCHANGED <<txs, enlisted>> /\ pc'[n] \in {"idle", "find"}
    BY <1>t, <1>1 DEF CheckIfParent, AssociateThread, AtLine, Current, HandleRequest, GoTo
  <2> QED BY <1>1, <2>1, RowsKeep DEF Monitor, RemovalInv
<1>2. CASE Find(n) \/ Insert(n) \/ Refind(n) \/ Load(n) \/ CommitHierarchy(n)
  <2>1. /\ pc[n] # "idle" /\ UNCHANGED <<txs, enlisted>>
        /\ pc'[n] \in {"idle", "insert", "refind", "load", "link"}
    BY <1>t, <1>2 DEF Find, Insert, OnDuplicateKey, Refind, Load, CommitHierarchy,
                      Finish, GoTo
  <2> QED BY <1>2, <2>1, RowsKeep DEF Monitor, RemovalInv
<1> QED BY <1>1, <1>2, BeginRows, EnlistRows, CheckPhantomRows, RemovePhantomRows
        DEF Monitor

\* Every step of a monitor keeps threadReqMap complete.
LEMMA NextServing ==
  ASSUME Typed, Typed', ServingKnown, NEW n \in Node, Monitor(n)
  PROVE  ServingKnown'
<1>f. /\ \A m \in Node \ {n} : next'[m] = next[m]
      /\ \A m \in Node : next[m] \in Nat \ {0} /\ next'[m] \in Nat \ {0}
  BY MonitorFrame
<1>t. threadReqMap \in [Node -> [Thread -> Request \cup {NoRequest}]]
  BY DEF Typed, TypeOK
<1>1. CASE UNCHANGED <<next, threadReqMap>>
  BY <1>1 DEF ServingKnown
<1>2. ASSUME next[n] \in DOMAIN Log[n], next' = [next EXCEPT ![n] = @ + 1],
             \/ /\ Current(n).type = "receive_request"
                /\ threadReqMap' =
                     [threadReqMap EXCEPT ![n][Current(n).thread] = Current(n).request]
             \/ /\ Current(n).type = "Begin"
                /\ threadReqMap' = [threadReqMap EXCEPT ![n][Current(n).thread] = NoRequest]
             \/ Current(n).type \notin {"receive_request", "Begin"} /\ UNCHANGED threadReqMap
      PROVE  ServingKnown'
  <2> SUFFICES ASSUME NEW m \in Node, NEW th \in Thread, NEW r \in Request,
                      Receiving(m, th, next'[m], r)
               PROVE  threadReqMap'[m][th] = r
    BY DEF ServingKnown
  <2>1. CASE m # n
    <3>1. threadReqMap'[m] = threadReqMap[m] /\ next'[m] = next[m]
      BY <1>t, <1>f, <1>2, <2>1
    <3> QED BY <3>1 DEF ServingKnown
  <2>2. CASE m = n
    <3>1. next'[n] = next[n] + 1
      BY <1>f, <1>2 DEF Typed, TypeOK
    <3>2. Receiving(n, th, next[n] + 1, r)
      BY <2>2, <3>1
    <3>3. CASE /\ Log[n][next[n]].type = "receive_request"
               /\ Log[n][next[n]].thread = th /\ Log[n][next[n]].request = r
      BY <1>t, <1>2, <2>2, <3>3 DEF Current
    <3>4. CASE /\ Receiving(n, th, next[n], r)
               /\ ~ (/\ Log[n][next[n]].type \in {"Begin", "receive_request"}
                     /\ Log[n][next[n]].thread = th)
      <4>1. threadReqMap[n][th] = r
        BY <3>4 DEF ServingKnown
      <4>2. threadReqMap'[n][th] = threadReqMap[n][th]
        BY <1>t, <1>2, <3>4 DEF Current
      <4> QED BY <2>2, <4>1, <4>2
    <3> QED BY <1>f, <1>2, <3>2, <3>3, <3>4, ReceivingBefore
  <2> QED BY <2>1, <2>2
<1>3. CASE Begin(n)
  BY <1>2, <1>3 DEF Begin, AtLine, Current, Dissociate
<1>4. CASE CheckIfParent(n) \/ AssociateThread(n) \/ Enlist(n) \/ CheckPhantom(n)
  BY <1>2, <1>4 DEF CheckIfParent, AssociateThread, Enlist, CheckPhantom, AtLine, Current
<1> QED BY <1>1, <1>3, <1>4
        DEF Monitor, RemovePhantom, Find, Insert, Refind, Load, CommitHierarchy

-----------------------------------------------------------------------------
(* The ends of the requests.                                                *)

\* Reading a line that is no end of a request, entering handleRequest() and
\* going on in it leave as many ends done as there were.
LEMMA EndsSame ==
  ASSUME Typed, NEW n \in Node, Monitor(n),
         pc[n] = "idle" =>
           \/ pc'[n] = "find"
           \/ \A r \in Request : \A e \in Ends : ~ EndLine(n, next[n], r, e),
         pc[n] # "idle" =>
           \/ pc'[n] # "idle"
           \/ \A r \in Request : \A e \in Ends : ~ EndLine(n, next[n] - 1, r, e)
  PROVE  \A r \in Request : \A e \in Ends : EndDone(r, e)' <=> EndDone(r, e)
<1>f. /\ \A m \in Node \ {n} : pc'[m] = pc[m]
      /\ \A m \in Node \ {n} : next'[m] = next[m]
      /\ \A m \in Node : next[m] \in Nat \ {0} /\ next'[m] \in Nat \ {0}
      /\ \/ pc[n] = "idle" /\ next[n] \in DOMAIN Log[n] /\ next'[n] = next[n] + 1
         \/ pc[n] # "idle" /\ next'[n] = next[n]
  BY MonitorFrame
<1> SUFFICES ASSUME NEW r \in Request, NEW e \in Ends, NEW m \in Node,
                    NEW k \in DOMAIN Log[m], EndLine(m, k, r, e)
             PROVE  Handled(m, k)' <=> Handled(m, k)
  BY DEF EndDone, EndLine
<1>1. CASE m # n
  BY <1>f, <1>1 DEF Handled
<1>2. CASE m = n
  <2>1. k \in Nat
    BY LineTypes
  <2>2. CASE pc[n] = "idle"
    <3>1. CASE k = next[n]
      BY <1>f, <1>2, <2>1, <2>2, <3>1 DEF Handled
    <3>2. CASE k # next[n]
      BY <1>f, <1>2, <2>1, <2>2, <3>2 DEF Handled
    <3> QED BY <3>1, <3>2
  <2>3. CASE pc[n] # "idle"
    BY <1>f, <1>2, <2>1, <2>3 DEF Handled
  <2> QED BY <2>2, <2>3
<1> QED BY <1>1, <1>2

\* An end whose handler is at work is not done.
LEMMA EndNotDone ==
  ASSUME CallsUnique, NEW n \in Node, pc[n] # "idle", NEW r \in Request, NEW e \in Ends,
         EndLine(n, next[n] - 1, r, e)
  PROVE  ~ EndDone(r, e)
<1> SUFFICES ASSUME NEW m \in Node, NEW k \in DOMAIN Log[m], EndLine(m, k, r, e), Handled(m, k)
             PROVE  FALSE
  BY DEF EndDone
<1>1. m = n /\ k = next[n] - 1
  BY EndUnique
<1> QED BY <1>1 DEF Handled

\* With its handler an end is done, and no other.
LEMMA EndsMore ==
  ASSUME CallsUnique, Typed, NEW n \in Node, Monitor(n), pc[n] # "idle", pc'[n] = "idle",
         NEW r \in Request, NEW e \in Ends, EndLine(n, next[n] - 1, r, e)
  PROVE  \A q \in Request : \A a \in Ends :
           EndDone(q, a)' <=> EndDone(q, a) \/ (q = r /\ a = e)
<1>f. /\ \A m \in Node \ {n} : pc'[m] = pc[m]
      /\ \A m \in Node \ {n} : next'[m] = next[m]
      /\ next[n] \in Nat \ {0} /\ next'[n] = next[n]
  BY MonitorFrame
<1>1. ASSUME NEW m \in Node, NEW k \in DOMAIN Log[m]
      PROVE  Handled(m, k)' <=> Handled(m, k) \/ (m = n /\ k = next[n] - 1)
  <2>1. k \in Nat
    BY LineTypes
  <2>2. CASE m = n
    BY <1>f, <2>1, <2>2 DEF Handled
  <2>3. CASE m # n
    BY <1>f, <2>3 DEF Handled
  <2> QED BY <2>2, <2>3
<1>2. ASSUME NEW q \in Request, NEW a \in Ends, EndDone(q, a)', ~ EndDone(q, a)
      PROVE  q = r /\ a = e
  <2>1. PICK m \in Node : \E k \in DOMAIN Log[m] : EndLine(m, k, q, a) /\ Handled(m, k)'
    BY <1>2 DEF EndDone, EndLine
  <2>2. PICK k \in DOMAIN Log[m] : EndLine(m, k, q, a) /\ Handled(m, k)'
    BY <2>1
  <2>3. m = n /\ k = next[n] - 1
    BY <1>1, <1>2, <2>2 DEF EndDone
  <2> QED BY <2>2, <2>3, EndOfLine
<1>3. ASSUME NEW q \in Request, NEW a \in Ends, EndDone(q, a)
      PROVE  EndDone(q, a)'
  <2>1. PICK m \in Node : \E k \in DOMAIN Log[m] : EndLine(m, k, q, a) /\ Handled(m, k)
    BY <1>3 DEF EndDone
  <2>2. PICK k \in DOMAIN Log[m] : EndLine(m, k, q, a) /\ Handled(m, k)
    BY <2>1
  <2>3. Handled(m, k)'
    BY <1>1, <2>2
  <2> QED BY <2>2, <2>3 DEF EndDone, EndLine
<1>4. EndDone(r, e)'
  <2>1. PICK k \in DOMAIN Log[n] : k = next[n] - 1 /\ EndLine(n, k, r, e)
    BY DEF EndLine
  <2>2. Handled(n, k)'
    BY <1>1, <2>1
  <2> QED BY <2>1, <2>2 DEF EndDone, EndLine
<1> QED BY <1>2, <1>3, <1>4

\* The rows of a call are older than the ends that are done.
LEMMA DoneRows ==
  ASSUME LogsInOrder, Typed, NEW r \in Request, NEW p, NEW s, Call(r, p, s)
  PROVE  /\ EndDone(r, "sender") => p.line < next[p.node]
         /\ EndDone(r, "server") => s.line < next[s.node]
<1>0. /\ p.node \in Node /\ p.line \in Nat /\ s.node \in Node
      /\ next[p.node] \in Nat /\ next[s.node] \in Nat
  BY LineOfRow DEF Call, Typed, TypeOK
<1>1. ASSUME EndDone(r, "sender") PROVE p.line < next[p.node]
  <2>1. PICK m \in Node : \E k \in DOMAIN Log[m] : EndLine(m, k, r, "sender") /\ Handled(m, k)
    BY <1>1 DEF EndDone
  <2>2. PICK k \in DOMAIN Log[m] : EndLine(m, k, r, "sender") /\ Handled(m, k)
    BY <2>1
  <2>3. m = p.node /\ p.line < k
    BY <2>2, CallSent
  <2>4. k < next[p.node] /\ k \in Nat
    BY <2>2, <2>3, LineTypes DEF Handled
  <2> QED BY <1>0, <2>3, <2>4
<1>2. ASSUME EndDone(r, "server") PROVE s.line < next[s.node]
  <2>1. PICK m \in Node : \E k \in DOMAIN Log[m] : EndLine(m, k, r, "server") /\ Handled(m, k)
    BY <1>2 DEF EndDone
  <2>2. PICK k \in DOMAIN Log[m] : EndLine(m, k, r, "server") /\ Handled(m, k)
    BY <2>1
  <2>3. m = s.node /\ s.line = k
    BY <2>2, CallServed DEF LogsInOrder
  <2> QED BY <2>2, <2>3 DEF Handled
<1> QED BY <1>1, <1>2

-----------------------------------------------------------------------------
(* Steps that leave the tables of requests and links as they are.           *)

\* The handler of another monitor, over a step that takes no record of its
\* request away.
LEMMA OtherHandler ==
  ASSUME NEW m \in Node, HandlerInv(m), pc'[m] = pc[m], job'[m] = job[m], next'[m] = next[m],
         pc[m] \in {"find", "insert", "refind", "load", "link"} =>
           \A rec \in requests : rec.request = job[m].request => rec \in requests',
         \A q \in Request : Settled(q) => Settled(q)'
  PROVE  HandlerInv(m)'
<1>1. HandledEnd(m)' = HandledEnd(m)
  BY DEF HandledEnd
<1>2. pc[m] \in {"find", "insert", "refind", "load", "link"} =>
        \A e : HasRecord(job[m].request, e) => HasRecord(job[m].request, e)'
  BY DEF HasRecord
<1>3. pc[m] = "link" => \A x \in job[m].snapshot :
        \E r \in Request : Call(r, job[m].parent, x) /\ Settled(r)'
  BY DEF HandlerInv
<1> QED BY <1>1, <1>2, <1>3 DEF HandlerInv

\* No end is done, no record comes or goes.
LEMMA WaitingKeep ==
  ASSUME WaitingInv, UNCHANGED requests, Typed,
         \A r \in Request : \A e \in Ends : EndDone(r, e)' <=> EndDone(r, e)
  PROVE  /\ WaitingInv'
         /\ \A r \in Request : BothDone(r)' <=> BothDone(r)
         /\ \A r \in Request : Settled(r)' <=> Settled(r)
<1>1. \A r \in Request : BothDone(r)' <=> BothDone(r)
  BY DEF BothDone, Ends
<1>2. \A r \in Request : Settled(r)' <=> Settled(r)
  BY <1>1 DEF Settled, FindRequest
<1>3. \A rec \in requests : rec.request \in Request /\ EndOf(rec.txuid) \in Ends
  BY DEF Typed, TypeOK, RequestRecord, EndOf, Ends
<1>4. \A rec \in requests' : EndDone(rec.request, EndOf(rec.txuid))'
  BY <1>3 DEF WaitingInv
<1>5. \A e \in Ends : OtherEnd(e) \in Ends
  BY DEF OtherEnd, Ends
<1>6. ASSUME NEW r \in Request, NEW e \in Ends, EndDone(r, e)'
      PROVE  HasRecord(r, e)' \/ EndDone(r, OtherEnd(e))'
  <2>1. HasRecord(r, e) \/ EndDone(r, OtherEnd(e))
    BY <1>6 DEF WaitingInv
  <2> QED BY <1>5, <2>1 DEF HasRecord
<1>7. \A x, y \in requests' : x.request = y.request => x = y
  BY DEF WaitingInv
<1> QED BY <1>1, <1>2, <1>4, <1>6, <1>7 DEF WaitingInv

\* Of the calls whose ends are done both rows are old: a new row is in none.
LEMMA LinksKeep ==
  ASSUME LogsInOrder, Typed, LinksInv, UNCHANGED <<requests, links>>,
         txs \subseteq txs', \A t \in txs' \ txs : t.line >= next[t.node],
         \A r \in Request : BothDone(r)' <=> BothDone(r),
         \A r \in Request : Settled(r)' <=> Settled(r)
  PROVE  LinksInv'
<1>1. ASSUME NEW l \in links'
      PROVE  /\ l.parent \in txs' /\ l.subordinate \in txs'
             /\ \E r \in Request : Call(r, l.parent, l.subordinate) /\ Settled(r)'
  BY <1>1 DEF LinksInv
<1>2. ASSUME NEW r \in Request, NEW p \in LoggedRows, NEW s \in LoggedRows,
             Call(r, p, s), BothDone(r)'
      PROVE  /\ [parent |-> p, subordinate |-> s] \in links' \/ p \notin txs' \/ s \notin txs'
             /\ FindRequest(r)' = {} \/ MayGo(p) \/ MayGo(s)
  <2>1. p.line < next[p.node] /\ s.line < next[s.node]
    BY <1>2, DoneRows DEF BothDone
  <2>2. /\ p.line \in Nat /\ s.line \in Nat /\ next[p.node] \in Nat /\ next[s.node] \in Nat
    BY LineOfRow DEF Typed, TypeOK
  <2>3. /\ p \in txs' => p \in txs
        /\ s \in txs' => s \in txs
    BY <2>1, <2>2
  <2>4. /\ [parent |-> p, subordinate |-> s] \in links \/ p \notin txs \/ s \notin txs
        /\ FindRequest(r) = {} \/ MayGo(p) \/ MayGo(s)
    BY <1>2 DEF LinksInv
  <2> QED BY <2>3, <2>4 DEF FindRequest
<1> QED BY <1>1, <1>2 DEF LinksInv

\* A step of n that leaves the tables of requests and links, and after which no
\* further end is done.
LEMMA TablesKeep ==
  ASSUME LogsInOrder, Typed, TablesInv, NEW n \in Node, Monitor(n),
         UNCHANGED <<requests, links>>,
         txs \subseteq txs', \A t \in txs' \ txs : t.line >= next[t.node],
         \A r \in Request : \A e \in Ends : EndDone(r, e)' <=> EndDone(r, e),
         (\A r \in Request : Settled(r)' <=> Settled(r)) => HandlerInv(n)'
  PROVE  TablesInv'
<1>1. /\ WaitingInv'
      /\ \A r \in Request : BothDone(r)' <=> BothDone(r)
      /\ \A r \in Request : Settled(r)' <=> Settled(r)
  BY WaitingKeep DEF TablesInv
<1>2. LinksInv'
  BY <1>1, LinksKeep DEF TablesInv
<1>3. ASSUME NEW m \in Node \ {n} PROVE HandlerInv(m)'
  <2>1. pc'[m] = pc[m] /\ job'[m] = job[m] /\ next'[m] = next[m]
    BY MonitorFrame
  <2> QED BY <1>1, <2>1, OtherHandler DEF TablesInv
<1> QED BY <1>1, <1>2, <1>3 DEF TablesInv

\* begin() comes to handleRequest() whenever its line is the end of a request.
LEMMA BeginTables ==
  ASSUME LogsInOrder, IInv, RowsInv, ServingKnown, TablesInv, NEW n \in Node, Begin(n)
  PROVE  TablesInv'
<1> DEFINE l == Current(n)
           r == threadReqMap[n][l.thread]
           new == [node |-> n, txuid |-> l.txuid, line |-> next[n]]
<1>0. /\ pc[n] = "idle" /\ next[n] \in DOMAIN Log[n] /\ l = Log[n][next[n]]
      /\ l.type = "Begin" /\ l.txuid \in TxUid /\ l.thread \in Thread
      /\ txs' = txs \cup {new} /\ UNCHANGED <<requests, links>>
  BY LineTypes DEF Begin, AtLine, Current
<1>1. Typed /\ Monitor(n) /\ next'[n] - 1 = next[n]
  <2>1. Typed /\ Monitor(n)
    BY DEF IInv, Monitor
  <2> QED BY <1>0, <2>1, MonitorFrame
<1>2. txs \subseteq txs' /\ \A t \in txs' \ txs : t.line >= next[t.node]
  <2>1. next[n] \in Nat
    BY <1>1 DEF Typed, TypeOK
  <2> QED BY <1>0, <2>1
<1>3. CASE r = NoRequest
  <2>1. pc'[n] = "idle"
    BY <1>0, <1>3 DEF Begin
  <2>2. \A q \in Request : \A e \in Ends : ~ EndLine(n, next[n], q, e)
    BY <1>0, <1>3, ConstantsAssumption DEF EndLine, ServingLine, ServingKnown
  <2>3. HandlerInv(n)'
    BY <2>1 DEF HandlerInv
  <2>4. \A q \in Request : \A e \in Ends : EndDone(q, e)' <=> EndDone(q, e)
    BY <1>0, <1>1, <2>2, EndsSame
  <2> QED BY <1>0, <1>1, <1>2, <2>3, <2>4, TablesKeep
<1>4. CASE r # NoRequest
  <2>1. r \in Request /\ Receiving(n, l.thread, next[n], r)
    BY <1>0, <1>4 DEF IInv, ThreadsInv, Typed, TypeOK
  <2>2. pc'[n] = "find" /\ job'[n].request = r /\ job'[n].txuid = l.txuid
    BY <1>4 DEF Begin, HandleRequest, GoTo, NoJob, IInv, Typed, TypeOK
  <2>3. EndLine(n, next[n], r, "server")
    BY <1>0, <2>1 DEF EndLine, ServingLine
  <2>4. HandledEnd(n)' = "server"
    BY <1>0, <2>2, ConstantsAssumption DEF HandledEnd, EndOf
  <2>5. HandlerInv(n)'
    BY <1>1, <2>1, <2>2, <2>3, <2>4 DEF HandlerInv
  <2>6. \A q \in Request : \A e \in Ends : EndDone(q, e)' <=> EndDone(q, e)
    BY <1>0, <1>1, <2>2, EndsSame
  <2> QED BY <1>0, <1>1, <1>2, <2>5, <2>6, TablesKeep
<1> QED BY <1>3, <1>4

\* checkIfParent() comes to handleRequest() with every line.
LEMMA SendTables ==
  ASSUME LogsInOrder, Typed, TablesInv, NEW n \in Node, CheckIfParent(n)
  PROVE  TablesInv'
<1> DEFINE r == Log[n][next[n]].request
<1>0. /\ pc[n] = "idle" /\ next[n] \in DOMAIN Log[n]
      /\ Log[n][next[n]].type = "send_request" /\ r \in Request
      /\ HandleRequest(n, r, NoTxUid)
      /\ UNCHANGED <<txs, requests, links>>
  BY LineTypes DEF CheckIfParent, AtLine, Current
<1>1. Monitor(n) /\ next'[n] - 1 = next[n]
  BY <1>0, MonitorFrame DEF Monitor
<1>2. pc'[n] = "find" /\ job'[n].request = r /\ job'[n].txuid = NoTxUid
  BY <1>0 DEF HandleRequest, GoTo, NoJob, Typed, TypeOK
<1>3. HandledEnd(n)' = "sender" /\ EndLine(n, next[n], r, "sender")
  BY <1>0, <1>2 DEF HandledEnd, EndOf, EndLine
<1>4. HandlerInv(n)'
  BY <1>0, <1>1, <1>2, <1>3 DEF HandlerInv
<1>5. \A q \in Request : \A e \in Ends : EndDone(q, e)' <=> EndDone(q, e)
  BY <1>0, <1>1, <1>2, EndsSame
<1> QED BY <1>0, <1>1, <1>4, <1>5, TablesKeep

\* Lines that are no end of a request.
LEMMA OtherLineTables ==
  ASSUME LogsInOrder, Typed, TablesInv, NEW n \in Node,
         AssociateThread(n) \/ Enlist(n) \/ CheckPhantom(n)
  PROVE  TablesInv'
<1>0. /\ pc[n] = "idle" /\ next[n] \in DOMAIN Log[n]
      /\ Log[n][next[n]].type \in {"receive_request", "enlist", "get_status"}
      /\ UNCHANGED <<txs, requests, links>>
  BY DEF AssociateThread, Enlist, CheckPhantom, AtLine, Current
<1>1. Monitor(n)
  BY DEF Monitor
<1>2. pc'[n] \in {"idle", "remove"}
  BY <1>0 DEF AssociateThread, Enlist, CheckPhantom, GoTo, Typed, TypeOK
<1>3. HandlerInv(n)'
  BY <1>2 DEF HandlerInv
<1>4. \A q \in Request : \A e \in Ends : ~ EndLine(n, next[n], q, e)
  BY <1>0 DEF EndLine, ServingLine
<1>5. \A q \in Request : \A e \in Ends : EndDone(q, e)' <=> EndDone(q, e)
  BY <1>0, <1>1, <1>4, EndsSame
<1> QED BY <1>0, <1>1, <1>3, <1>5, TablesKeep

\* A record found belongs to the other end of the request.
LEMMA FoundOther ==
  ASSUME IInv, NEW n \in Node, pc[n] \in {"find", "insert", "refind", "load"},
         NEW rec \in FindRequest(job[n].request)
  PROVE  /\ rec \in requests /\ rec.request = job[n].request
         /\ EndOf(rec.txuid) = OtherEnd(HandledEnd(n))
<1>1. rec \in requests /\ rec.request = job[n].request /\ ~ SameSide(rec, n)
  BY DEF FindRequest, IInv, JobInv
<1> QED BY <1>1 DEF SameSide, EndOf, OtherEnd, HandledEnd

\* A handler goes on to its next step.
LEMMA GoOnTables ==
  ASSUME LogsInOrder, Typed, TablesInv, NEW n \in Node, Monitor(n),
         pc[n] # "idle", pc'[n] # "idle",
         UNCHANGED <<txs, requests, links>>,
         (\A r \in Request : Settled(r)' <=> Settled(r)) => HandlerInv(n)'
  PROVE  TablesInv'
<1>1. \A q \in Request : \A e \in Ends : EndDone(q, e)' <=> EndDone(q, e)
  BY EndsSame
<1> QED BY <1>1, TablesKeep

\* The record of the other end is found, at once or after a refused insert.
LEMMA FoundTables ==
  ASSUME LogsInOrder, IInv, TablesInv, NEW n \in Node, Monitor(n),
         pc[n] \in {"find", "refind"},
         NEW rec \in FindRequest(job[n].request),
         job' = [job EXCEPT ![n].rec = rec], GoTo(n, "load"),
         UNCHANGED <<next, txs, requests, links>>
  PROVE  TablesInv'
<1>1. /\ pc'[n] = "load" /\ job'[n].request = job[n].request
      /\ job'[n].txuid = job[n].txuid /\ job'[n].rec = rec
  BY DEF GoTo, IInv, Typed, TypeOK, Job
<1>2. /\ rec \in requests /\ rec.request = job[n].request
      /\ EndOf(rec.txuid) = OtherEnd(HandledEnd(n))
  BY FoundOther
<1>3. HandledEnd(n)' = HandledEnd(n)
  BY <1>1 DEF HandledEnd
<1>4. /\ job[n].request \in Request
      /\ EndLine(n, next[n] - 1, job[n].request, HandledEnd(n))
  BY DEF TablesInv, HandlerInv
<1>5. HandlerInv(n)'
  BY <1>1, <1>2, <1>3, <1>4 DEF HandlerInv
<1> QED BY <1>1, <1>5, GoOnTables DEF IInv

\* No record is found, or the insert is refused because there is one.
LEMMA NotFoundTables ==
  ASSUME LogsInOrder, IInv, TablesInv, NEW n \in Node, Monitor(n),
         \/ pc[n] = "find" /\ GoTo(n, "insert")
         \/ pc[n] = "insert" /\ GoTo(n, "refind") /\ FindRequest(job[n].request) # {},
         UNCHANGED <<next, job, txs, requests, links>>
  PROVE  TablesInv'
<1>1. /\ pc'[n] \in {"insert", "refind"}
      /\ pc'[n] = "refind" => pc[n] = "insert" /\ FindRequest(job[n].request) # {}
      /\ pc[n] \in {"find", "insert"}
  BY DEF GoTo, IInv, Typed, TypeOK
<1>2. HandledEnd(n)' = HandledEnd(n)
  BY DEF HandledEnd
<1>3. pc'[n] = "refind" => HasRecord(job[n].request, OtherEnd(HandledEnd(n)))
  BY <1>1, FoundOther DEF HasRecord
<1>4. /\ job[n].request \in Request
      /\ EndLine(n, next[n] - 1, job[n].request, HandledEnd(n))
  BY <1>1 DEF TablesInv, HandlerInv
<1>5. pc'[n] = "refind" => HasRecord(job[n].request, OtherEnd(HandledEnd(n)))'
  BY <1>2, <1>3 DEF HasRecord
<1>6. HandlerInv(n)'
  BY <1>1, <1>2, <1>4, <1>5 DEF HandlerInv
<1> QED BY <1>1, <1>6, GoOnTables DEF IInv

-----------------------------------------------------------------------------
(* createHierarchy().                                                       *)

\* The nodes and the txuid createHierarchy() is called with are those of the
\* lines of the two ends.
LEMMA LoadLines ==
  ASSUME IInv, NEW n \in Node, pc[n] = "load"
  PROVE  /\ job[n].request \in Request
         /\ SubordinateNode(n) \in Node /\ ParentNode(n) \in Node
         /\ \E k \in DOMAIN Log[SubordinateNode(n)] :
              /\ EndLine(SubordinateNode(n), k, job[n].request, "server")
              /\ Log[SubordinateNode(n)][k].txuid = CallTxUid(n)
         /\ \E k \in DOMAIN Log[ParentNode(n)] :
              EndLine(ParentNode(n), k, job[n].request, "sender")
<1> DEFINE rec == job[n].rec
           r == job[n].request
<1>1. /\ r \in Request /\ rec \in RequestRecord /\ rec.request = r
      /\ SideLine(n, next[n] - 1, r, job[n].txuid)
      /\ ~(rec.txuid = NoTxUid <=> job[n].txuid = NoTxUid)
  BY DEF IInv, Typed, LocalsSet, JobInv, SameSide
<1>2. PICK k \in Nat : SideLine(rec.node, k, r, rec.txuid)
  BY <1>1 DEF IInv, JobInv
<1>3. rec.node \in Node
  BY <1>1 DEF RequestRecord
<1>4. CASE FromBegin(n)
  <2>1. /\ EndLine(rec.node, k, r, "sender") /\ k \in DOMAIN Log[rec.node]
    BY <1>1, <1>2, <1>4 DEF FromBegin, SideLine, EndLine
  <2>2. /\ EndLine(n, next[n] - 1, r, "server") /\ next[n] - 1 \in DOMAIN Log[n]
        /\ Log[n][next[n] - 1].txuid = job[n].txuid
    BY <1>1, <1>4 DEF FromBegin, SideLine, EndLine
  <2> QED BY <1>1, <1>3, <1>4, <2>1, <2>2 DEF SubordinateNode, ParentNode, CallTxUid
<1>5. CASE ~FromBegin(n)
  <2>1. /\ EndLine(n, next[n] - 1, r, "sender") /\ next[n] - 1 \in DOMAIN Log[n]
    BY <1>1, <1>5 DEF FromBegin, SideLine, EndLine
  <2>2. /\ EndLine(rec.node, k, r, "server") /\ k \in DOMAIN Log[rec.node]
        /\ Log[rec.node][k].txuid = rec.txuid
    BY <1>1, <1>2, <1>5 DEF FromBegin, SideLine, EndLine
  <2> QED BY <1>1, <1>3, <1>5, <2>1, <2>2 DEF SubordinateNode, ParentNode, CallTxUid
<1> QED BY <1>4, <1>5

\* The rows createHierarchy() finds are those of the call.
LEMMA LoadFindsCall ==
  ASSUME LogsInOrder, IInv, RowsInv, NEW n \in Node, pc[n] = "load",
         NEW s \in txs, NEW p \in txs,
         FindNatural(SubordinateNode(n), CallTxUid(n)) = {s},
         FindNatural(ParentNode(n), CallTxUid(n)) = {p}
  PROVE  Call(job[n].request, p, s)
<1>1. /\ s.node = SubordinateNode(n) /\ s.txuid = CallTxUid(n)
      /\ p.node = ParentNode(n) /\ p.txuid = CallTxUid(n)
  BY DEF FindNatural
<1>2. s \in LoggedRows /\ p \in LoggedRows
  BY DEF RowsInv, RowsThere
<1>3. PICK k \in DOMAIN Log[s.node] :
        /\ EndLine(s.node, k, job[n].request, "server")
        /\ Log[s.node][k].txuid = s.txuid
  BY <1>1, LoadLines
<1>4. k = s.line
  BY <1>2, <1>3, LineOfRow DEF LogsInOrder, BeginsOnce, EndLine, ServingLine
<1>5. ServingLine(s.node, s.line, job[n].request)
  BY <1>3, <1>4 DEF EndLine
<1>6. PICK j \in DOMAIN Log[p.node] : EndLine(p.node, j, job[n].request, "sender")
  BY <1>1, LoadLines
<1>7. Sends(p.node, job[n].request)
  BY <1>6 DEF Sends, EndLine
<1> QED BY <1>1, <1>2, <1>5, <1>7 DEF Call

\* And it finds the rows of the call, if they are there.
LEMMA CallIsFound ==
  ASSUME LogsInOrder, IInv, RowsInv, NEW n \in Node, pc[n] = "load",
         NEW p \in txs, NEW s \in txs, Call(job[n].request, p, s)
  PROVE  /\ FindNatural(SubordinateNode(n), CallTxUid(n)) = {s}
         /\ FindNatural(ParentNode(n), CallTxUid(n)) = {p}
<1>0. job[n].request \in Request /\ SubordinateNode(n) \in Node /\ ParentNode(n) \in Node
  BY LoadLines
<1>1. PICK k \in DOMAIN Log[SubordinateNode(n)] :
        /\ EndLine(SubordinateNode(n), k, job[n].request, "server")
        /\ Log[SubordinateNode(n)][k].txuid = CallTxUid(n)
  BY LoadLines
<1>2. s.node = SubordinateNode(n) /\ s.line = k
  BY <1>0, <1>1, CallServed DEF LogsInOrder
<1>3. s.txuid = CallTxUid(n) /\ p.txuid = s.txuid
  BY <1>1, <1>2, LineOfRow DEF Call
<1>4. PICK j \in DOMAIN Log[ParentNode(n)] :
        EndLine(ParentNode(n), j, job[n].request, "sender")
  BY LoadLines
<1>5. p.node = ParentNode(n)
  BY <1>0, <1>4, CallSent
<1> QED BY <1>2, <1>3, <1>5, FindsRow DEF LogsInOrder

\* createHierarchy() has found both rows.
LEMMA LoadedTables ==
  ASSUME LogsInOrder, IInv, RowsInv, TablesInv, NEW n \in Node, Load(n), pc[n] = "load",
         NEW s \in txs, NEW p \in txs,
         FindNatural(SubordinateNode(n), CallTxUid(n)) = {s},
         FindNatural(ParentNode(n), CallTxUid(n)) = {p},
         GoTo(n, "link"),
         job' = [job EXCEPT
                   ![n].subordinate = s,
                   ![n].parent = p,
                   ![n].snapshot =
                     {x \in txs : [parent |-> p, subordinate |-> x] \in links}]
  PROVE  TablesInv'
<1>0. UNCHANGED <<next, txs, requests, links>> /\ Monitor(n) /\ Typed
  BY DEF Load, Monitor, IInv
<1>1. /\ pc'[n] = "link" /\ job'[n].request = job[n].request
      /\ job'[n].txuid = job[n].txuid /\ job'[n].rec = job[n].rec
      /\ job'[n].subordinate = s /\ job'[n].parent = p
      /\ job'[n].snapshot = {x \in txs : [parent |-> p, subordinate |-> x] \in links}
  BY DEF GoTo, IInv, Typed, TypeOK, Job
<1>2. Call(job[n].request, p, s)
  BY LoadFindsCall
<1>3. \A x \in job'[n].snapshot : \E r \in Request : Call(r, p, x) /\ Settled(r)
  <2> SUFFICES ASSUME NEW x \in job'[n].snapshot
               PROVE  \E r \in Request : Call(r, p, x) /\ Settled(r)
    OBVIOUS
  <2>1. PICK l \in links : l = [parent |-> p, subordinate |-> x]
    BY <1>1
  <2>2. \E r \in Request : Call(r, l.parent, l.subordinate) /\ Settled(r)
    BY DEF TablesInv, LinksInv
  <2> QED BY <2>1, <2>2
<1>4. HandledEnd(n)' = HandledEnd(n)
  BY <1>1 DEF HandledEnd
<1>5. /\ job[n].request \in Request
      /\ EndLine(n, next[n] - 1, job[n].request, HandledEnd(n))
      /\ job[n].rec \in requests /\ job[n].rec.request = job[n].request
      /\ EndOf(job[n].rec.txuid) = OtherEnd(HandledEnd(n))
  BY DEF TablesInv, HandlerInv
<1>6. ASSUME \A r \in Request : Settled(r)' <=> Settled(r) PROVE HandlerInv(n)'
  <2>1. \A x \in job'[n].snapshot : \E r \in Request : Call(r, p, x) /\ Settled(r)'
    BY <1>3, <1>6
  <2>2. next'[n] = next[n] /\ requests' = requests
    BY <1>0
  <2>3. /\ job'[n].request \in Request
        /\ EndLine(n, next'[n] - 1, job'[n].request, HandledEnd(n)')
    BY <1>1, <1>4, <1>5, <2>2
  <2>4. /\ job'[n].rec \in requests' /\ job'[n].rec.request = job'[n].request
        /\ EndOf(job'[n].rec.txuid) = OtherEnd(HandledEnd(n)')
    BY <1>1, <1>4, <1>5, <2>2
  <2>5. /\ Call(job'[n].request, job'[n].parent, job'[n].subordinate)
        /\ \A x \in job'[n].snapshot :
             \E r \in Request : Call(r, job'[n].parent, x) /\ Settled(r)'
    BY <1>1, <1>2, <2>1
  <2>6. pc'[n] # "refind"
    BY <1>1
  <2> QED BY <2>3, <2>4, <2>5, <2>6 DEF HandlerInv
<1>7. pc'[n] # "idle"
  BY <1>1
<1> QED BY <1>0, <1>6, <1>7, GoOnTables

-----------------------------------------------------------------------------
(* Handlers that return.                                                    *)

\* The end that is done when the handler of n returns.
LEMMA EndingEnds ==
  ASSUME LogsInOrder, Typed, TablesInv, NEW n \in Node, Monitor(n),
         pc[n] \in {"insert", "refind", "load", "link"}, Finish(n)
  PROVE  /\ job[n].request \in Request /\ HandledEnd(n) \in Ends
         /\ ~ EndDone(job[n].request, HandledEnd(n))
         /\ \A q \in Request : \A a \in Ends :
              EndDone(q, a)' <=> EndDone(q, a) \/ (q = job[n].request /\ a = HandledEnd(n))
         /\ ~ BothDone(job[n].request)
         /\ \A q \in Request : BothDone(q) => BothDone(q)'
         /\ \A q \in Request : q # job[n].request /\ BothDone(q)' => BothDone(q)
         /\ \A q \in Request :
              q = job[n].request /\ BothDone(q)' => EndDone(q, OtherEnd(HandledEnd(n)))
         /\ HandlerInv(n)'
         /\ \A m \in Node \ {n} : pc'[m] = pc[m] /\ job'[m] = job[m] /\ next'[m] = next[m]
<1> DEFINE r == job[n].request
           e == HandledEnd(n)
<1>1. r \in Request /\ EndLine(n, next[n] - 1, r, e) /\ e \in Ends
  BY DEF TablesInv, HandlerInv, HandledEnd, EndOf, Ends
<1>2. pc'[n] = "idle"
  BY DEF Finish, Typed, TypeOK
<1>3. ~ EndDone(r, e)
  BY <1>1, EndNotDone DEF LogsInOrder
<1>4. \A q \in Request : \A a \in Ends :
        EndDone(q, a)' <=> EndDone(q, a) \/ (q = r /\ a = e)
  BY <1>1, <1>2, EndsMore DEF LogsInOrder
<1>5. ~ BothDone(r)
  BY <1>1, <1>3 DEF BothDone, Ends
<1>6. /\ "sender" \in Ends /\ "server" \in Ends
      /\ e = "sender" => OtherEnd(e) = "server"
      /\ e # "sender" => OtherEnd(e) = "sender"
  BY DEF Ends, OtherEnd
<1>7. \A q \in Request : BothDone(q) => BothDone(q)'
  BY <1>4, <1>6 DEF BothDone
<1>8. \A q \in Request : q # r /\ BothDone(q)' => BothDone(q)
  BY <1>4, <1>6 DEF BothDone
<1>9. ASSUME NEW q \in Request, q = r, BothDone(q)'
      PROVE  EndDone(q, OtherEnd(e))
  <2>1. EndDone(q, "sender")' /\ EndDone(q, "server")'
    BY <1>9 DEF BothDone
  <2>2. CASE e = "sender"
    BY <1>4, <1>6, <1>9, <2>1, <2>2
  <2>3. CASE e = "server"
    BY <1>4, <1>6, <1>9, <2>1, <2>3
  <2> QED BY <1>1, <2>2, <2>3 DEF Ends
<1>10. HandlerInv(n)'
  BY <1>2 DEF HandlerInv
<1> QED BY <1>1, <1>3, <1>4, <1>5, <1>7, <1>8, <1>9, <1>10, MonitorFrame

\* The first end of a request leaves its record.
LEMMA InsertTables ==
  ASSUME LogsInOrder, Typed, TablesInv, NEW n \in Node, Monitor(n), pc[n] = "insert",
         FindRequest(job[n].request) = {},
         requests' = requests \cup
           {[request |-> job[n].request, node |-> n, txuid |-> job[n].txuid]},
         Finish(n), UNCHANGED <<next, txs, links>>
  PROVE  TablesInv'
<1> DEFINE r == job[n].request
           e == HandledEnd(n)
           new == [request |-> r, node |-> n, txuid |-> job[n].txuid]
<1>e. /\ r \in Request /\ e \in Ends /\ ~ EndDone(r, e)
      /\ \A q \in Request : \A a \in Ends :
           EndDone(q, a)' <=> EndDone(q, a) \/ (q = r /\ a = e)
      /\ ~ BothDone(r)
      /\ \A q \in Request : BothDone(q) => BothDone(q)'
      /\ \A q \in Request : q # r /\ BothDone(q)' => BothDone(q)
      /\ \A q \in Request : q = r /\ BothDone(q)' => EndDone(q, OtherEnd(e))
      /\ HandlerInv(n)'
      /\ \A m \in Node \ {n} : pc'[m] = pc[m] /\ job'[m] = job[m] /\ next'[m] = next[m]
  BY EndingEnds
<1>0. /\ new \in requests' /\ new.request = r /\ EndOf(new.txuid) = e
      /\ requests \subseteq requests' /\ \A x \in requests' : x \in requests \/ x = new
      /\ \A x \in requests : x.request # r
      /\ \A x \in requests : x.request \in Request /\ EndOf(x.txuid) \in Ends
  BY DEF HandledEnd, FindRequest, Typed, TypeOK, RequestRecord, EndOf, Ends
<1> HIDE DEF new
<1>1. \A a \in Ends : OtherEnd(a) \in Ends /\ OtherEnd(OtherEnd(a)) = a
  BY DEF OtherEnd, Ends
<1>2. ~ EndDone(r, OtherEnd(e))
  <2>1. EndDone(r, OtherEnd(e)) => HasRecord(r, OtherEnd(e)) \/ EndDone(r, e)
    BY <1>e, <1>1 DEF TablesInv, WaitingInv
  <2> QED BY <1>e, <1>0, <2>1 DEF HasRecord
<1>3. \A q \in Request : BothDone(q)' <=> BothDone(q)
  BY <1>e, <1>2
<1>4. \A q \in Request : Settled(q) => Settled(q)'
  <2> SUFFICES ASSUME NEW q \in Request, Settled(q) PROVE Settled(q)'
    OBVIOUS
  <2>1. q # r /\ BothDone(q)'
    BY <1>e DEF Settled
  <2>2. FindRequest(q)' = {}
    BY <1>0, <2>1 DEF Settled, FindRequest
  <2> QED BY <2>1, <2>2 DEF Settled
<1>5. WaitingInv'
  <2>1. ASSUME NEW x \in requests' PROVE EndDone(x.request, EndOf(x.txuid))'
    <3>1. CASE x = new
      BY <1>e, <1>0, <3>1
    <3>2. CASE x \in requests
      BY <1>e, <1>0, <3>2 DEF TablesInv, WaitingInv
    <3> QED BY <1>0, <3>1, <3>2
  <2>2. \A x, y \in requests' : x.request = y.request => x = y
    BY <1>0 DEF TablesInv, WaitingInv
  <2>3. ASSUME NEW q \in Request, NEW a \in Ends, EndDone(q, a)'
        PROVE  HasRecord(q, a)' \/ EndDone(q, OtherEnd(a))'
    <3>1. CASE q = r /\ a = e
      BY <1>0, <3>1 DEF HasRecord
    <3>2. CASE EndDone(q, a)
      <4>1. HasRecord(q, a) \/ EndDone(q, OtherEnd(a))
        BY <3>2 DEF TablesInv, WaitingInv
      <4> QED BY <1>e, <1>0, <1>1, <4>1 DEF HasRecord
    <3> QED BY <1>e, <2>3, <3>1, <3>2
  <2> QED BY <2>1, <2>2, <2>3 DEF WaitingInv
<1>6. LinksInv'
  <2>1. ASSUME NEW l \in links'
        PROVE  /\ l.parent \in txs' /\ l.subordinate \in txs'
               /\ \E q \in Request : Call(q, l.parent, l.subordinate) /\ Settled(q)'
    BY <1>4, <2>1 DEF TablesInv, LinksInv
  <2>2. ASSUME NEW q \in Request, NEW p \in LoggedRows, NEW s \in LoggedRows,
               Call(q, p, s), BothDone(q)'
        PROVE  /\ [parent |-> p, subordinate |-> s] \in links' \/ p \notin txs' \/ s \notin txs'
               /\ FindRequest(q)' = {} \/ MayGo(p) \/ MayGo(s)
    <3>1. q # r /\ BothDone(q)
      BY <1>e, <1>3, <2>2
    <3>2. /\ [parent |-> p, subordinate |-> s] \in links \/ p \notin txs \/ s \notin txs
          /\ FindRequest(q) = {} \/ MayGo(p) \/ MayGo(s)
      BY <2>2, <3>1 DEF TablesInv, LinksInv
    <3>3. FindRequest(q)' = FindRequest(q)
      BY <1>0, <3>1 DEF FindRequest
    <3> QED BY <3>2, <3>3
  <2> QED BY <2>1, <2>2 DEF LinksInv
<1>7. ASSUME NEW m \in Node \ {n} PROVE HandlerInv(m)'
  BY <1>e, <1>0, <1>4, OtherHandler DEF TablesInv
<1> QED BY <1>e, <1>5, <1>6, <1>7 DEF TablesInv

\* The second end finds that a branch is gone, and leaves everything as it is.
LEMMA GiveUpTables ==
  ASSUME LogsInOrder, Typed, RowsInv, TablesInv, NEW n \in Node, Monitor(n),
         pc[n] \in {"load", "link"}, Finish(n),
         UNCHANGED <<next, txs, links, requests>>,
         \A p, s \in LoggedRows : Call(job[n].request, p, s) => p \notin txs \/ s \notin txs
  PROVE  TablesInv'
<1> DEFINE r == job[n].request
           e == HandledEnd(n)
<1>e. /\ r \in Request /\ e \in Ends /\ ~ EndDone(r, e)
      /\ \A q \in Request : \A a \in Ends :
           EndDone(q, a)' <=> EndDone(q, a) \/ (q = r /\ a = e)
      /\ \A q \in Request : BothDone(q) => BothDone(q)'
      /\ \A q \in Request : q # r /\ BothDone(q)' => BothDone(q)
      /\ HandlerInv(n)'
      /\ \A m \in Node \ {n} : pc'[m] = pc[m] /\ job'[m] = job[m] /\ next'[m] = next[m]
  BY EndingEnds
<1>1. \A a \in Ends : OtherEnd(a) \in Ends /\ OtherEnd(OtherEnd(a)) = a
  BY DEF OtherEnd, Ends
<1>2. EndDone(r, OtherEnd(e))
  BY DEF TablesInv, HandlerInv, WaitingInv
<1>3. \A x \in requests : x.request \in Request /\ EndOf(x.txuid) \in Ends
  BY DEF Typed, TypeOK, RequestRecord, EndOf, Ends
<1>4. \A q \in Request : Settled(q) => Settled(q)'
  BY <1>e DEF Settled, FindRequest
<1>5. WaitingInv'
  <2>1. ASSUME NEW x \in requests' PROVE EndDone(x.request, EndOf(x.txuid))'
    BY <1>e, <1>3 DEF TablesInv, WaitingInv
  <2>2. \A x, y \in requests' : x.request = y.request => x = y
    BY DEF TablesInv, WaitingInv
  <2>3. ASSUME NEW q \in Request, NEW a \in Ends, EndDone(q, a)'
        PROVE  HasRecord(q, a)' \/ EndDone(q, OtherEnd(a))'
    <3>1. CASE q = r /\ a = e
      BY <1>e, <1>1, <1>2, <3>1
    <3>2. CASE EndDone(q, a)
      <4>1. HasRecord(q, a) \/ EndDone(q, OtherEnd(a))
        BY <3>2 DEF TablesInv, WaitingInv
      <4> QED BY <1>e, <1>1, <4>1 DEF HasRecord
    <3> QED BY <1>e, <2>3, <3>1, <3>2
  <2> QED BY <2>1, <2>2, <2>3 DEF WaitingInv
<1>6. LinksInv'
  <2>1. ASSUME NEW l \in links'
        PROVE  /\ l.parent \in txs' /\ l.subordinate \in txs'
               /\ \E q \in Request : Call(q, l.parent, l.subordinate) /\ Settled(q)'
    BY <1>4, <2>1 DEF TablesInv, LinksInv
  <2>2. ASSUME NEW q \in Request, NEW p \in LoggedRows, NEW s \in LoggedRows,
               Call(q, p, s), BothDone(q)'
        PROVE  /\ [parent |-> p, subordinate |-> s] \in links' \/ p \notin txs' \/ s \notin txs'
               /\ FindRequest(q)' = {} \/ MayGo(p) \/ MayGo(s)
    <3>1. CASE q # r
      BY <1>e, <2>2, <3>1 DEF TablesInv, LinksInv, FindRequest
    <3>2. CASE q = r
      <4>1. p \notin txs \/ s \notin txs
        BY <2>2, <3>2
      <4>2. p.line < next[p.node] /\ s.line < next[s.node]
        <5>1. /\ EndLine(n, next[n] - 1, r, e) /\ next[n] \in Nat
              /\ p.line \in Nat /\ e \in {"sender", "server"}
          BY <1>e, LineOfRow DEF TablesInv, HandlerInv, Typed, TypeOK, Ends
        <5>2. CASE e = "sender"
          <6>1. n = p.node /\ p.line < next[n] - 1
            BY <1>e, <2>2, <3>2, <5>1, <5>2, CallSent
          <6>2. s.line < next[s.node]
            BY <1>2, <2>2, <3>2, <5>2, DoneRows DEF OtherEnd
          <6> QED BY <5>1, <6>1, <6>2
        <5>3. CASE e = "server"
          <6>1. n = s.node /\ s.line = next[n] - 1
            BY <1>e, <2>2, <3>2, <5>1, <5>3, CallServed DEF LogsInOrder
          <6>2. p.line < next[p.node]
            BY <1>2, <2>2, <3>2, <5>3, DoneRows DEF OtherEnd
          <6> QED BY <5>1, <6>1, <6>2
        <5> QED BY <5>1, <5>2, <5>3
      <4>3. MayGo(p) \/ MayGo(s)
        BY <4>1, <4>2 DEF RowsInv, RowsThere
      <4> QED BY <4>1, <4>3
    <3> QED BY <3>1, <3>2
  <2> QED BY <2>1, <2>2 DEF LinksInv
<1>7. ASSUME NEW m \in Node \ {n} PROVE HandlerInv(m)'
  BY <1>e, <1>4, OtherHandler DEF TablesInv
<1> QED BY <1>e, <1>5, <1>6, <1>7 DEF TablesInv

-----------------------------------------------------------------------------
(* The commit of setParent().                                               *)

\* The other subordinates of the bag are those of calls that are settled, and
\* with few calls they stay.
LEMMA Siblings ==
  ASSUME LogsInOrder, FewCalls, Typed, RowsInv, TablesInv, NEW n \in Node, pc[n] = "link"
  PROVE  /\ job[n].request \in Request
         /\ Call(job[n].request, job[n].parent, job[n].subordinate)
         /\ ~ BothDone(job[n].request)
         /\ \A x \in job[n].snapshot :
              /\ x # job[n].subordinate /\ x \in txs
              /\ \E q \in Request :
                   q # job[n].request /\ Call(q, job[n].parent, x) /\ Settled(q)
<1> DEFINE r == job[n].request
           P == job[n].parent
           S == job[n].subordinate
           e == HandledEnd(n)
<1>1. /\ r \in Request /\ Call(r, P, S) /\ EndLine(n, next[n] - 1, r, e) /\ e \in Ends
  BY DEF TablesInv, HandlerInv, HandledEnd, EndOf, Ends
<1>2. ~ BothDone(r)
  <2>1. ~ EndDone(r, e)
    BY <1>1, EndNotDone DEF LogsInOrder
  <2> QED BY <1>1, <2>1 DEF BothDone, Ends
<1>3. ASSUME NEW x \in job[n].snapshot
      PROVE  /\ x # S /\ x \in txs
             /\ \E q \in Request : q # r /\ Call(q, P, x) /\ Settled(q)
  <2>1. PICK q \in Request : Call(q, P, x) /\ Settled(q)
    BY DEF TablesInv, HandlerInv
  <2>2. q # r
    BY <1>2, <2>1 DEF Settled
  <2>3. x # S
    BY <1>1, <2>1, <2>2, ServedOnce
  <2>4. IsCall(P, S) /\ IsCall(P, x) /\ P \in LoggedRows /\ S \in LoggedRows /\ x \in LoggedRows
    BY <1>1, <2>1, CallIsCall
  <2>5. ~ MayGo(x)
    BY <2>3, <2>4 DEF FewCalls
  <2>6. x.line < next[x.node]
    BY <2>1, DoneRows DEF Settled, BothDone
  <2>7. x \in txs
    BY <2>4, <2>5, <2>6 DEF RowsInv, RowsThere
  <2> QED BY <2>1, <2>2, <2>3, <2>7
<1> QED BY <1>1, <1>2, <1>3

\* Nothing but a branch that is gone can refuse the commit.
LEMMA CommitWhenThere ==
  ASSUME LogsInOrder, FewCalls, Typed, RowsInv, TablesInv, NEW n \in Node, pc[n] = "link",
         job[n].parent \in txs, job[n].subordinate \in txs
  PROVE  CommitAllowed(n)
<1> DEFINE r == job[n].request
           P == job[n].parent
           S == job[n].subordinate
<1>1. /\ r \in Request /\ Call(r, P, S) /\ ~ BothDone(r)
      /\ \A x \in job[n].snapshot :
           /\ x # S /\ x \in txs
           /\ \E q \in Request : q # r /\ Call(q, P, x) /\ Settled(q)
  BY Siblings
<1>2. FindRequest(r) # {}
  BY DEF TablesInv, HandlerInv, FindRequest
<1>3. \A l \in InsertedLinks(n) : l.parent \in txs /\ l.subordinate \in txs
  BY <1>1 DEF InsertedLinks
<1>4. S \notin job[n].snapshot
  BY <1>1
<1>5. ASSUME NEW k \in KeptLinks(n), NEW l \in InsertedLinks(n), k.subordinate = l.subordinate
      PROVE  FALSE
  <2>1. /\ k \in links
        /\ job[n].snapshot # {} => k.parent # P
        /\ \E x \in job[n].snapshot \cup {S} : l = [parent |-> P, subordinate |-> x]
    BY DEF KeptLinks, InsertedLinks
  <2>2. PICK x \in job[n].snapshot \cup {S} : l = [parent |-> P, subordinate |-> x]
    BY <2>1
  <2>3. PICK q \in Request : Call(q, k.parent, x) /\ Settled(q)
    BY <1>5, <2>1, <2>2 DEF TablesInv, LinksInv
  <2>4. CASE x = S
    <3>1. q = r
      BY <1>1, <2>3, <2>4, ServedOnce
    <3> QED BY <1>1, <2>3, <3>1 DEF Settled
  <2>5. CASE x \in job[n].snapshot
    <3>1. PICK z \in Request : Call(z, P, x)
      BY <1>1, <2>5
    <3>2. z = q
      BY <2>3, <3>1, ServedOnce
    <3>3. k.parent = P
      BY <2>3, <3>1, <3>2, CallUnique
    <3> QED BY <2>1, <2>5, <3>3
  <2> QED BY <2>4, <2>5
<1> QED BY <1>2, <1>3, <1>4, <1>5 DEF CommitAllowed

\* The rewriting of the bag loses no link.
LEMMA CommitGrows ==
  ASSUME LogsInOrder, FewCalls, Typed, RowsInv, TablesInv, NEW n \in Node, pc[n] = "link",
         NEW l \in links
  PROVE  l \in KeptLinks(n) \cup InsertedLinks(n)
<1> DEFINE r == job[n].request
           P == job[n].parent
           S == job[n].subordinate
<1>1. /\ r \in Request /\ Call(r, P, S) /\ ~ BothDone(r)
      /\ \A x \in job[n].snapshot :
           /\ x # S
           /\ \E q \in Request : q # r /\ Call(q, P, x) /\ Settled(q)
  BY Siblings
<1>2. CASE job[n].snapshot = {} \/ l.parent # P
  BY <1>2 DEF KeptLinks
<1>3. ASSUME l.parent = P, NEW x \in job[n].snapshot
      PROVE  l \in InsertedLinks(n)
  <2>1. PICK q \in Request : q # r /\ Call(q, P, x)
    BY <1>1
  <2>2. PICK z \in Request : Call(z, P, l.subordinate) /\ Settled(z)
    BY <1>3 DEF TablesInv, LinksInv
  <2>3. l.subordinate # S
    <3>1. z # r
      BY <1>1, <2>2 DEF Settled
    <3> QED BY <1>1, <2>2, <3>1, ServedOnce
  <2>4. /\ IsCall(P, S) /\ IsCall(P, x) /\ IsCall(P, l.subordinate)
        /\ P \in LoggedRows /\ S \in LoggedRows /\ x \in LoggedRows
        /\ l.subordinate \in LoggedRows
    BY <1>1, <2>1, <2>2, CallIsCall
  <2>5. x # S
    BY <1>1
  <2>6. l.subordinate = x
    BY <2>3, <2>4, <2>5 DEF FewCalls
  <2>7. l = [parent |-> P, subordinate |-> x]
    <3>1. l \in HierarchyRow
      BY DEF Typed, TypeOK
    <3> QED BY <1>3, <2>6, <3>1 DEF HierarchyRow
  <2> QED BY <2>7 DEF InsertedLinks
<1> QED BY <1>2, <1>3

\* The other end of the request links the two branches and takes the record.
LEMMA CommitTables ==
  ASSUME LogsInOrder, FewCalls, Typed, RowsInv, TablesInv, NEW n \in Node, Monitor(n),
         pc[n] = "link", CommitAllowed(n),
         links' = KeptLinks(n) \cup InsertedLinks(n),
         requests' = requests \ FindRequest(job[n].request),
         Finish(n), UNCHANGED <<next, txs>>
  PROVE  TablesInv'
<1>r. PICK r \in Request, e \in Ends : r = job[n].request /\ e = HandledEnd(n)
  BY EndingEnds
<1>e. /\ ~ EndDone(r, e)
      /\ \A q \in Request : \A a \in Ends :
           EndDone(q, a)' <=> EndDone(q, a) \/ (q = r /\ a = e)
      /\ ~ BothDone(r)
      /\ \A q \in Request : BothDone(q) => BothDone(q)'
      /\ \A q \in Request : q # r /\ BothDone(q)' => BothDone(q)
      /\ HandlerInv(n)'
      /\ \A m \in Node \ {n} : pc'[m] = pc[m] /\ job'[m] = job[m] /\ next'[m] = next[m]
  BY <1>r, EndingEnds
<1>c. PICK P \in LoggedRows, S \in LoggedRows :
        P = job[n].parent /\ S = job[n].subordinate /\ Call(r, P, S)
  BY <1>r, Siblings, CallIsCall
<1>1. \A a \in Ends : OtherEnd(a) \in Ends /\ OtherEnd(OtherEnd(a)) = a
  BY DEF OtherEnd, Ends
<1>2. EndDone(r, OtherEnd(e))
  BY <1>r DEF TablesInv, HandlerInv, WaitingInv
<1>3. /\ \A x \in requests : x.request \in Request /\ EndOf(x.txuid) \in Ends
      /\ \A x \in requests' : x \in requests
      /\ \A x \in requests : x.request # r => x \in requests'
      /\ \A x \in requests' : x.request # r
  BY <1>r DEF Typed, TypeOK, RequestRecord, EndOf, Ends, FindRequest
<1>4. BothDone(r)' /\ Settled(r)'
  <2>1. EndDone(r, e)' /\ EndDone(r, OtherEnd(e))'
    BY <1>e, <1>1, <1>2
  <2>2. BothDone(r)'
    BY <2>1 DEF BothDone, Ends, OtherEnd
  <2> QED BY <1>3, <2>2 DEF Settled, FindRequest
<1>5. \A q \in Request : Settled(q) => Settled(q)'
  BY <1>e, <1>3 DEF Settled, FindRequest
<1>6. WaitingInv'
  <2>1. ASSUME NEW x \in requests' PROVE EndDone(x.request, EndOf(x.txuid))'
    BY <1>e, <1>3 DEF TablesInv, WaitingInv
  <2>2. \A x, y \in requests' : x.request = y.request => x = y
    BY <1>3 DEF TablesInv, WaitingInv
  <2>3. ASSUME NEW q \in Request, NEW a \in Ends, EndDone(q, a)'
        PROVE  HasRecord(q, a)' \/ EndDone(q, OtherEnd(a))'
    <3>1. CASE q = r
      <4>1. EndDone(q, "sender")' /\ EndDone(q, "server")'
        BY <1>4, <3>1 DEF BothDone
      <4> QED BY <4>1 DEF OtherEnd
    <3>2. CASE q # r
      <4>1. HasRecord(q, a) \/ EndDone(q, OtherEnd(a))
        BY <1>e, <2>3, <3>2 DEF TablesInv, WaitingInv
      <4> QED BY <1>e, <1>1, <1>3, <3>2, <4>1 DEF HasRecord
    <3> QED BY <3>1, <3>2
  <2> QED BY <2>1, <2>2, <2>3 DEF WaitingInv
<1>7. LinksInv'
  <2>1. ASSUME NEW l \in links'
        PROVE  /\ l.parent \in txs' /\ l.subordinate \in txs'
               /\ \E q \in Request : Call(q, l.parent, l.subordinate) /\ Settled(q)'
    <3>1. CASE l \in InsertedLinks(n)
      <4>1. l.parent \in txs /\ l.subordinate \in txs
        BY <3>1 DEF CommitAllowed
      <4>2. PICK x \in job[n].snapshot \cup {S} : l = [parent |-> P, subordinate |-> x]
        BY <1>c, <3>1 DEF InsertedLinks
      <4>3. \E q \in Request : Call(q, P, x) /\ Settled(q)'
        BY <1>c, <1>4, <1>5, <4>2, Siblings
      <4> QED BY <4>1, <4>2, <4>3
    <3>2. CASE l \in links
      BY <1>5, <3>2 DEF TablesInv, LinksInv
    <3> QED BY <2>1, <3>1, <3>2 DEF KeptLinks
  <2>2. ASSUME NEW q \in Request, NEW p \in LoggedRows, NEW s \in LoggedRows,
               Call(q, p, s), BothDone(q)'
        PROVE  /\ [parent |-> p, subordinate |-> s] \in links' \/ p \notin txs' \/ s \notin txs'
               /\ FindRequest(q)' = {} \/ MayGo(p) \/ MayGo(s)
    <3>1. CASE q = r
      <4>1. p = P /\ s = S
        BY <1>c, <2>2, <3>1, CallUnique
      <4>2. [parent |-> p, subordinate |-> s] \in links'
        BY <1>c, <4>1 DEF InsertedLinks
      <4>3. FindRequest(q)' = {}
        BY <1>4, <3>1 DEF Settled
      <4> QED BY <4>2, <4>3
    <3>2. CASE q # r
      <4>1. /\ [parent |-> p, subordinate |-> s] \in links \/ p \notin txs \/ s \notin txs
            /\ FindRequest(q) = {} \/ MayGo(p) \/ MayGo(s)
        BY <1>e, <2>2, <3>2 DEF TablesInv, LinksInv
      <4>2. links \subseteq links'
        BY CommitGrows
      <4>3. FindRequest(q)' \subseteq FindRequest(q)
        BY <1>3 DEF FindRequest
      <4> QED BY <4>1, <4>2, <4>3
    <3> QED BY <3>1, <3>2
  <2> QED BY <2>1, <2>2 DEF LinksInv
<1>8. ASSUME NEW m \in Node \ {n} PROVE HandlerInv(m)'
  <2>1. CASE pc[m] \in {"find", "insert", "refind", "load", "link"}
    <3>1. /\ job[m].request \in Request
          /\ EndLine(m, next[m] - 1, job[m].request, HandledEnd(m))
          /\ HandledEnd(m) \in Ends
      BY <2>1 DEF TablesInv, HandlerInv, HandledEnd, EndOf, Ends
    <3>2. ~ EndDone(job[m].request, HandledEnd(m))
      BY <2>1, <3>1, EndNotDone DEF LogsInOrder
    <3>3. EndLine(n, next[n] - 1, r, e)
      BY <1>r DEF TablesInv, HandlerInv
    <3>4. job[m].request # r
      <4>1. ASSUME job[m].request = r PROVE FALSE
        <5>1. HandledEnd(m) = e
          BY <1>2, <3>1, <3>2, <4>1 DEF Ends, OtherEnd
        <5> QED BY <3>1, <3>3, <4>1, <5>1, EndUnique DEF LogsInOrder
      <4> QED BY <4>1
    <3>5. \A x \in requests : x.request = job[m].request => x \in requests'
      BY <1>3, <3>4
    <3> QED BY <1>e, <1>5, <3>5, OtherHandler DEF TablesInv
  <2>2. CASE pc[m] \notin {"find", "insert", "refind", "load", "link"}
    BY <1>e, <2>2 DEF HandlerInv
  <2> QED BY <2>1, <2>2
<1> QED BY <1>e, <1>6, <1>7, <1>8 DEF TablesInv

\* cleanup() removes a branch that may go, with the link to its caller.
LEMMA RemovalTables ==
  ASSUME LogsInOrder, Typed, RowsInv, TablesInv, NEW n \in Node, RemovePhantom(n)
  PROVE  TablesInv'
<1> DEFINE t == job[n].subordinate
<1>0. /\ pc[n] = "remove" /\ Finish(n) /\ Monitor(n)
      /\ UNCHANGED <<next, requests>>
      /\ \/ UNCHANGED <<txs, links>>
         \/ /\ \A l \in links : l.parent # t
            /\ txs' = txs \ {t}
            /\ links' = {l \in links : l.subordinate # t}
  BY DEF RemovePhantom, Monitor
<1>1. /\ pc'[n] = "idle"
      /\ \A m \in Node \ {n} : pc'[m] = pc[m] /\ job'[m] = job[m] /\ next'[m] = next[m]
  BY <1>0, MonitorFrame DEF Finish, Typed, TypeOK
<1>2. \A q \in Request : \A e \in Ends : ~ EndLine(n, next[n] - 1, q, e)
  BY <1>0 DEF EndLine, ServingLine, RowsInv, RemovalInv
<1>3. \A q \in Request : \A e \in Ends : EndDone(q, e)' <=> EndDone(q, e)
  BY <1>0, <1>2, EndsSame
<1>4. /\ WaitingInv'
      /\ \A r \in Request : BothDone(r)' <=> BothDone(r)
      /\ \A r \in Request : Settled(r)' <=> Settled(r)
  BY <1>0, <1>3, WaitingKeep DEF TablesInv
<1>5. LinksInv'
  <2>1. ASSUME NEW l \in links'
        PROVE  /\ l.parent \in txs' /\ l.subordinate \in txs'
               /\ \E q \in Request : Call(q, l.parent, l.subordinate) /\ Settled(q)'
    <3>1. /\ l.parent \in txs /\ l.subordinate \in txs
          /\ \E q \in Request : Call(q, l.parent, l.subordinate) /\ Settled(q)
      BY <1>0, <2>1 DEF TablesInv, LinksInv
    <3> QED BY <1>0, <1>4, <2>1, <3>1
  <2>2. ASSUME NEW q \in Request, NEW p \in LoggedRows, NEW s \in LoggedRows,
               Call(q, p, s), BothDone(q)'
        PROVE  /\ [parent |-> p, subordinate |-> s] \in links' \/ p \notin txs' \/ s \notin txs'
               /\ FindRequest(q)' = {} \/ MayGo(p) \/ MayGo(s)
    <3>1. /\ [parent |-> p, subordinate |-> s] \in links \/ p \notin txs \/ s \notin txs
          /\ FindRequest(q) = {} \/ MayGo(p) \/ MayGo(s)
      BY <1>4, <2>2 DEF TablesInv, LinksInv
    <3> QED BY <1>0, <3>1 DEF FindRequest
  <2> QED BY <2>1, <2>2 DEF LinksInv
<1>6. HandlerInv(n)'
  BY <1>1 DEF HandlerInv
<1>7. ASSUME NEW m \in Node \ {n} PROVE HandlerInv(m)'
  BY <1>0, <1>1, <1>4, OtherHandler DEF TablesInv
<1> QED BY <1>4, <1>5, <1>6, <1>7 DEF TablesInv

\* Every step of a monitor keeps the tables of requests and links true.
LEMMA NextTables ==
  ASSUME LogsInOrder, FewCalls, IInv, RowsInv, ServingKnown, TablesInv,
         NEW n \in Node, Monitor(n)
  PROVE  TablesInv'
<1>t. Typed
  BY DEF IInv
<1>1. CASE Begin(n)
  BY <1>1, BeginTables
<1>2. CASE CheckIfParent(n)
  BY <1>t, <1>2, SendTables
<1>3. CASE AssociateThread(n) \/ Enlist(n) \/ CheckPhantom(n)
  BY <1>t, <1>3, OtherLineTables
<1>4. CASE RemovePhantom(n)
  BY <1>t, <1>4, RemovalTables
<1>5. CASE Find(n)
  <2>1. pc[n] = "find" /\ UNCHANGED <<next, txs, links, requests>>
    BY <1>5 DEF Find
  <2>2. ASSUME NEW rec \in FindRequest(job[n].request),
               job' = [job EXCEPT ![n].rec = rec], GoTo(n, "load")
        PROVE  TablesInv'
    BY <2>1, <2>2, FoundTables
  <2>3. CASE GoTo(n, "insert") /\ UNCHANGED job
    BY <2>1, <2>3, NotFoundTables
  <2> QED BY <1>5, <2>2, <2>3 DEF Find
<1>6. CASE Insert(n)
  <2>1. pc[n] = "insert" /\ UNCHANGED <<next, txs, links>>
    BY <1>6 DEF Insert
  <2>2. CASE /\ FindRequest(job[n].request) = {}
             /\ requests' = requests \cup
                  {[request |-> job[n].request, node |-> n, txuid |-> job[n].txuid]}
             /\ Finish(n)
    BY <1>t, <2>1, <2>2, InsertTables
  <2>3. CASE FindRequest(job[n].request) # {} /\ OnDuplicateKey(n)
    BY <2>1, <2>3, NotFoundTables DEF OnDuplicateKey
  <2> QED BY <1>6, <2>2, <2>3 DEF Insert
<1>7. CASE Refind(n)
  <2>1. pc[n] = "refind" /\ UNCHANGED <<next, txs, links, requests>>
    BY <1>7 DEF Refind
  <2>2. ASSUME NEW rec \in FindRequest(job[n].request),
               job' = [job EXCEPT ![n].rec = rec], GoTo(n, "load")
        PROVE  TablesInv'
    BY <2>1, <2>2, FoundTables
  <2>3. FindRequest(job[n].request) # {}
    BY <2>1 DEF TablesInv, HandlerInv, HasRecord, FindRequest
  <2> QED BY <1>7, <2>2, <2>3 DEF Refind
<1>8. CASE Load(n)
  <2>1. pc[n] = "load" /\ UNCHANGED <<next, txs, links, requests>>
    BY <1>8 DEF Load
  <2>2. ASSUME NEW s \in txs, NEW p \in txs,
               FindNatural(SubordinateNode(n), CallTxUid(n)) = {s},
               FindNatural(ParentNode(n), CallTxUid(n)) = {p},
               GoTo(n, "link"),
               job' = [job EXCEPT
                         ![n].subordinate = s,
                         ![n].parent = p,
                         ![n].snapshot =
                           {x \in txs : [parent |-> p, subordinate |-> x] \in links}]
        PROVE  TablesInv'
    BY <1>8, <2>1, <2>2, LoadedTables
  <2>3. ASSUME ~ \E s, p \in txs :
                 /\ FindNatural(SubordinateNode(n), CallTxUid(n)) = {s}
                 /\ FindNatural(ParentNode(n), CallTxUid(n)) = {p},
               Finish(n)
        PROVE  TablesInv'
    <3>1. \A p, s \in LoggedRows : Call(job[n].request, p, s) => p \notin txs \/ s \notin txs
      BY <2>1, <2>3, CallIsFound
    <3> QED BY <1>t, <2>1, <2>3, <3>1, GiveUpTables
  <2> QED BY <1>8, <2>2, <2>3 DEF Load
<1>9. CASE CommitHierarchy(n)
  <2>1. pc[n] = "link" /\ UNCHANGED <<next, txs>> /\ Finish(n)
    BY <1>9 DEF CommitHierarchy
  <2>2. CASE /\ CommitAllowed(n)
             /\ links' = KeptLinks(n) \cup InsertedLinks(n)
             /\ requests' = requests \ FindRequest(job[n].request)
    BY <1>t, <2>1, <2>2, CommitTables
  <2>3. CASE ~ CommitAllowed(n) /\ UNCHANGED <<links, requests>>
    <3>1. job[n].parent \notin txs \/ job[n].subordinate \notin txs
      BY <1>t, <2>1, <2>3, CommitWhenThere
    <3>2. /\ job[n].request \in Request
          /\ Call(job[n].request, job[n].parent, job[n].subordinate)
      BY <2>1 DEF TablesInv, HandlerInv
    <3>3. \A p, s \in LoggedRows : Call(job[n].request, p, s) => p \notin txs \/ s \notin txs
      BY <3>1, <3>2, CallUnique
    <3> QED BY <1>t, <2>1, <2>3, <3>3, GiveUpTables
  <2> QED BY <1>9, <2>2, <2>3 DEF CommitHierarchy
<1> QED BY <1>1, <1>2, <1>3, <1>4, <1>5, <1>6, <1>7, <1>8, <1>9 DEF Monitor

-----------------------------------------------------------------------------
(* The theorems.                                                            *)

\* Before any line is read the invariant holds.
LEMMA InitCInv == Init => CInv
<1> SUFFICES ASSUME Init PROVE CInv
  OBVIOUS
<1>0. /\ next = [n \in Node |-> 1] /\ pc = [n \in Node |-> "idle"]
      /\ txs = {} /\ enlisted = {} /\ links = {} /\ requests = {}
  BY DEF Init
<1>1. ASSUME NEW n \in Node, NEW k \in DOMAIN Log[n] PROVE ~ (k < next[n]) /\ k \in Nat
  BY <1>0, <1>1, LineTypes
<1>2. RowsInv
  <2>1. \A t \in LoggedRows : ~ (t.line < next[t.node])
    BY <1>1, LineOfRow
  <2> QED BY <1>0, <2>1 DEF RowsInv, RowsThere, EnlistedInv, RemovalInv
<1>3. ServingKnown
  BY <1>1 DEF ServingKnown, Receiving
<1>4. \A r, e : ~ EndDone(r, e)
  BY <1>1 DEF EndDone, Handled
<1>5. WaitingInv
  BY <1>0, <1>4 DEF WaitingInv
<1>6. LinksInv
  BY <1>0, <1>4 DEF LinksInv, BothDone
<1>7. \A n \in Node : HandlerInv(n)
  BY <1>0 DEF HandlerInv
<1> QED BY <1>2, <1>3, <1>5, <1>6, <1>7 DEF CInv, TablesInv

\* A stutter changes nothing of it.
LEMMA StutterCInv ==
  ASSUME CInv, UNCHANGED vars
  PROVE  CInv'
BY DEF vars, CInv, RowsInv, RowsThere, EnlistedInv, RemovalInv, ServingKnown, TablesInv,
       WaitingInv, LinksInv, HandlerInv, HandledEnd, HasRecord, Settled, BothDone, EndDone,
       Handled, FindRequest

\* As long as nothing fails and no monitor restarts the invariant holds.
LEMMA SmoothInvariance ==
  LogsInOrder /\ FewCalls => (Spec => [](Typed /\ (Smooth => IInv /\ CInv)))
<1> SUFFICES ASSUME LogsInOrder, FewCalls
             PROVE  Spec => [](Typed /\ (Smooth => IInv /\ CInv))
  OBVIOUS
<1>1. Init => Typed /\ IInv /\ CInv
  BY InitTyped, InitIInv, InitCInv
<1>2. Typed /\ (Smooth => IInv /\ CInv) /\ [Next]_vars => (Typed /\ (Smooth => IInv /\ CInv))'
  <2> SUFFICES ASSUME Typed, Smooth => IInv /\ CInv, [Next]_vars
               PROVE  Typed' /\ (Smooth' => IInv' /\ CInv')
    OBVIOUS
  <2>1. Typed'
    BY NextTyped
  <2>2. ASSUME Smooth' PROVE IInv' /\ CInv'
    <3>1. Smooth /\ ((\E n \in Node : Monitor(n)) \/ UNCHANGED vars)
      BY <2>2, SmoothStep
    <3>2. IInv /\ CInv
      BY <3>1
    <3>3. IInv'
      BY <2>2, <3>2, NextIInv DEF LogsInOrder, Smooth
    <3>4. ASSUME UNCHANGED vars PROVE CInv'
      BY <3>2, <3>4, StutterCInv
    <3>5. ASSUME NEW n \in Node, Monitor(n) PROVE CInv'
      <4>1. RowsInv'
        BY <3>2, <3>5, NextRows DEF CInv, LogsInOrder
      <4>2. ServingKnown'
        BY <2>1, <3>2, <3>5, NextServing DEF CInv
      <4>3. TablesInv'
        BY <3>2, <3>5, NextTables DEF CInv
      <4> QED BY <4>1, <4>2, <4>3 DEF CInv
    <3>6. ASSUME \E n \in Node : Monitor(n) PROVE CInv'
      BY <3>5, <3>6
    <3>7. CInv'
      BY <3>1, <3>4, <3>6
    <3> QED BY <3>3, <3>7
  <2> QED BY <2>1, <2>2
<1> QED BY <1>1, <1>2, PTL DEF Spec

\* Rows that cannot go are there once their lines are read, and every end of a
\* request is done when all lines are.
LEMMA AllDone ==
  ASSUME Typed, AllRead
  PROVE  /\ \A t \in LoggedRows : t.line < next[t.node]
         /\ \A r \in Request : \A p, s : Call(r, p, s) => BothDone(r)
<1>1. \A n \in Node : \A k \in DOMAIN Log[n] : Handled(n, k) /\ k < next[n]
  <2> SUFFICES ASSUME NEW n \in Node, NEW k \in DOMAIN Log[n]
               PROVE  Handled(n, k) /\ k < next[n]
    OBVIOUS
  <2>1. pc[n] = "idle" /\ next[n] = Len(Log[n]) + 1
    BY DEF AllRead
  <2>2. k \in Nat /\ k <= Len(Log[n]) /\ Len(Log[n]) \in Nat
    BY LineTypes
  <2> QED BY <2>1, <2>2 DEF Handled
<1>2. \A t \in LoggedRows : t.line < next[t.node]
  BY <1>1, LineOfRow
<1>3. ASSUME NEW r \in Request, NEW p, NEW s, Call(r, p, s) PROVE BothDone(r)
  <2>1. p.node \in Node /\ s.node \in Node /\ s.line \in DOMAIN Log[s.node]
    BY <1>3, LineOfRow DEF Call
  <2>2. PICK i \in DOMAIN Log[p.node] : EndLine(p.node, i, r, "sender")
    BY <1>3 DEF Call, Sends, EndLine
  <2>3. EndLine(s.node, s.line, r, "server")
    BY <1>3, <2>1 DEF Call, EndLine
  <2>4. EndDone(r, "sender")
    BY <1>1, <2>1, <2>2 DEF EndDone
  <2>5. EndDone(r, "server")
    BY <1>1, <2>1, <2>3 DEF EndDone
  <2> QED BY <2>4, <2>5 DEF BothDone
<1> QED BY <1>2, <1>3

\* The calls of the logs that both branches have rows for are linked in the end.
LEMMA LinkedInTheEnd ==
  ASSUME LogsInOrder, Typed, CInv, AllRead, NEW l \in CallLinks,
         l.parent \in txs, l.subordinate \in txs
  PROVE  l \in links
<1>1. /\ l.parent \in LoggedRows /\ l.subordinate \in LoggedRows
      /\ IsCall(l.parent, l.subordinate)
      /\ l = [parent |-> l.parent, subordinate |-> l.subordinate]
  BY DEF CallLinks
<1>2. PICK r \in Request : Call(r, l.parent, l.subordinate)
  BY <1>1, IsCallCall DEF LogsInOrder
<1>3. BothDone(r)
  BY <1>2, AllDone
<1> QED BY <1>1, <1>2, <1>3 DEF CInv, TablesInv, LinksInv

\* Whatever the interleaving, cleanup() costs the hierarchy no call between two
\* branches that have a participant (HandlerService:551-562), provided a branch
\* calls two others at most, and one only if that may go.  Bounds do not matter:
\* the property is about the runs without failure and restart.
THEOREM WorkIsLinkedCorrect ==
  LogsInOrder /\ FewCalls => (Spec => []WorkIsLinked)
<1> SUFFICES ASSUME LogsInOrder, FewCalls PROVE Spec => []WorkIsLinked
  OBVIOUS
<1>1. Typed /\ (Smooth => IInv /\ CInv) => WorkIsLinked
  <2> SUFFICES ASSUME Typed, CInv, AllRead, NEW l \in CallLinks,
                      l.parent \in enlisted, l.subordinate \in enlisted
               PROVE  l \in links
    BY DEF WorkIsLinked, Smooth
  <2>1. l.parent \in txs /\ l.subordinate \in txs
    BY DEF CInv, RowsInv, EnlistedInv
  <2> QED BY <2>1, LinkedInTheEnd
<1> QED BY <1>1, SmoothInvariance, PTL

\* Where no branch is queried before it has a participant, and each calls two
\* others at most, the join table holds exactly the calls of the logs once all
\* lines are read without failure or restart.
THEOREM HierarchyCompleteCorrect ==
  LogsInOrder /\ FewCalls /\ NoneMayGo => (Spec => [](Smooth => HierarchyComplete))
<1> SUFFICES ASSUME LogsInOrder, FewCalls, NoneMayGo
             PROVE  Spec => [](Smooth => HierarchyComplete)
  OBVIOUS
<1>1. Typed /\ (Smooth => IInv /\ CInv) => (Smooth => HierarchyComplete)
  <2> SUFFICES ASSUME Typed, CInv, AllRead PROVE links = CallLinks
    BY DEF HierarchyComplete
  <2>1. ASSUME NEW l \in CallLinks PROVE l \in links
    <3>1. l.parent \in LoggedRows /\ l.subordinate \in LoggedRows
      BY DEF CallLinks
    <3>2. l.parent \in txs /\ l.subordinate \in txs
      BY <3>1, AllDone DEF CInv, RowsInv, RowsThere, NoneMayGo
    <3> QED BY <3>2, LinkedInTheEnd
  <2>2. ASSUME NEW l \in links PROVE l \in CallLinks
    <3>1. PICK r \in Request : Call(r, l.parent, l.subordinate)
      BY DEF CInv, TablesInv, LinksInv
    <3>2. /\ IsCall(l.parent, l.subordinate)
          /\ l.parent \in LoggedRows /\ l.subordinate \in LoggedRows
      BY <3>1, CallIsCall
    <3>3. l \in HierarchyRow
      BY DEF Typed, TypeOK
    <3> QED BY <3>2, <3>3 DEF CallLinks, HierarchyRow
  <2> QED BY <2>1, <2>2
<1> QED BY <1>1, SmoothInvariance, PTL

\* handleRequest() leaves a record only until the line of the other end has been
\* handled (HandlerService:241-255), where requests are sent and served and no
\* branch is queried before it has a participant.
THEOREM NoOrphanRecordCorrect ==
  LogsInOrder /\ FewCalls /\ NoneMayGo /\ EveryCallAnswered =>
    (Spec => [](Smooth => NoOrphanRecord))
<1> SUFFICES ASSUME LogsInOrder, FewCalls, NoneMayGo, EveryCallAnswered
             PROVE  Spec => [](Smooth => NoOrphanRecord)
  OBVIOUS
<1>1. Typed /\ (Smooth => IInv /\ CInv) => (Smooth => NoOrphanRecord)
  <2> SUFFICES ASSUME Typed, CInv, NEW rec \in requests
               PROVE  \E n \in Node : \E i \in DOMAIN Log[n] :
                        /\ ~Handled(n, i)
                        /\ IF rec.txuid = NoTxUid
                           THEN ServingLine(n, i, rec.request)
                           ELSE /\ Log[n][i].type = "send_request"
                                /\ Log[n][i].request = rec.request
    BY DEF NoOrphanRecord
  <2>1. PICK r \in Request : r = rec.request
    BY DEF Typed, TypeOK, RequestRecord
  <2>2. EndDone(r, EndOf(rec.txuid)) /\ FindRequest(r) # {}
    BY <2>1 DEF CInv, TablesInv, WaitingInv, FindRequest
  <2>3. PICK a \in Ends : a = EndOf(rec.txuid)
    BY DEF EndOf, Ends
  <2>4. PICK m \in Node : \E k \in DOMAIN Log[m] : EndLine(m, k, r, "server")
    <3>1. CASE a = "server"
      BY <2>2, <2>3, <3>1 DEF EndDone
    <3>2. CASE a # "server"
      <4>1. PICK n \in Node : \E k \in DOMAIN Log[n] : EndLine(n, k, r, "sender")
        BY <2>2, <2>3, <3>2 DEF EndDone, Ends
      <4>2. Sends(n, r)
        BY <4>1 DEF Sends, EndLine
      <4> QED BY <4>2 DEF EveryCallAnswered, EndLine
    <3> QED BY <3>1, <3>2
  <2>5. PICK k \in DOMAIN Log[m] : EndLine(m, k, r, "server")
    BY <2>4
  <2>6. PICK n \in Node : Sends(n, r)
    BY <2>5 DEF EveryCallAnswered, EndLine
  <2>7. PICK i \in DOMAIN Log[n] : EndLine(n, i, r, "sender")
    BY <2>6 DEF Sends, EndLine
  <2>8. PICK j \in DOMAIN Log[n] :
          Log[n][j].type = "Begin" /\ Log[n][j].txuid = Log[m][k].txuid
    BY <2>5, <2>7 DEF LogsInOrder, SentWithin, EndLine
  <2>9. \E p, s \in LoggedRows : Call(r, p, s)
    <3>1. PICK p \in LoggedRows : p = [node |-> n, txuid |-> Log[n][j].txuid, line |-> j]
      BY <2>8, RowOfLine
    <3>2. PICK s \in LoggedRows : s = [node |-> m, txuid |-> Log[m][k].txuid, line |-> k]
      BY <2>5, RowOfLine DEF EndLine, ServingLine
    <3>3. Call(r, p, s)
      BY <2>5, <2>6, <2>8, <3>1, <3>2 DEF Call, EndLine
    <3> QED BY <3>3
  <2>10. ~ BothDone(r)
    BY <2>2, <2>9 DEF CInv, TablesInv, LinksInv, NoneMayGo
  <2>11. CASE rec.txuid = NoTxUid
    <3>1. ~ EndDone(r, "server")
      BY <2>2, <2>10, <2>11 DEF BothDone, EndOf
    <3> QED BY <2>1, <2>5, <2>11, <3>1 DEF EndDone, EndLine
  <2>12. CASE rec.txuid # NoTxUid
    <3>1. ~ EndDone(r, "sender")
      BY <2>2, <2>10, <2>12 DEF BothDone, EndOf
    <3> QED BY <2>1, <2>7, <2>12, <3>1 DEF EndDone, EndLine
  <2> QED BY <2>11, <2>12
<1> QED BY <1>1, SmoothInvariance, PTL

-----------------------------------------------------------------------------
(* The monitors are a rendezvous.                                           *)

\* A link has come of r.
Joined(r) ==
  \E l \in links : Sends(l.parent.node, r) /\ Serves(l.subordinate.node, l.subordinate.txuid, r)

\* The ends of a link name its request, and no other.
LEMMA CallNames ==
  ASSUME BeginsOnce, NEW r \in Request, NEW p, NEW s, Call(r, p, s)
  PROVE  /\ Sends(p.node, r) /\ Serves(s.node, s.txuid, r)
         /\ \A q \in Request : Serves(s.node, s.txuid, q) => q = r
<1>0. s \in LoggedRows /\ Sends(p.node, r) /\ ServingLine(s.node, s.line, r)
  BY DEF Call
<1>1. Serves(s.node, s.txuid, r)
  BY <1>0, LineOfRow DEF Serves
<1>2. ASSUME NEW q \in Request, Serves(s.node, s.txuid, q) PROVE q = r
  <2>1. PICK k \in DOMAIN Log[s.node] :
          ServingLine(s.node, k, q) /\ Log[s.node][k].txuid = s.txuid
    BY <1>2 DEF Serves
  <2>2. k = s.line
    BY <1>0, <2>1, LineOfRow DEF BeginsOnce, ServingLine
  <2>3. EndLine(s.node, s.line, r, "server") /\ EndLine(s.node, s.line, q, "server")
    BY <1>0, <2>1, <2>2, LineOfRow DEF EndLine
  <2> QED BY <1>0, <2>3, LineOfRow, EndOfLine DEF Ends
<1> QED BY <1>0, <1>1, <1>2

\* A request one of whose ends is not done is not joined.
LEMMA JoinedDone ==
  ASSUME LogsInOrder, LinksInv, NEW r \in Request, Joined(r)
  PROVE  BothDone(r)
<1>1. PICK l \in links :
        Sends(l.parent.node, r) /\ Serves(l.subordinate.node, l.subordinate.txuid, r)
  BY DEF Joined
<1>2. PICK q \in Request : Call(q, l.parent, l.subordinate) /\ Settled(q)
  BY DEF LinksInv
<1>3. q = r
  BY <1>1, <1>2, CallNames DEF LogsInOrder
<1> QED BY <1>2, <1>3 DEF Settled

\* The insert of a record is the arrival of the first end.
LEMMA InsertArrives ==
  ASSUME LogsInOrder, Typed, TablesInv, NEW n \in Node, Monitor(n), pc[n] = "insert",
         FindRequest(job[n].request) = {},
         requests' = requests \cup
           {[request |-> job[n].request, node |-> n, txuid |-> job[n].txuid]},
         Finish(n), UNCHANGED links
  PROVE  R!Next
<1>1. PICK r \in Request : r = job[n].request /\ ~ BothDone(r)
  BY EndingEnds
<1>2. ~ Joined(r)
  BY <1>1, JoinedDone DEF TablesInv
<1>3. Met[r] = "none"
  BY <1>1, <1>2 DEF Met, Joined
<1>4. FindRequest(r)' # {} /\ \A q \in Request \ {r} : FindRequest(q)' = FindRequest(q)
  <2> DEFINE new == [request |-> r, node |-> n, txuid |-> job[n].txuid]
  <2>1. requests' = requests \cup {new} /\ new.request = r
    BY <1>1
  <2> HIDE DEF new
  <2> QED BY <2>1 DEF FindRequest
<1>5. Met' = [Met EXCEPT ![r] = "waiting"]
  BY <1>4 DEF Met
<1> QED BY <1>3, <1>5 DEF R!Next, R!Arrive

\* The commit of the link is the meeting of the two.
LEMMA CommitMeets ==
  ASSUME LogsInOrder, FewCalls, Typed, RowsInv, TablesInv, NEW n \in Node, Monitor(n),
         pc[n] = "link", CommitAllowed(n),
         links' = KeptLinks(n) \cup InsertedLinks(n),
         requests' = requests \ FindRequest(job[n].request)
  PROVE  R!Next
<1>1. /\ job[n].request \in Request
      /\ Call(job[n].request, job[n].parent, job[n].subordinate)
      /\ \A x \in job[n].snapshot :
           \E q \in Request : Call(q, job[n].parent, x) /\ Settled(q)
  BY Siblings
<1>2. PICK r \in Request, P \in LoggedRows, S \in LoggedRows :
        /\ r = job[n].request /\ P = job[n].parent /\ S = job[n].subordinate
        /\ Call(r, P, S)
  BY <1>1, CallIsCall
<1>3. FindRequest(r) # {}
  BY <1>2 DEF TablesInv, HandlerInv, FindRequest
<1>4. FindRequest(r)' = {} /\ \A q \in Request \ {r} : FindRequest(q)' = FindRequest(q)
  BY <1>2 DEF FindRequest
<1>5. links \subseteq links'
  BY CommitGrows
<1>6. [parent |-> P, subordinate |-> S] \in links'
  BY <1>2 DEF InsertedLinks
<1>7. Joined(r)'
  <2>1. Sends(P.node, r) /\ Serves(S.node, S.txuid, r)
    BY <1>2, CallNames DEF LogsInOrder
  <2> QED BY <1>6, <2>1 DEF Joined, Sends, Serves
<1>8. ASSUME NEW l \in links' PROVE l \in links \/ l = [parent |-> P, subordinate |-> S]
  <2>1. CASE l \in KeptLinks(n)
    BY <2>1 DEF KeptLinks
  <2>2. ASSUME NEW x \in job[n].snapshot, l = [parent |-> P, subordinate |-> x]
        PROVE  l \in links
    <3>1. PICK q \in Request : Call(q, P, x) /\ Settled(q)
      BY <1>1, <1>2
    <3>2. P \in txs /\ x \in txs
      <4>1. l \in InsertedLinks(n)
        BY <1>2, <2>2 DEF InsertedLinks
      <4>2. l.parent \in txs /\ l.subordinate \in txs
        BY <4>1 DEF CommitAllowed
      <4> QED BY <2>2, <4>2
    <3>3. P \in LoggedRows /\ x \in LoggedRows
      BY <3>1, CallIsCall
    <3> QED BY <2>2, <3>1, <3>2, <3>3 DEF TablesInv, LinksInv, Settled
  <2> QED BY <1>2, <1>8, <2>1, <2>2 DEF InsertedLinks
<1>9. \A q \in Request \ {r} : Joined(q)' <=> Joined(q)
  <2> SUFFICES ASSUME NEW q \in Request \ {r} PROVE Joined(q)' <=> Joined(q)
    OBVIOUS
  <2>1. ~ Serves(S.node, S.txuid, q)
    BY <1>2, CallNames DEF LogsInOrder
  <2> QED BY <1>5, <1>8, <2>1 DEF Joined, Sends, Serves
<1>10. Met[r] = "waiting"
  BY <1>3 DEF Met
<1>11. Met' = [Met EXCEPT ![r] = "joined"]
  <2>1. Met = [q \in Request |-> IF FindRequest(q) # {} THEN "waiting"
                                 ELSE IF Joined(q) THEN "joined" ELSE "none"]
    BY DEF Met, Joined
  <2>2. Met' = [q \in Request |-> IF FindRequest(q)' # {} THEN "waiting"
                                  ELSE IF Joined(q)' THEN "joined" ELSE "none"]
    BY DEF Met, Joined
  <2> QED BY <1>4, <1>7, <1>9, <2>1, <2>2
<1> QED BY <1>10, <1>11 DEF R!Next, R!Meet

\* Every step of a monitor is one of the rendezvous, or none.
LEMMA NextRendezvous ==
  ASSUME LogsInOrder, FewCalls, NoneMayGo, Typed, CInv, NEW n \in Node, Monitor(n)
  PROVE  R!Next \/ UNCHANGED Met
<1>0. RowsInv /\ TablesInv
  BY DEF CInv
<1>1. CASE UNCHANGED <<links, requests>>
  BY <1>1 DEF Met, FindRequest
<1>2. CASE RemovePhantom(n)
  BY <1>0, <1>2 DEF RemovePhantom, RowsInv, RemovalInv, NoneMayGo
<1>3. CASE Insert(n)
  <2>1. pc[n] = "insert" /\ UNCHANGED <<next, txs, links>>
    BY <1>3 DEF Insert
  <2>2. CASE /\ FindRequest(job[n].request) = {}
             /\ requests' = requests \cup
                  {[request |-> job[n].request, node |-> n, txuid |-> job[n].txuid]}
             /\ Finish(n)
    BY <1>0, <2>1, <2>2, InsertArrives
  <2>3. CASE OnDuplicateKey(n)
    BY <1>1, <2>1, <2>3 DEF OnDuplicateKey
  <2> QED BY <1>3, <2>2, <2>3 DEF Insert
<1>4. CASE CommitHierarchy(n)
  <2>1. CASE /\ CommitAllowed(n)
             /\ links' = KeptLinks(n) \cup InsertedLinks(n)
             /\ requests' = requests \ FindRequest(job[n].request)
    BY <1>0, <1>4, <2>1, CommitMeets DEF CommitHierarchy
  <2> QED BY <1>1, <1>4, <2>1 DEF CommitHierarchy
<1> QED BY <1>1, <1>2, <1>3, <1>4
        DEF Monitor, Begin, CheckIfParent, AssociateThread, Enlist, CheckPhantom, Find,
            Refind, Load

\* While nothing fails and no branch is queried before it has a participant, the
\* two ends of a request meet once, the record goes in the step that brings the
\* link, and the link is there for good (HandlerService:61-71 and 260-273).
THEOREM RendezvousImplemented ==
  LogsInOrder /\ FewCalls /\ NoneMayGo /\ MaxFailures = 0 /\ MaxRestarts = 0 =>
    (Spec => RendezvousSpec)
<1> SUFFICES ASSUME LogsInOrder, FewCalls, NoneMayGo, MaxFailures = 0, MaxRestarts = 0
             PROVE  Spec => R!Spec
  BY DEF RendezvousSpec
<1>1. Init => R!Init
  BY DEF Init, R!Init, Met, FindRequest
<1>2. Init => Smooth
  BY DEF Init, Smooth
<1>3. Typed /\ Smooth /\ [Next]_vars => Smooth'
  <2> SUFFICES ASSUME Typed, Smooth, [Next]_vars PROVE Smooth'
    OBVIOUS
  <2>1. ASSUME NEW n \in Node, Fail(n) \/ LoseLine(n) \/ Restart(n) PROVE FALSE
    BY <2>1 DEF Fail, LoseLine, Restart, Smooth
  <2>2. ASSUME NEW n \in Node, Monitor(n) PROVE Smooth'
    BY <2>2 DEF Monitor, Begin, CheckIfParent, AssociateThread, Enlist, CheckPhantom,
                RemovePhantom, Find, Insert, Refind, Load, CommitHierarchy, Smooth
  <2>3. CASE UNCHANGED vars
    BY <2>3 DEF vars, Smooth
  <2> QED BY <2>1, <2>2, <2>3 DEF Next
<1>4. Typed /\ Smooth /\ (Smooth => IInv /\ CInv) /\ [Next]_vars /\ Smooth' => [R!Next]_Met
  <2> SUFFICES ASSUME Typed, CInv, [Next]_vars, Smooth' PROVE R!Next \/ UNCHANGED Met
    OBVIOUS
  <2>1. (\E n \in Node : Monitor(n)) \/ UNCHANGED vars
    BY SmoothStep
  <2>2. ASSUME UNCHANGED vars PROVE UNCHANGED Met
    BY <2>2 DEF vars, Met, FindRequest
  <2>3. ASSUME NEW n \in Node, Monitor(n) PROVE R!Next \/ UNCHANGED Met
    BY <2>3, NextRendezvous
  <2> QED BY <2>1, <2>2, <2>3
<1> QED BY <1>1, <1>2, <1>3, <1>4, SmoothInvariance, PTL DEF Spec, R!Spec

-----------------------------------------------------------------------------
(* The monitors are a forest, whatever fails or restarts.                   *)

\* A branch calls two others at most: with three the rewriting of the bag may
\* lose a link.
TwoCallsAtMost ==
  \A p, x, y, z \in LoggedRows :
    IsCall(p, x) /\ IsCall(p, y) /\ IsCall(p, z) => x = y \/ y = z \/ x = z

\* A row comes from a line that has been read.
RowsRead == \A t \in txs : t \in LoggedRows /\ t.line < next[t.node]

\* What hangs on a row: it goes after all of that.
RowsHeld ==
  /\ enlisted \subseteq txs
  /\ \A l \in links : l.parent \in txs /\ l.subordinate \in txs

\* The bag of a handler about to link is still that of the table, but for
\* branches that are gone; the row about to be removed is one of the handler's own.
HandlersRead ==
  \A n \in Node :
    /\ pc[n] = "link" =>
         \A x \in job[n].snapshot :
           /\ x \in LoggedRows /\ x.line < next[x.node]
           /\ [parent |-> job[n].parent, subordinate |-> x] \in links \/ x \notin txs
    /\ pc[n] = "remove" =>
         LET t == job[n].subordinate IN t \in LoggedRows /\ t.node = n /\ t.line < next[n]

GInv == RowsRead /\ RowsHeld /\ HandlersRead

\* The handler of m is where it was, or has just read what it goes on with.
AsRead(m) ==
  /\ pc'[m] = "link" =>
       \/ pc[m] = "link" /\ job'[m] = job[m]
       \/ \A x \in job'[m].snapshot :
            x \in txs /\ [parent |-> job'[m].parent, subordinate |-> x] \in links
  /\ pc'[m] = "remove" =>
       \/ pc[m] = "remove" /\ job'[m] = job[m]
       \/ job'[m].subordinate \in txs /\ job'[m].subordinate.node = m

\* Steps that neither begin nor remove a branch.
LEMMA GKeep ==
  ASSUME Typed, GInv, Typed', UNCHANGED txs, enlisted' \subseteq txs, links \subseteq links',
         \A l \in links' : l.parent \in txs /\ l.subordinate \in txs,
         \A m \in Node : next'[m] >= next[m] /\ AsRead(m)
  PROVE  GInv'
<1>1. /\ next \in [Node -> Nat \ {0}] /\ next' \in [Node -> Nat \ {0}]
      /\ \A m \in Node : next[m] \in Nat /\ next'[m] \in Nat
  BY DEF Typed, TypeOK
<1>2. \A t \in LoggedRows : t.line < next[t.node] => t.line < next'[t.node]
  BY <1>1, LineOfRow
<1>3. RowsRead'
  BY <1>2 DEF GInv, RowsRead
<1>4. RowsHeld'
  BY DEF GInv, RowsHeld
<1>5. ASSUME NEW m \in Node, pc'[m] = "link", NEW x \in job'[m].snapshot
      PROVE  /\ x \in LoggedRows /\ x.line < next'[x.node]
             /\ [parent |-> job'[m].parent, subordinate |-> x] \in links' \/ x \notin txs'
  <2>1. CASE pc[m] = "link" /\ job'[m] = job[m]
    <3>1. /\ x \in LoggedRows /\ x.line < next[x.node]
          /\ [parent |-> job[m].parent, subordinate |-> x] \in links \/ x \notin txs
      BY <1>5, <2>1 DEF GInv, HandlersRead
    <3> QED BY <1>2, <2>1, <3>1
  <2>2. CASE x \in txs /\ [parent |-> job'[m].parent, subordinate |-> x] \in links
    BY <1>2, <2>2 DEF GInv, RowsRead
  <2> QED BY <1>5, <2>1, <2>2 DEF AsRead
<1>6. ASSUME NEW m \in Node, pc'[m] = "remove"
      PROVE  /\ job'[m].subordinate \in LoggedRows /\ job'[m].subordinate.node = m
             /\ job'[m].subordinate.line < next'[m]
  <2>1. CASE pc[m] = "remove" /\ job'[m] = job[m]
    <3>1. /\ job[m].subordinate \in LoggedRows /\ job[m].subordinate.node = m
          /\ job[m].subordinate.line < next[m]
      BY <2>1 DEF GInv, HandlersRead
    <3> QED BY <1>2, <2>1, <3>1
  <2>2. CASE job'[m].subordinate \in txs /\ job'[m].subordinate.node = m
    <3>1. job'[m].subordinate \in LoggedRows
      BY <2>2 DEF GInv, RowsRead
    <3>2. job'[m].subordinate.line < next[m]
      BY <2>2 DEF GInv, RowsRead
    <3> QED BY <1>2, <2>2, <3>1, <3>2
  <2> QED BY <1>6, <2>1, <2>2 DEF AsRead
<1>7. HandlersRead'
  BY <1>5, <1>6 DEF HandlersRead
<1> QED BY <1>3, <1>4, <1>7 DEF GInv

\* A handler that returns, or goes on to any other step.
LEMMA GOthers ==
  ASSUME Typed, NEW n \in Node, \A m \in Node \ {n} : pc'[m] = pc[m] /\ job'[m] = job[m],
         pc'[n] \notin {"link", "remove"}
  PROVE  \A m \in Node : AsRead(m)
BY DEF AsRead

\* A row begins.
LEMMA GBegin ==
  ASSUME Typed, GInv, Typed', NEW n \in Node, Begin(n)
  PROVE  GInv'
<1> DEFINE new == [node |-> n, txuid |-> Current(n).txuid, line |-> next[n]]
<1>1. /\ new \in LoggedRows /\ txs' = txs \cup {new}
      /\ next' = [next EXCEPT ![n] = @ + 1] /\ UNCHANGED <<enlisted, links>>
  BY RowOfLine DEF Begin, AtLine, Current
<1>2. /\ next \in [Node -> Nat \ {0}] /\ next' \in [Node -> Nat \ {0}]
      /\ \A m \in Node : next[m] \in Nat /\ next'[m] \in Nat /\ next'[m] >= next[m]
      /\ next'[n] = next[n] + 1
  BY <1>1 DEF Typed, TypeOK
<1>3. \A t \in LoggedRows : t.line < next[t.node] => t.line < next'[t.node]
  BY <1>2, LineOfRow
<1>4. new.node = n /\ new.line = next[n]
  OBVIOUS
<1>5. \A m \in Node : pc'[m] \in {"link", "remove"} => pc'[m] = pc[m] /\ job'[m] = job[m]
  BY DEF Begin, HandleRequest, GoTo, Typed, TypeOK
<1> HIDE DEF new
<1>6. RowsRead'
  BY <1>1, <1>2, <1>3, <1>4 DEF GInv, RowsRead
<1>7. RowsHeld'
  BY <1>1 DEF GInv, RowsHeld
<1>8. ASSUME NEW m \in Node, pc'[m] = "link", NEW x \in job'[m].snapshot
      PROVE  /\ x \in LoggedRows /\ x.line < next'[x.node]
             /\ [parent |-> job'[m].parent, subordinate |-> x] \in links' \/ x \notin txs'
  <2>1. pc[m] = "link" /\ job'[m] = job[m]
    BY <1>5, <1>8
  <2>2. /\ x \in LoggedRows /\ x.line < next[x.node]
        /\ [parent |-> job[m].parent, subordinate |-> x] \in links \/ x \notin txs
    BY <1>8, <2>1 DEF GInv, HandlersRead
  <2>3. x # new
    BY <1>2, <1>4, <2>2
  <2> QED BY <1>1, <1>3, <2>1, <2>2, <2>3
<1>9. ASSUME NEW m \in Node, pc'[m] = "remove"
      PROVE  /\ job'[m].subordinate \in LoggedRows /\ job'[m].subordinate.node = m
             /\ job'[m].subordinate.line < next'[m]
  <2>1. pc[m] = "remove" /\ job'[m] = job[m]
    BY <1>5, <1>9
  <2>2. /\ job[m].subordinate \in LoggedRows /\ job[m].subordinate.node = m
        /\ job[m].subordinate.line < next[m]
    BY <2>1 DEF GInv, HandlersRead
  <2> QED BY <1>3, <2>1, <2>2
<1>10. HandlersRead'
  BY <1>8, <1>9 DEF HandlersRead
<1> QED BY <1>6, <1>7, <1>10 DEF GInv

\* A branch is found to be a phantom.
LEMMA GCheckPhantom ==
  ASSUME Typed, GInv, Typed', NEW n \in Node, CheckPhantom(n)
  PROVE  GInv'
<1>1. /\ UNCHANGED <<txs, enlisted, links>> /\ pc[n] = "idle"
      /\ next' = [next EXCEPT ![n] = @ + 1]
  BY DEF CheckPhantom, AtLine
<1>2. /\ next \in [Node -> Nat \ {0}] /\ pc \in [Node -> Steps] /\ job \in [Node -> Job]
  BY DEF Typed, TypeOK
<1>3. ASSUME NEW m \in Node PROVE next'[m] >= next[m]
  BY <1>1, <1>2
<1>4. ASSUME NEW m \in Node \ {n} PROVE pc'[m] = pc[m] /\ job'[m] = job[m]
  BY <1>2 DEF CheckPhantom, GoTo
<1>5. pc'[n] # "link"
  BY <1>1, <1>2 DEF CheckPhantom, GoTo
<1>6. ASSUME pc'[n] = "remove"
      PROVE  job'[n].subordinate \in txs /\ job'[n].subordinate.node = n
  <2>1. PICK t \in txs : /\ FindNatural(n, Current(n).txuid) = {t}
                         /\ job' = [job EXCEPT ![n] = [NoJob EXCEPT !.subordinate = t]]
    BY <1>1, <1>6 DEF CheckPhantom
  <2>2. job'[n].subordinate = t
    BY <1>2, <2>1 DEF NoJob
  <2> QED BY <2>1, <2>2 DEF FindNatural
<1>7. \A m \in Node : AsRead(m)
  BY <1>4, <1>5, <1>6 DEF AsRead
<1>8. \A l \in links : l.parent \in txs /\ l.subordinate \in txs
  BY DEF GInv, RowsHeld
<1>9. enlisted' \subseteq txs
  BY <1>1 DEF GInv, RowsHeld
<1> QED BY <1>1, <1>3, <1>7, <1>8, <1>9, GKeep

\* A bag is loaded.
LEMMA GLoad ==
  ASSUME Typed, GInv, Typed', NEW n \in Node, Load(n)
  PROVE  GInv'
<1>1. UNCHANGED <<next, txs, enlisted, links>>
  BY ZenonT(30) DEF Load
<1>2. /\ next \in [Node -> Nat \ {0}] /\ pc \in [Node -> Steps] /\ job \in [Node -> Job]
  BY DEF Typed, TypeOK
<1>3. ASSUME NEW m \in Node PROVE next'[m] >= next[m]
  BY <1>1, <1>2
<1>4. ASSUME NEW s \in txs, NEW p \in txs, GoTo(n, "link"),
             job' = [job EXCEPT
                       ![n].subordinate = s,
                       ![n].parent = p,
                       ![n].snapshot =
                         {x \in txs : [parent |-> p, subordinate |-> x] \in links}]
      PROVE  \A m \in Node : AsRead(m)
  <2>1. \A m \in Node \ {n} : pc'[m] = pc[m] /\ job'[m] = job[m]
    BY <1>2, <1>4 DEF GoTo
  <2>2. /\ pc'[n] = "link" /\ job'[n].parent = p
        /\ job'[n].snapshot = {x \in txs : [parent |-> p, subordinate |-> x] \in links}
    BY <1>2, <1>4 DEF GoTo, Job
  <2> QED BY <2>1, <2>2 DEF AsRead
<1>5. ASSUME Finish(n) PROVE \A m \in Node : AsRead(m)
  BY <1>2, <1>5, GOthers DEF Finish
<1>6. \A m \in Node : AsRead(m)
  BY <1>4, <1>5, ZenonT(30) DEF Load
<1>7. \A l \in links : l.parent \in txs /\ l.subordinate \in txs
  BY DEF GInv, RowsHeld
<1>8. enlisted' \subseteq txs
  BY <1>1 DEF GInv, RowsHeld
<1> QED BY <1>1, <1>3, <1>6, <1>7, <1>8, GKeep

\* A row is removed, with its link: no bag that still has it can be written.
LEMMA GRemove ==
  ASSUME Typed, PInv, GInv, Typed', NEW n \in Node, RemovePhantom(n)
  PROVE  GInv'
<1> DEFINE t == job[n].subordinate
<1>1. UNCHANGED <<next, enlisted>> /\ pc'[n] = "idle"
  BY DEF RemovePhantom, Finish, Typed, TypeOK
<1>2. \A m \in Node \ {n} : pc'[m] = pc[m] /\ job'[m] = job[m]
  BY DEF RemovePhantom, Finish, Typed, TypeOK
<1>3. \A m \in Node : pc'[m] \in {"link", "remove"} => pc'[m] = pc[m] /\ job'[m] = job[m]
  BY <1>1, <1>2
<1>4. CASE UNCHANGED <<txs, links>>
  <2>1. \A m \in Node : next'[m] >= next[m] /\ AsRead(m)
    BY <1>1, <1>2, GOthers DEF Typed, TypeOK
  <2> QED BY <1>1, <1>4, <2>1, GKeep DEF GInv, RowsHeld
<1>5. CASE /\ ~ \E l \in links : l.parent = t
           /\ txs' = txs \ {t} /\ links' = {l \in links : l.subordinate # t}
  <2>1. t \notin enlisted
    BY DEF RemovePhantom, PInv, PhantomsIdle
  <2>2. RowsRead'
    BY <1>1, <1>5 DEF GInv, RowsRead
  <2>3. RowsHeld'
    BY <1>1, <1>5, <2>1 DEF GInv, RowsHeld
  <2>4. ASSUME NEW m \in Node, pc'[m] = "link", NEW x \in job'[m].snapshot
        PROVE  /\ x \in LoggedRows /\ x.line < next'[x.node]
               /\ [parent |-> job'[m].parent, subordinate |-> x] \in links' \/ x \notin txs'
    <3>1. pc[m] = "link" /\ job'[m] = job[m]
      BY <1>3, <2>4
    <3>2. /\ x \in LoggedRows /\ x.line < next[x.node]
          /\ [parent |-> job[m].parent, subordinate |-> x] \in links \/ x \notin txs
      BY <2>4, <3>1 DEF GInv, HandlersRead
    <3> QED BY <1>1, <1>5, <3>1, <3>2
  <2>5. HandlersRead'
    BY <1>1, <1>3, <2>4 DEF GInv, HandlersRead
  <2> QED BY <2>2, <2>3, <2>5 DEF GInv
<1> QED BY <1>4, <1>5 DEF RemovePhantom

\* Where a branch calls two others at most, the commit of a handler leaves every
\* link that is there: the bag it rewrites is still the one in the table.
LEMMA CommitAdds ==
  ASSUME TwoCallsAtMost, IInv, GInv, NEW n \in Node, pc[n] = "link", CommitAllowed(n)
  PROVE  LET P == job[n].parent
             S == job[n].subordinate
         IN  /\ P \in txs /\ S \in txs /\ IsCall(P, S)
             /\ KeptLinks(n) \cup InsertedLinks(n) =
                  links \cup {[parent |-> P, subordinate |-> S]}
<1> DEFINE P == job[n].parent
           S == job[n].subordinate
           new == [parent |-> P, subordinate |-> S]
<1>1. new \in InsertedLinks(n)
  BY DEF InsertedLinks
<1>2. P \in txs /\ S \in txs /\ IsCall(P, S)
  <2>1. P \in txs /\ S \in txs
    BY <1>1 DEF CommitAllowed
  <2> QED BY <2>1 DEF IInv, JobInv
<1>3. ASSUME NEW x \in job[n].snapshot
      PROVE  /\ x # S /\ x \in txs /\ IsCall(P, x)
             /\ [parent |-> P, subordinate |-> x] \in links
  <2>1. [parent |-> P, subordinate |-> x] \in InsertedLinks(n)
    BY DEF InsertedLinks
  <2>2. x \in txs
    BY <2>1 DEF CommitAllowed
  <2>3. x # S
    BY DEF CommitAllowed
  <2> QED BY <2>2, <2>3 DEF GInv, HandlersRead, IInv, JobInv
<1>4. ASSUME NEW l \in links PROVE l \in KeptLinks(n) \cup InsertedLinks(n)
  <2>1. CASE job[n].snapshot = {} \/ l.parent # P
    BY <2>1 DEF KeptLinks
  <2>2. ASSUME l.parent = P, NEW x \in job[n].snapshot, l.subordinate # S
        PROVE  l \in InsertedLinks(n)
    <3>1. IsCall(P, l.subordinate) /\ l.subordinate \in txs
      BY <2>2 DEF IInv, LinksAreCalls, GInv, RowsHeld
    <3>2. P \in LoggedRows /\ S \in LoggedRows /\ x \in LoggedRows /\ l.subordinate \in LoggedRows
      BY <1>2, <1>3, <3>1 DEF GInv, RowsRead
    <3>3. IsCall(P, S) /\ IsCall(P, x) /\ x # S
      BY <1>2, <1>3
    <3>4. l.subordinate = x
      BY <2>2, <3>1, <3>2, <3>3 DEF TwoCallsAtMost
    <3>5. l = [parent |-> P, subordinate |-> x]
      <4>1. l \in HierarchyRow
        BY DEF IInv, Typed, TypeOK
      <4> QED BY <2>2, <3>4, <4>1 DEF HierarchyRow
    <3> QED BY <3>5 DEF InsertedLinks
  <2>3. CASE l.parent = P /\ l.subordinate = S
    <3>1. l \in HierarchyRow
      BY DEF IInv, Typed, TypeOK
    <3>2. l = new
      BY <2>3, <3>1 DEF HierarchyRow
    <3> QED BY <1>1, <3>2
  <2> QED BY <2>1, <2>2, <2>3
<1>5. ASSUME NEW l \in KeptLinks(n) \cup InsertedLinks(n) PROVE l \in links \cup {new}
  BY <1>3 DEF KeptLinks, InsertedLinks
<1>6. KeptLinks(n) \cup InsertedLinks(n) = links \cup {new}
  <2>1. links \cup {new} \subseteq KeptLinks(n) \cup InsertedLinks(n)
    BY <1>1, <1>4
  <2>2. KeptLinks(n) \cup InsertedLinks(n) \subseteq links \cup {new}
    BY <1>5
  <2> QED BY <2>1, <2>2
<1> QED BY <1>2, <1>6

\* Every step keeps rows, what hangs on them, and the bags of the handlers.
LEMMA NextGInv ==
  ASSUME TwoCallsAtMost, IInv, PInv, GInv, Typed', [Next]_vars
  PROVE  GInv'
<1>t. /\ Typed /\ next \in [Node -> Nat \ {0}] /\ next' \in [Node -> Nat \ {0}]
      /\ pc \in [Node -> Steps] /\ job \in [Node -> Job]
  BY DEF IInv, Typed, TypeOK
<1>h. enlisted \subseteq txs /\ \A l \in links : l.parent \in txs /\ l.subordinate \in txs
  BY DEF GInv, RowsHeld
<1>1. ASSUME NEW n \in Node, UNCHANGED <<txs, enlisted, links>>,
             \A m \in Node \ {n} : pc'[m] = pc[m] /\ job'[m] = job[m],
             pc'[n] \notin {"link", "remove"}, \A m \in Node : next'[m] >= next[m]
      PROVE  GInv'
  <2>1. \A m \in Node : AsRead(m)
    BY <1>t, <1>1, GOthers
  <2> QED BY <1>t, <1>h, <1>1, <2>1, GKeep
<1>2. ASSUME UNCHANGED next PROVE \A m \in Node : next'[m] >= next[m]
  BY <1>t, <1>2
<1>3. ASSUME NEW n \in Node, next' = [next EXCEPT ![n] = @ + 1]
      PROVE  \A m \in Node : next'[m] >= next[m]
  BY <1>t, <1>3
<1>4. ASSUME NEW n \in Node, Finish(n)
      PROVE  /\ \A m \in Node \ {n} : pc'[m] = pc[m] /\ job'[m] = job[m]
             /\ pc'[n] \notin {"link", "remove"}
  BY <1>t, <1>4 DEF Finish
<1>5. ASSUME NEW n \in Node, NEW s \in {"find", "insert", "refind", "load"}, GoTo(n, s),
             \A m \in Node \ {n} : job'[m] = job[m]
      PROVE  /\ \A m \in Node \ {n} : pc'[m] = pc[m] /\ job'[m] = job[m]
             /\ pc'[n] \notin {"link", "remove"}
  BY <1>t, <1>5 DEF GoTo
<1>6. ASSUME NEW n \in Node, pc[n] = "idle", UNCHANGED <<pc, job>>
      PROVE  /\ \A m \in Node \ {n} : pc'[m] = pc[m] /\ job'[m] = job[m]
             /\ pc'[n] \notin {"link", "remove"}
  BY <1>6
<1>7. ASSUME NEW n \in Node, CheckIfParent(n) PROVE GInv'
  <2>1. GoTo(n, "find") /\ \A m \in Node \ {n} : job'[m] = job[m]
    BY <1>t, <1>7 DEF CheckIfParent, HandleRequest
  <2>2. UNCHANGED <<txs, enlisted, links>> /\ next' = [next EXCEPT ![n] = @ + 1]
    BY <1>7 DEF CheckIfParent
  <2> QED BY <1>1, <1>3, <1>5, <2>1, <2>2
<1>8. ASSUME NEW n \in Node, AssociateThread(n) PROVE GInv'
  <2>1. /\ UNCHANGED <<pc, job, txs, enlisted, links>> /\ next' = [next EXCEPT ![n] = @ + 1]
        /\ pc[n] = "idle"
    BY <1>8 DEF AssociateThread, AtLine
  <2> QED BY <1>1, <1>3, <1>6, <2>1
<1>9. ASSUME NEW n \in Node, Enlist(n) PROVE GInv'
  <2>1. /\ UNCHANGED <<pc, job, txs, links>> /\ next' = [next EXCEPT ![n] = @ + 1]
        /\ pc[n] = "idle" /\ enlisted' \subseteq txs
    BY <1>9, <1>h DEF Enlist, AtLine
  <2>2. \A m \in Node : AsRead(m)
    BY <2>1 DEF AsRead
  <2> QED BY <1>t, <1>h, <1>3, <2>1, <2>2, GKeep
<1>10. ASSUME NEW n \in Node, Find(n) PROVE GInv'
  <2>1. UNCHANGED <<next, txs, enlisted, links>>
    BY <1>10 DEF Find
  <2>2. CASE GoTo(n, "load") \/ GoTo(n, "insert")
    <3>1. \A m \in Node \ {n} : job'[m] = job[m]
      BY <1>t, <1>10 DEF Find
    <3> QED BY <1>1, <1>2, <1>5, <2>1, <2>2, <3>1
  <2> QED BY <1>10, <2>2 DEF Find
<1>11. ASSUME NEW n \in Node, Insert(n) PROVE GInv'
  <2>1. UNCHANGED <<next, txs, enlisted, links>>
    BY <1>11 DEF Insert
  <2>2. CASE GoTo(n, "refind") /\ UNCHANGED job
    BY <1>1, <1>2, <1>5, <2>1, <2>2
  <2>3. CASE Finish(n)
    BY <1>1, <1>2, <1>4, <2>1, <2>3
  <2> QED BY <1>11, <2>2, <2>3 DEF Insert, OnDuplicateKey
<1>12. ASSUME NEW n \in Node, Refind(n) PROVE GInv'
  <2>1. UNCHANGED <<next, txs, enlisted, links>>
    BY <1>12 DEF Refind
  <2>2. CASE GoTo(n, "load") /\ \A m \in Node \ {n} : job'[m] = job[m]
    BY <1>1, <1>2, <1>5, <2>1, <2>2
  <2>3. CASE Finish(n)
    BY <1>1, <1>2, <1>4, <2>1, <2>3
  <2> QED BY <1>t, <1>12, <2>2, <2>3 DEF Refind
<1>13. ASSUME NEW n \in Node, CommitHierarchy(n) PROVE GInv'
  <2>1. UNCHANGED <<next, txs, enlisted>> /\ Finish(n) /\ pc[n] = "link"
    BY <1>13 DEF CommitHierarchy
  <2>2. CASE UNCHANGED links
    BY <1>1, <1>2, <1>4, <2>1, <2>2
  <2>3. CASE CommitAllowed(n) /\ links' = KeptLinks(n) \cup InsertedLinks(n)
    <3>1. /\ job[n].parent \in txs /\ job[n].subordinate \in txs
          /\ links' = links \cup {[parent |-> job[n].parent,
                                   subordinate |-> job[n].subordinate]}
      BY <2>1, <2>3, CommitAdds
    <3>2. /\ links \subseteq links'
          /\ \A l \in links' : l.parent \in txs /\ l.subordinate \in txs
      BY <1>h, <3>1
    <3>3. \A m \in Node : next'[m] >= next[m]
      BY <1>2, <2>1
    <3>4. \A m \in Node : AsRead(m)
      BY <1>t, <1>4, <2>1, GOthers
    <3>5. enlisted' \subseteq txs /\ UNCHANGED txs
      BY <1>h, <2>1
    <3> QED BY <1>t, <3>2, <3>3, <3>4, <3>5, GKeep
  <2> QED BY <1>13, <2>2, <2>3 DEF CommitHierarchy
<1>14. ASSUME NEW n \in Node, Fail(n) PROVE GInv'
  <2>1. UNCHANGED <<next, txs, enlisted, links>>
    BY <1>14 DEF Fail
  <2>2. CASE GoTo(n, "refind") /\ UNCHANGED job
    BY <1>1, <1>2, <1>5, <2>1, <2>2
  <2>3. CASE Finish(n)
    BY <1>1, <1>2, <1>4, <2>1, <2>3
  <2> QED BY <1>14, <2>2, <2>3 DEF Fail
<1>15. ASSUME NEW n \in Node, LoseLine(n) PROVE GInv'
  <2>1. /\ UNCHANGED <<pc, job, txs, enlisted, links>> /\ next' = [next EXCEPT ![n] = @ + 1]
        /\ pc[n] = "idle"
    BY <1>15 DEF LoseLine, AtLine
  <2> QED BY <1>1, <1>3, <1>6, <2>1
<1>16. ASSUME NEW n \in Node, Restart(n) PROVE GInv'
  <2>1. /\ UNCHANGED <<txs, enlisted, links>> /\ Finish(n)
        /\ \E k \in next[n] .. Len(Log[n]) + 1 : next' = [next EXCEPT ![n] = k]
    BY <1>16 DEF Restart
  <2>2. \A m \in Node : next'[m] >= next[m]
    BY <1>t, <2>1, LogAssumption
  <2> QED BY <1>1, <1>4, <2>1, <2>2
<1>17. CASE UNCHANGED vars
  <2>1. UNCHANGED <<next, pc, job, txs, enlisted, links>>
    BY <1>17 DEF vars
  <2>2. \A m \in Node : AsRead(m)
    BY <2>1 DEF AsRead
  <2> QED BY <1>t, <1>h, <1>2, <2>1, <2>2, GKeep
<1> QED
  BY <1>t, <1>7, <1>8, <1>9, <1>10, <1>11, <1>12, <1>13, <1>14, <1>15, <1>16, <1>17,
     GBegin, GCheckPhantom, GLoad, GRemove DEF Next, Monitor

-----------------------------------------------------------------------------
(* Steps of the monitors and steps of the forest.                           *)

\* The logs have one caller of a branch at most.
LEMMA CallerUnique ==
  ASSUME CallsUnique, BeginsOnce, NEW p \in LoggedRows, NEW s \in LoggedRows, IsCall(p, s)
  PROVE  Callers[s] = p /\ p # NoRow
<1>1. ASSUME NEW x \in LoggedRows, IsCall(x, s) PROVE x = p
  <2>1. PICK r \in Request : Call(r, p, s)
    BY IsCallCall
  <2>2. PICK q \in Request : Call(q, x, s)
    BY <1>1, IsCallCall
  <2>3. r = q
    <3>1. ServingLine(s.node, s.line, r) /\ ServingLine(s.node, s.line, q)
      BY <2>1, <2>2 DEF Call
    <3> QED BY <3>1, LineOfRow, ReceivingUnique DEF ServingLine
  <2>4. PICK i \in DOMAIN Log[p.node] :
          Log[p.node][i].type = "send_request" /\ Log[p.node][i].request = r
    BY <2>1 DEF Call, Sends
  <2>5. PICK j \in DOMAIN Log[x.node] :
          Log[x.node][j].type = "send_request" /\ Log[x.node][j].request = r
    BY <2>2, <2>3 DEF Call, Sends
  <2>6. p.node = x.node
    BY <2>4, <2>5, LineOfRow DEF CallsUnique
  <2>7. p.txuid = x.txuid
    BY <2>1, <2>2 DEF Call
  <2> QED BY <2>6, <2>7, RowUnique
<1>2. (CHOOSE x \in LoggedRows : IsCall(x, s)) = p
  BY <1>1
<1>3. p \in Row
  BY LineOfRow DEF Row
<1> QED BY <1>2, <1>3, RowAssumption DEF Callers

\* What the tables say of one branch.
LEMMA RecordedAt ==
  ASSUME NEW b \in LoggedRows
  PROVE  Recorded[b] = IF b \in txs THEN "there"
                       ELSE IF b.line < next[b.node] THEN "gone" ELSE "none"
BY DEF Recorded

\* A branch is linked under another where the table has a row of the two.
LEMMA LinkedAt ==
  ASSUME Typed, NEW b \in LoggedRows, NEW x
  PROVE  x \in LinkedUnder[b] <=> [parent |-> b, subordinate |-> x] \in links
<1>1. LinkedUnder[b] = {l.subordinate : l \in {k \in links : k.parent = b}}
  BY DEF LinkedUnder
<1>2. \A l \in links : l = [parent |-> l.parent, subordinate |-> l.subordinate]
  BY DEF Typed, TypeOK, HierarchyRow
<1>3. ASSUME x \in LinkedUnder[b] PROVE [parent |-> b, subordinate |-> x] \in links
  <2>1. PICK l \in links : l.parent = b /\ l.subordinate = x
    BY <1>1, <1>3
  <2> QED BY <1>2, <2>1
<1>4. ASSUME [parent |-> b, subordinate |-> x] \in links PROVE x \in LinkedUnder[b]
  BY <1>1, <1>4
<1> QED BY <1>3, <1>4

\* No branch is heard of for the first time: a step of the forest that looks at
\* the rows sees the same ones as long as no line that begins a branch is read.
LEMMA SameRows ==
  ASSUME UNCHANGED txs,
         \A b \in LoggedRows : b.line < next'[b.node] <=> b.line < next[b.node]
  PROVE  UNCHANGED Recorded
BY DEF Recorded

\* A line that begins nothing.
LEMMA OtherLine ==
  ASSUME Typed, UNCHANGED txs, NEW n \in Node, next[n] \in DOMAIN Log[n],
         Log[n][next[n]].type # "Begin", next' = [next EXCEPT ![n] = @ + 1]
  PROVE  UNCHANGED Recorded
<1>1. /\ next \in [Node -> Nat \ {0}] /\ next'[n] = next[n] + 1 /\ next[n] \in Nat
      /\ \A m \in Node \ {n} : next'[m] = next[m]
  BY DEF Typed, TypeOK
<1>2. ASSUME NEW b \in LoggedRows
      PROVE  b.line < next'[b.node] <=> b.line < next[b.node]
  <2>1. b.node \in Node /\ b.line \in Nat /\ Log[b.node][b.line].type = "Begin"
    BY LineOfRow
  <2>2. b.node = n => b.line # next[n]
    BY <2>1
  <2>3. CASE b.node = n
    BY <1>1, <2>1, <2>2, <2>3
  <2>4. CASE b.node # n
    BY <1>1, <2>1, <2>4
  <2> QED BY <2>3, <2>4
<1> QED BY <1>2, SameRows

\* A begin line is the begin of its branch.
LEMMA BeginGrows ==
  ASSUME Typed, GInv, NEW n \in Node, Begin(n)
  PROVE  F!Next
<1> DEFINE new == [node |-> n, txuid |-> Current(n).txuid, line |-> next[n]]
<1>1. /\ new \in LoggedRows /\ txs' = txs \cup {new}
      /\ next' = [next EXCEPT ![n] = @ + 1] /\ UNCHANGED <<enlisted, links>>
  BY RowOfLine DEF Begin, AtLine, Current
<1>2. new.node = n /\ new.line = next[n]
  OBVIOUS
<1> HIDE DEF new
<1>3. /\ next \in [Node -> Nat \ {0}] /\ next'[n] = next[n] + 1 /\ next[n] \in Nat
      /\ \A m \in Node \ {n} : next'[m] = next[m]
  BY <1>1 DEF Typed, TypeOK
<1>4. Recorded[new] = "none"
  <2>1. new \notin txs /\ ~ (new.line < next[new.node])
    BY <1>2, <1>3 DEF GInv, RowsRead
  <2> QED BY <1>1, <2>1, RecordedAt
<1>5. Recorded' = [Recorded EXCEPT ![new] = "there"]
  <2>1. ASSUME NEW b \in LoggedRows, b # new
        PROVE  b.line < next'[b.node] <=> b.line < next[b.node]
    <3>1. b.node \in Node /\ b.line \in Nat /\ b.line \in DOMAIN Log[b.node]
      BY LineOfRow
    <3>2. b.node = n => b.line # next[n]
      BY <1>1, <1>2, <2>1, LineOfRow
    <3>3. CASE b.node = n
      BY <1>3, <3>1, <3>2, <3>3
    <3>4. CASE b.node # n
      BY <1>3, <3>1, <3>4
    <3> QED BY <3>3, <3>4
  <2>2. ASSUME NEW b \in LoggedRows
        PROVE  (IF b \in txs' THEN "there"
                ELSE IF b.line < next'[b.node] THEN "gone" ELSE "none")
                 = IF b = new THEN "there" ELSE Recorded[b]
    BY <1>1, <2>1, RecordedAt
  <2> QED BY <2>2 DEF Recorded
<1>6. UNCHANGED LinkedUnder
  BY <1>1 DEF LinkedUnder
<1>7. new \in F!ToCome
  BY <1>1, <1>4 DEF F!ToCome
<1>8. F!Begin(new)
  BY <1>1, <1>5, <1>6, <1>7 DEF F!Begin
<1> QED BY <1>1, <1>8 DEF F!Next

\* A participant is the first or a further one of its branch.
LEMMA EnlistGrows ==
  ASSUME Typed, GInv, NEW n \in Node, Enlist(n)
  PROVE  F!Next \/ UNCHANGED <<Recorded, LinkedUnder, enlisted>>
<1>1. /\ enlisted' = enlisted \cup {t \in txs : FindNatural(n, Current(n).txuid) = {t}}
      /\ next' = [next EXCEPT ![n] = @ + 1] /\ UNCHANGED <<txs, links>>
      /\ next[n] \in DOMAIN Log[n] /\ Log[n][next[n]].type # "Begin"
  BY DEF Enlist, AtLine
<1>2. UNCHANGED Recorded /\ UNCHANGED LinkedUnder
  BY <1>1, OtherLine DEF LinkedUnder
<1>3. ASSUME NEW t \in txs, FindNatural(n, Current(n).txuid) = {t}
      PROVE  F!Next
  <2>1. enlisted' = enlisted \cup {t}
    BY <1>1, <1>3
  <2>2. t \in LoggedRows
    BY DEF GInv, RowsRead
  <2>3. F!There(t)
    BY <2>2, RecordedAt DEF F!There
  <2>4. F!Enlist(t)
    BY <1>2, <2>1, <2>3 DEF F!Enlist
  <2> QED BY <2>2, <2>4 DEF F!Next
<1>4. ASSUME ~ \E t \in txs : FindNatural(n, Current(n).txuid) = {t}
      PROVE  UNCHANGED enlisted
  BY <1>1, <1>4
<1> QED BY <1>2, <1>3, <1>4

\* A removal is a cleanup of a branch that did nothing.
LEMMA RemovalGrows ==
  ASSUME Typed, PInv, GInv, NEW n \in Node, RemovePhantom(n)
  PROVE  F!Next \/ UNCHANGED <<Recorded, LinkedUnder, enlisted>>
<1> DEFINE t == job[n].subordinate
<1>1. UNCHANGED <<next, enlisted>> /\ pc[n] = "remove"
  BY DEF RemovePhantom
<1>2. CASE UNCHANGED <<txs, links>>
  BY <1>1, <1>2, SameRows DEF LinkedUnder
<1>3. CASE /\ ~ \E l \in links : l.parent = t
           /\ txs' = txs \ {t} /\ links' = {l \in links : l.subordinate # t}
  <2>1. /\ t \in LoggedRows /\ t.node = n /\ t.line < next[n]
        /\ t \notin enlisted
    BY <1>1 DEF GInv, HandlersRead, PInv, PhantomsIdle
  <2> HIDE DEF t
  <2>2. CASE t \notin txs
    <3>1. \A l \in links : l.subordinate # t
      BY <2>2 DEF GInv, RowsHeld
    <3>2. links' = links /\ txs' = txs
      BY <1>3, <2>2, <3>1
    <3> QED BY <1>1, <3>2, SameRows DEF LinkedUnder
  <2>3. CASE t \in txs
    <3>1. F!There(t)
      BY <2>1, <2>3, RecordedAt DEF F!There
    <3>2. LinkedUnder[t] = {}
      BY <1>3, <2>1 DEF LinkedUnder
    <3>3. Recorded' = [Recorded EXCEPT ![t] = "gone"]
      <4>1. ASSUME NEW b \in LoggedRows
            PROVE  (IF b \in txs' THEN "there"
                    ELSE IF b.line < next'[b.node] THEN "gone" ELSE "none")
                     = IF b = t THEN "gone" ELSE Recorded[b]
        BY <1>1, <1>3, <2>1, RecordedAt
      <4> QED BY <4>1 DEF Recorded
    <3>4. LinkedUnder' = [a \in LoggedRows |-> LinkedUnder[a] \ {t}]
      <4>1. ASSUME NEW a \in LoggedRows
            PROVE  {l.subordinate : l \in {k \in links' : k.parent = a}}
                     = {l.subordinate : l \in {k \in links : k.parent = a}} \ {t}
        BY <1>3
      <4> QED BY <4>1 DEF LinkedUnder
    <3>5. F!Cleanup(t)
      BY <1>1, <2>1, <3>1, <3>2, <3>3, <3>4 DEF F!Cleanup
    <3> QED BY <2>1, <3>5 DEF F!Next
  <2> QED BY <2>2, <2>3
<1> QED BY <1>2, <1>3 DEF RemovePhantom

\* A commit links one branch under its caller, or changes nothing.
LEMMA CommitLinks ==
  ASSUME CallsUnique, BeginsOnce, TwoCallsAtMost, IInv, GInv, NEW n \in Node,
         CommitHierarchy(n)
  PROVE  F!Next \/ UNCHANGED <<Recorded, LinkedUnder, enlisted>>
<1> DEFINE P == job[n].parent
           S == job[n].subordinate
           new == [parent |-> P, subordinate |-> S]
<1>1. UNCHANGED <<next, txs, enlisted>> /\ pc[n] = "link"
  BY DEF CommitHierarchy
<1>2. UNCHANGED Recorded
  BY <1>1, SameRows
<1>3. CASE UNCHANGED links
  BY <1>1, <1>2, <1>3 DEF LinkedUnder
<1>4. CASE CommitAllowed(n) /\ links' = KeptLinks(n) \cup InsertedLinks(n)
  <2>1. P \in txs /\ S \in txs /\ IsCall(P, S) /\ links' = links \cup {new}
    BY <1>1, <1>4, CommitAdds
  <2>2. P \in LoggedRows /\ S \in LoggedRows
    BY <2>1 DEF GInv, RowsRead
  <2>3. CASE new \in links
    <3>1. links' = links
      BY <2>1, <2>3
    <3> QED BY <1>3, <3>1
  <2>4. CASE new \notin links
    <3>1. F!There(P) /\ F!There(S)
      BY <2>1, <2>2, RecordedAt DEF F!There
    <3>2. Callers[S] = P /\ P # NoRow
      BY <2>1, <2>2, CallerUnique
    <3>3. ~ F!Linked(S)
      <4> SUFFICES ASSUME NEW a \in LoggedRows, S \in LinkedUnder[a] PROVE FALSE
        BY DEF F!Linked
      <4> DEFINE l == [parent |-> a, subordinate |-> S]
      <4>1. l \in links
        BY LinkedAt DEF IInv
      <4>2. new \in InsertedLinks(n)
        BY DEF InsertedLinks
      <4>3. l \notin KeptLinks(n)
        BY <1>4, <4>2 DEF CommitAllowed
      <4>4. a = P
        BY <4>1, <4>3 DEF KeptLinks
      <4> QED BY <2>4, <4>1, <4>4
    <3>4. LinkedUnder' = [LinkedUnder EXCEPT ![P] = @ \cup {S}]
      <4>1. ASSUME NEW b \in LoggedRows
            PROVE  {l.subordinate : l \in {k \in links' : k.parent = b}}
                     = {l.subordinate : l \in {k \in links : k.parent = b}}
                         \cup (IF b = P THEN {S} ELSE {})
        <5>1. new.parent = P /\ new.subordinate = S
          OBVIOUS
        <5> HIDE DEF new
        <5>2. CASE b = P
          BY <2>1, <5>1, <5>2
        <5>3. CASE b # P
          <6>1. {k \in links' : k.parent = b} = {k \in links : k.parent = b}
            BY <2>1, <5>1, <5>3
          <6> QED BY <5>3, <6>1
        <5> QED BY <5>2, <5>3
      <4> QED BY <2>2, <4>1 DEF LinkedUnder
    <3>5. F!Link(S)
      BY <1>1, <1>2, <3>1, <3>2, <3>3, <3>4 DEF F!Link
    <3> QED BY <2>2, <3>5 DEF F!Next
  <2> QED BY <2>3, <2>4
<1> QED BY <1>3, <1>4 DEF CommitHierarchy

\* A restart misses the lines that were written meanwhile.
LEMMA RestartMisses ==
  ASSUME Typed, GInv, NEW n \in Node, Restart(n)
  PROVE  F!Next
<1>1. PICK k \in next[n] .. Len(Log[n]) + 1 : next' = [next EXCEPT ![n] = k]
  BY DEF Restart
<1>2. /\ next \in [Node -> Nat \ {0}] /\ next[n] \in Nat /\ k \in Nat /\ next[n] <= k
      /\ next'[n] = k /\ \A m \in Node \ {n} : next'[m] = next[m]
  BY <1>1, LogAssumption DEF Typed, TypeOK
<1>3. UNCHANGED <<txs, enlisted, links>>
  BY DEF Restart
<1> DEFINE missed == {b \in LoggedRows : b.node = n /\ next[n] <= b.line /\ b.line < k}
<1>4. missed \subseteq F!ToCome
  <2> SUFFICES ASSUME NEW b \in missed PROVE Recorded[b] = "none"
    BY DEF F!ToCome
  <2>1. b \in LoggedRows /\ b.node = n /\ ~ (b.line < next[n])
    BY <1>2, LineOfRow
  <2>2. b \notin txs
    BY <2>1 DEF GInv, RowsRead
  <2> QED BY <2>1, <2>2, RecordedAt
<1>5. Recorded' = [b \in LoggedRows |-> IF b \in missed THEN "gone" ELSE Recorded[b]]
  <2>1. ASSUME NEW b \in LoggedRows
        PROVE  (IF b \in txs' THEN "there"
                ELSE IF b.line < next'[b.node] THEN "gone" ELSE "none")
                 = IF b \in missed THEN "gone" ELSE Recorded[b]
    <3>1. b.node \in Node /\ b.line \in Nat
      BY LineOfRow
    <3>2. CASE b \in missed
      <4>1. b \notin txs
        BY <1>2, <3>1, <3>2 DEF GInv, RowsRead
      <4> QED BY <1>2, <1>3, <3>1, <3>2, <4>1
    <3>3. CASE b \notin missed
      <4>1. b.line < next'[b.node] <=> b.line < next[b.node]
        BY <1>2, <3>1, <3>3
      <4> QED BY <1>3, <3>3, <4>1, RecordedAt
    <3> QED BY <3>2, <3>3
  <2> QED BY <2>1 DEF Recorded
<1>6. UNCHANGED LinkedUnder
  BY <1>3 DEF LinkedUnder
<1>7. F!Miss(missed)
  BY <1>3, <1>4, <1>5, <1>6 DEF F!Miss
<1> QED BY <1>4, <1>7 DEF F!Next

\* Every step of the monitors is a step of the forest or a stutter.
LEMMA NextForest ==
  ASSUME CallsUnique, BeginsOnce, TwoCallsAtMost, "Begin" \notin Lossy,
         IInv, PInv, GInv, [Next]_vars
  PROVE  F!Next \/ UNCHANGED <<Recorded, LinkedUnder, enlisted>>
<1>t. Typed
  BY DEF IInv
<1>1. ASSUME UNCHANGED <<next, txs, enlisted, links>>
      PROVE  UNCHANGED <<Recorded, LinkedUnder, enlisted>>
  BY <1>1 DEF Recorded, LinkedUnder
<1>2. ASSUME NEW n \in Node, next[n] \in DOMAIN Log[n], Log[n][next[n]].type # "Begin",
             next' = [next EXCEPT ![n] = @ + 1], UNCHANGED <<txs, enlisted, links>>
      PROVE  UNCHANGED <<Recorded, LinkedUnder, enlisted>>
  <2>1. UNCHANGED Recorded
    BY <1>t, <1>2, OtherLine
  <2> QED BY <1>2, <2>1 DEF LinkedUnder
<1>3. ASSUME NEW n \in Node, CheckIfParent(n) \/ AssociateThread(n)
      PROVE  UNCHANGED <<Recorded, LinkedUnder, enlisted>>
  BY <1>2, <1>3 DEF CheckIfParent, AssociateThread, AtLine
<1>4. ASSUME NEW n \in Node, CheckPhantom(n)
      PROVE  UNCHANGED <<Recorded, LinkedUnder, enlisted>>
  BY <1>2, <1>4 DEF CheckPhantom, AtLine
<1>5. ASSUME NEW n \in Node, Find(n) \/ Insert(n) \/ Refind(n)
      PROVE  UNCHANGED <<Recorded, LinkedUnder, enlisted>>
  BY <1>1, <1>5 DEF Find, Insert, Refind
<1>6. ASSUME NEW n \in Node, Load(n)
      PROVE  UNCHANGED <<Recorded, LinkedUnder, enlisted>>
  BY <1>1, <1>6, ZenonT(30) DEF Load
<1>7. ASSUME NEW n \in Node, Fail(n)
      PROVE  UNCHANGED <<Recorded, LinkedUnder, enlisted>>
  BY <1>1, <1>7 DEF Fail
<1>8. ASSUME NEW n \in Node, LoseLine(n)
      PROVE  UNCHANGED <<Recorded, LinkedUnder, enlisted>>
  <2>1. /\ next[n] \in DOMAIN Log[n] /\ Log[n][next[n]].type # "Begin"
        /\ next' = [next EXCEPT ![n] = @ + 1] /\ UNCHANGED <<txs, enlisted, links>>
    BY <1>8 DEF LoseLine, AtLine
  <2> QED BY <1>2, <2>1
<1>9. CASE UNCHANGED vars
  BY <1>1, <1>9 DEF vars
<1> QED
  BY <1>t, <1>3, <1>4, <1>5, <1>6, <1>7, <1>8, <1>9, BeginGrows, EnlistGrows,
     RemovalGrows, CommitLinks, RestartMisses DEF Next, Monitor

\* Whatever fails or restarts, and however the monitors interleave, the
\* hierarchy is the forest that a page may rely on: a branch comes once, its
\* link stays until the branch itself is taken away, and that happens only to a
\* branch without participants and without subordinates
\* (HandlerService:176-194, 241-290 and 551-562).
THEOREM ForestImplemented ==
  CallsUnique /\ BeginsOnce /\ TwoCallsAtMost /\ "Begin" \notin Lossy =>
    (Spec => ForestSpec)
<1> SUFFICES ASSUME CallsUnique, BeginsOnce, TwoCallsAtMost, "Begin" \notin Lossy
             PROVE  Spec => F!Spec
  BY DEF ForestSpec
<1>1. Init => IInv /\ PInv /\ GInv
  <2>1. Init => PInv
    BY InitTyped DEF Init, PInv, PhantomsIdle
  <2>2. Init => GInv
    BY DEF Init, GInv, RowsRead, RowsHeld, HandlersRead
  <2> QED BY <2>1, <2>2, InitIInv
<1>2. IInv /\ PInv /\ GInv /\ [Next]_vars => IInv' /\ PInv' /\ GInv'
  <2> SUFFICES ASSUME IInv, PInv, GInv, [Next]_vars PROVE IInv' /\ PInv' /\ GInv'
    OBVIOUS
  <2>1. IInv' /\ PInv'
    BY NextIInv, NextPInv
  <2>2. Typed'
    BY <2>1 DEF IInv
  <2> QED BY <2>1, <2>2, NextGInv
<1>3. Init => F!Init
  <2> SUFFICES ASSUME Init PROVE F!Init
    OBVIOUS
  <2>1. Recorded = [b \in LoggedRows |-> "none"]
    <3>1. ASSUME NEW b \in LoggedRows PROVE b \notin txs /\ ~ (b.line < next[b.node])
      BY LineOfRow, LineTypes DEF Init
    <3> QED BY <3>1 DEF Recorded
  <2>2. LinkedUnder = [b \in LoggedRows |-> {}]
    BY DEF LinkedUnder, Init
  <2> QED BY <2>1, <2>2 DEF Init, F!Init
<1>4. IInv /\ PInv /\ GInv /\ [Next]_vars =>
        [F!Next]_<<Recorded, LinkedUnder, enlisted>>
  BY NextForest
<1> QED BY <1>1, <1>2, <1>3, <1>4, PTL DEF Spec, F!Spec

=============================================================================
