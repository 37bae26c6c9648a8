---------------------------- MODULE MCHierarchy -----------------------------
(* Logs of small clusters for Hierarchy. *)
EXTENDS Hierarchy, TLC

CONSTANTS p, s1, s2, s3,       \* nodes
          t1, t2,              \* transactions
          r1, r2, r3,          \* requests
          a, b                 \* threads

LBegin(u, th) == [type |-> "Begin", txuid |-> u, thread |-> th]
LSend(r) == [type |-> "send_request", request |-> r]
LReceive(th, r) == [type |-> "receive_request", thread |-> th, request |-> r]
LEnlist(u) == [type |-> "enlist", txuid |-> u]
LStatus(u) == [type |-> "get_status", txuid |-> u]

\* p calls s1 and s2 in t1; s1, on the thread that served p, begins t2 of its
\* own and calls s2 in it.  Threads come from one pool and are used again.
CallNodes == {p, s1, s2}
CallLog ==
  (p  :> <<LBegin(t1, a), LSend(r1), LSend(r2)>>) @@
  (s1 :> <<LReceive(a, r1), LBegin(t1, a), LBegin(t2, a), LSend(r3)>>) @@
  (s2 :> <<LReceive(a, r2), LBegin(t1, a), LReceive(b, r3), LBegin(t2, b)>>)

\* The calls of CallLog, and queries of the status of what has committed, which
\* start cleanup().  In t1 p and
\* s1 enlist a participant, in t2 nobody does: the branches of t2, and the one of
\* t1 at s2, may be removed before or while they are linked.
FaultNodes == {p, s1, s2}
FaultLog ==
  (p  :> <<LBegin(t1, a), LSend(r1), LSend(r2), LEnlist(t1), LStatus(t1)>>) @@
  (s1 :> <<LReceive(a, r1), LBegin(t1, a), LEnlist(t1), LStatus(t1),
           LBegin(t2, a), LSend(r3), LStatus(t2)>>) @@
  (s2 :> <<LReceive(a, r2), LBegin(t1, a), LReceive(b, r3), LBegin(t2, b), LStatus(t2)>>)

\* p calls three subordinates in one transaction.
StarNodes == {p, s1, s2, s3}
StarLog ==
  (p  :> <<LBegin(t1, a), LSend(r1), LSend(r2), LSend(r3)>>) @@
  (s1 :> <<LReceive(a, r1), LBegin(t1, a)>>) @@
  (s2 :> <<LReceive(a, r2), LBegin(t1, a)>>) @@
  (s3 :> <<LReceive(a, r3), LBegin(t1, a)>>)

=============================================================================
