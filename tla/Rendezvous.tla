----------------------------- MODULE Rendezvous ------------------------------
(***************************************************************************)
(* What HandlerService.handleRequest promises: the monitors of the two ends *)
(* of a request meet exactly once, whichever comes first.  The first leaves *)
(* a record and goes on, the second joins the two ends for good.            *)
(***************************************************************************)
CONSTANT Request

VARIABLE met  \* met[r]: what has become of request r

Init == met = [r \in Request |-> "none"]

\* One end is alone: it leaves a record for the other.
Arrive(r) == met[r] = "none" /\ met' = [met EXCEPT ![r] = "waiting"]

\* The other end finds the record: record and waiting are over together.
Meet(r) == met[r] = "waiting" /\ met' = [met EXCEPT ![r] = "joined"]

Next == \E r \in Request : Arrive(r) \/ Meet(r)

Spec == Init /\ [][Next]_met
=============================================================================
