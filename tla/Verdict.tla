------------------------------ MODULE Verdict -------------------------------
(***************************************************************************)
(* What a reader of the database may rely on: the verdict shown for a       *)
(* transaction lags behind what its coordinator did, and may never come,    *)
(* but it never contradicts it and is never taken back, unless the          *)
(* transaction committed and no resource of it is known: then its record    *)
(* may go.                                                                  *)
(***************************************************************************)
CONSTANT TxUid

VARIABLES
  decided,  \* decided[u]: the decision of the coordinator of u
  ended,    \* ended[u]: how u really ended, heuristically perhaps
  shown,    \* shown[u]: what the database shows of it
  known     \* known[u]: whether the database knows a resource of u

vars == <<decided, ended, shown, known>>

Decision == {"commit", "abort"}

Init ==
  /\ decided = [u \in TxUid |-> "none"]
  /\ ended = [u \in TxUid |-> "none"]
  /\ shown = [u \in TxUid |-> "none"]
  /\ known = [u \in TxUid |-> FALSE]

\* A crash of the server decides several transactions at once.
Decide ==
  /\ decided' \in [TxUid -> Decision \cup {"none"}]
  /\ \A u \in TxUid : decided[u] # "none" => decided'[u] = decided[u]
  /\ UNCHANGED <<ended, shown, known>>

\* Participants that decide for themselves can make the end differ.
End(u, e) ==
  /\ decided[u] # "none" /\ ended[u] = "none"
  /\ ended' = [ended EXCEPT ![u] = e]
  /\ UNCHANGED <<decided, shown, known>>

ShowDecision(u) ==
  /\ decided[u] # "none" /\ shown[u] = "none"
  /\ shown' = [shown EXCEPT ![u] = decided[u]]
  /\ UNCHANGED <<decided, ended, known>>

ShowEnd(u) ==
  /\ ended[u] # "none"
  /\ shown' = [shown EXCEPT ![u] = ended[u]]
  /\ UNCHANGED <<decided, ended, known>>

Enlist(u) ==
  /\ known' = [known EXCEPT ![u] = TRUE]
  /\ UNCHANGED <<decided, ended, shown>>

Forget(u) ==
  /\ decided[u] = "commit" /\ ~ known[u]
  /\ shown' = [shown EXCEPT ![u] = "none"]
  /\ UNCHANGED <<decided, ended, known>>

Next ==
  \/ Decide
  \/ \E u \in TxUid :
       \/ \E e \in Decision \cup {"heuristic"} : End(u, e)
       \/ ShowDecision(u) \/ ShowEnd(u)
       \/ Enlist(u) \/ Forget(u)

Spec == Init /\ [][Next]_vars
=============================================================================
