-------------------------------- MODULE Ballot --------------------------------
(***************************************************************************)
(* What the monitors promise the pages of a participant: its record comes    *)
(* once and stays; its vote is recorded once, and only a refusal that comes  *)
(* with an exception changes it; an exception stays, and no vote for the     *)
(* commit comes after it.                                                    *)
(***************************************************************************)
CONSTANTS
  Branch,   \* branches of transactions
  Resource  \* jndi names of resource managers

VARIABLE record  \* record[b][r]: what is recorded of r in b

\* Recorded of a participant; Absent: it has no record.
Record == [vote : {"none", "UNKNOWN", "COMMIT", "ABORT"}, xaException : BOOLEAN]
Absent == [vote |-> "none", xaException |-> FALSE]
New == [vote |-> "UNKNOWN", xaException |-> FALSE]

Becomes(b, r, entry) == record' = [record EXCEPT ![b][r] = entry]

Enlist(b, r) ==
  /\ record[b][r] = Absent
  /\ Becomes(b, r, New)

VoteFor(b, r) ==
  /\ record[b][r] = New
  /\ Becomes(b, r, [New EXCEPT !.vote = "COMMIT"])

VoteAgainst(b, r) ==
  /\ record[b][r].vote = "UNKNOWN"
  /\ Becomes(b, r, [record[b][r] EXCEPT !.vote = "ABORT"])

\* A JTA resource that refuses has its vote changed with the exception, a JTS
\* one that throws keeps it.
Throw(b, r) ==
  /\ record[b][r] # Absent /\ ~ record[b][r].xaException
  /\ \E v \in {"ABORT", record[b][r].vote} :
       Becomes(b, r, [vote |-> v, xaException |-> TRUE])

Init == record = [b \in Branch |-> [r \in Resource |-> Absent]]

Answer(b, r) == VoteFor(b, r) \/ VoteAgainst(b, r) \/ Throw(b, r)

Next == \E b \in Branch, r \in Resource : Enlist(b, r) \/ Answer(b, r)

Spec == Init /\ [][Next]_record
=============================================================================
