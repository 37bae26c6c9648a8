-------------------------------- MODULE Forest --------------------------------
(***************************************************************************)
(* What the monitors promise the pages of what they record: a branch comes   *)
(* once, is linked under its caller while both are there, and goes only as    *)
(* long as it has done nothing and nothing is linked under it.  A link goes  *)
(* with its branch and in no other way.                                      *)
(***************************************************************************)
CONSTANTS
  Branch,    \* branches of transactions
  NoBranch,  \* no branch
  Caller     \* Caller[b]: the branch that called b, or NoBranch

VARIABLES
  row,           \* row[b]: whether Transaction has the row of b
  subordinates,  \* subordinates[b]: the rows linked under b
  enlisted       \* the branches with a participant

ToCome == {b \in Branch : row[b] = "none"}
There(b) == row[b] = "there"
Linked(b) == \E a \in Branch : b \in subordinates[a]

Begin(b) ==
  /\ b \in ToCome
  /\ row' = [row EXCEPT ![b] = "there"]
  /\ UNCHANGED <<subordinates, enlisted>>

\* The lines that begin these branches are never read.
Miss(missed) ==
  /\ missed \subseteq ToCome
  /\ row' = [b \in Branch |-> IF b \in missed THEN "gone" ELSE row[b]]
  /\ UNCHANGED <<subordinates, enlisted>>

Enlist(b) ==
  /\ There(b)
  /\ enlisted' = enlisted \cup {b}
  /\ UNCHANGED <<row, subordinates>>

Link(b) ==
  /\ There(b) /\ ~ Linked(b)
  /\ Caller[b] # NoBranch /\ There(Caller[b])
  /\ subordinates' = [subordinates EXCEPT ![Caller[b]] = @ \cup {b}]
  /\ UNCHANGED <<row, enlisted>>

\* A branch that did nothing is removed, its link with it.
Cleanup(b) ==
  /\ There(b) /\ b \notin enlisted /\ subordinates[b] = {}
  /\ row' = [row EXCEPT ![b] = "gone"]
  /\ subordinates' = [a \in Branch |-> subordinates[a] \ {b}]
  /\ UNCHANGED enlisted

Init ==
  /\ row = [b \in Branch |-> "none"]
  /\ subordinates = [b \in Branch |-> {}]
  /\ enlisted = {}

Next ==
  \/ \E b \in Branch : Begin(b) \/ Enlist(b) \/ Link(b) \/ Cleanup(b)
  \/ \E missed \in SUBSET ToCome : Miss(missed)

Spec == Init /\ [][Next]_<<row, subordinates, enlisted>>
=============================================================================
