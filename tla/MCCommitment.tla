---------------------------- MODULE MCCommitment -----------------------------
(* One server, its transactions and its monitor, for Commitment. *)
EXTENDS Commitment

MCRestarts == [JTA |-> 2, JTS |-> 1]
MCReplays == [JTA |-> 2, JTS |-> 0]
=============================================================================
