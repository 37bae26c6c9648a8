------------------------------ MODULE MCTxGraph -------------------------------
(* Three branches that call each other in a row. *)
EXTENDS TxGraph

CONSTANTS b1, b2, b3, r1

MCCaller == (b1 :> NoBranch) @@ (b2 :> b1) @@ (b3 :> b2)

\* Two branches enlist a resource of one name.
MCSharedNames == (b1 :> {r1}) @@ (b2 :> {}) @@ (b3 :> {r1})

=============================================================================
