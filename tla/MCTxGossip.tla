------------------------------ MODULE MCTxGossip ------------------------------
(* Three nodes, the size of the discovery range, and one transaction. *)
EXTENDS TxGossip
=============================================================================
