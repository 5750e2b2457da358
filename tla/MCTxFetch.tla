----------------------------- MODULE MCTxFetch -----------------------------
(***************************************************************************)
(* Three connections whose peers announce the same transaction.            *)
(***************************************************************************)
EXTENDS TxFetch

CONSTANTS p1, p2, p3, h1

============================================================================
