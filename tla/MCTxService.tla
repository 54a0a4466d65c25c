---------------------------- MODULE MCTxService ----------------------------
(* Instances of TxService for TLC.                                         *)
EXTENDS TxService, TLC

(* Sessions, transactions and requests are interchangeable.                *)
Symmetry == Permutations(Owners) \cup Permutations(Txs) \cup Permutations(Requests)

=============================================================================
