------------------------ MODULE MCCommitCoordinator ------------------------
(* CommitCoordinator on small instances: model values for transactions.    *)
EXTENDS CommitCoordinator, TLC

TxSymmetry == Permutations(Tx)
=============================================================================
