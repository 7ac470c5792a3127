----------------------------- MODULE MCConsensus -----------------------------
(* Small instances of Consensus; transactions are interchangeable.            *)
EXTENDS Consensus, TLC

TxSymmetry == Permutations(Txs)
=============================================================================
