----------------------------- MODULE MCBlockchain -----------------------------
(* Small instances of Blockchain; the storing goroutines are interchangeable. *)
EXTENDS Blockchain, TLC

WriterSymmetry == Permutations(Writers)
=============================================================================
