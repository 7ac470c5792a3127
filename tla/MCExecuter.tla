----------------------------- MODULE MCExecuter -----------------------------
(* Small instances of Executer with its supply.                              *)
EXTENDS ExecuterSupply, TLC

MCAccounts == {"g", "a", "b"}
Tx(kind, caller, to, nonce, amount) ==
  [kind |-> kind, caller |-> caller, to |-> to, nonce |-> nonce, amount |-> amount]

\* An airdrop to a and to b, one more to a, and one with a used-up nonce.
Air(caller, nonce, amount) == Tx("airdrop", caller, caller, nonce, amount)
Drops == {Air("a", 0, 2), Air("b", 0, 2), Air("a", 1, 1), Air("g", 0, 1)}
Moves == {Tx("transfer", "a", "b", 1, 1), Tx("transfer", "a", "b", 1, 2),
          Tx("transfer", "b", "a", 1, 1), Tx("transfer", "a", "a", 1, 1)}
Query == Tx("query", "a", "a", 1, 1)

MCTxs == Drops \cup Moves \cup {Query}
Second == {Air("b", 0, 2), Tx("transfer", "a", "b", 1, 1), Tx("transfer", "a", "a", 1, 1)}
MCBlocks == {<<t>> : t \in MCTxs} \cup {<<Air("a", 0, 2), t>> : t \in Second}

JobSymmetry == Permutations(Jobs)

=============================================================================
