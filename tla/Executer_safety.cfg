SPECIFICATION HSpec
CONSTANTS
  Accounts <- MCAccounts
  Generator = "g"
  GeneratorBalance = 3
  Txs <- MCTxs
  Blocks <- MCBlocks
  Jobs = {j1, j2, j3}
CHECK_DEADLOCK FALSE
SYMMETRY JobSymmetry
INVARIANTS TypeOK QuiescentMemoryIsStored PushFindsEveryKey SupplyConserved
PROPERTIES NonceNeverReused NoReplay
