SPECIFICATION HFairSpec
CONSTANTS
  Accounts <- MCAccounts
  Generator = "g"
  GeneratorBalance = 3
  Txs <- MCTxs
  Blocks <- MCBlocks
  Jobs = {j1}
CHECK_DEADLOCK FALSE
PROPERTIES ExecutionReturns
