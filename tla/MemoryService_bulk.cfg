SPECIFICATION FairSpec
CONSTANTS
  Txs = {t1, t2}
  Clients <- MCClients
  Fetching <- MCFetching
  MaxKeys = 4
  Cap = 2
CHECK_DEADLOCK FALSE
INVARIANTS TypeOK StuckOnlyWhenFull
PROPERTIES OperationsReturn TxsReachPool
