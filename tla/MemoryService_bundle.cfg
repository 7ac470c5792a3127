SPECIFICATION Spec
CONSTANTS
  Txs = {t1, t2, t3}
  Clients <- MCClients
  Fetching <- MCFetching
  MaxKeys = 1
  Cap = 2
CHECK_DEADLOCK FALSE
INVARIANTS BundleIsPowerOf2
