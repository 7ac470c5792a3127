SPECIFICATION Spec
CONSTANTS
  Nodes = {1, 2}
  Txs = {t1, t2}
  Ordered = FALSE
  Prompt = TRUE
  Lockstep = FALSE
  MaxCrashes = 0
  MaxBundle = 1
  MaxHeight = 2
  MaxFlight = 1
CHECK_DEADLOCK FALSE
SYMMETRY TxSymmetry
INVARIANTS StorageMatchesTip IdleMemoryIsStored
PROPERTIES ImplementsLedger
