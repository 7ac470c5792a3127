SPECIFICATION Spec
CONSTANTS
  Nodes = {1, 2, 3}
  Txs = {t1, t2}
  Ordered = TRUE
  Prompt = TRUE
  Lockstep = TRUE
  MaxCrashes = 0
  MaxBundle = 2
  MaxHeight = 2
  MaxFlight = 4
CHECK_DEADLOCK FALSE
SYMMETRY TxSymmetry
INVARIANTS TypeOK StorageMatchesTip
PROPERTIES ImplementsLedger
