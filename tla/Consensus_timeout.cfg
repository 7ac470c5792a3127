SPECIFICATION FairSpec
CONSTANTS
  Nodes = {1, 2}
  Txs = {t1}
  Ordered = FALSE
  Prompt = TRUE
  Lockstep = FALSE
  MaxCrashes = 0
  MaxBundle = 2
  MaxHeight = 2
  MaxFlight = 1
CHECK_DEADLOCK FALSE
PROPERTIES TimeoutRejects
