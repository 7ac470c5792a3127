SPECIFICATION FairSpec
CONSTANTS
  Nodes = {1, 2}
  Txs = {t1, t2}
  Ordered = TRUE
  Prompt = TRUE
  Lockstep = TRUE
  MaxCrashes = 0
  MaxBundle = 2
  MaxHeight = 2
  MaxFlight = 4
CHECK_DEADLOCK FALSE
INVARIANTS HonestPeersStayGood
PROPERTIES AllPeersReady OnlyNewNodesAreBehind TxsBecomeFinal
