SPECIFICATION FairSpec
CONSTANTS
  Peers = {p1, p2}
  Laggards = {}
  EarlyGossip = FALSE
  Prompt = TRUE
  Transfers = {2}
  FirstHeight = 3
  MaxHeight = 4
  MaxFaults = 1
CHECK_DEADLOCK FALSE
INVARIANTS TypeOK ChainHasNoGap AccountsFollowChain 
  
