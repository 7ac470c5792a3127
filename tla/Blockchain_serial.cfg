SPECIFICATION Spec
CONSTANTS
  SlotsInEpoch = 3
  Wrap = 16
  Writers = {finality, sync}
  Serial = TRUE
  MaxHeight = 7
SYMMETRY WriterSymmetry
INVARIANTS TypeOK EpochMatchesHeight CountersMatchStorage GossipedBlockIsStored
