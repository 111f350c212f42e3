SPECIFICATION HFairSpec
CONSTANTS
  conf <- MCAll
  Group = {"g1", "g2"}
  ChannelSize = 1
  Addr = {"q1"}
  NoAddr = "noAddr"
  unicastDst = "unicastDst"
  writeMayFail = TRUE
  Batches <- MCBatches
  MaxSubmits = 2
INVARIANTS TypeOK InOrder
PROPERTIES ImplementsOutbox AllSent RunReturns
CHECK_DEADLOCK FALSE
