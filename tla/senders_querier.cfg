SPECIFICATION HSpec
CONSTANTS
  conf <- MCClient
  Group = {"g1", "g2"}
  ChannelSize = 2
  Addr = {"q1"}
  NoAddr = "noAddr"
  unicastDst = "unicastDst"
  writeMayFail = FALSE
  Batches <- MCBatches
  MaxSubmits = 1
PROPERTY ToTheQuerier
CHECK_DEADLOCK FALSE
