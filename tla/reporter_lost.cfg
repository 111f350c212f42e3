SPECIFICATION LFairSpec
CONSTANTS
  conf <- MCClient
  Group = {g1}
  ChannelSize = 1
  Addr = {}
  NoAddr = "noAddr"
  unicastDst = "unicastDst"
  writeMayFail = FALSE
  Slot = {s1}
PROPERTY ViewedReported
CHECK_DEADLOCK FALSE
