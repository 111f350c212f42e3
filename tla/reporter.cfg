SPECIFICATION LFairSpec
CONSTANTS
  conf <- MCClient
  Group = {g1}
  ChannelSize = 1
  Addr = {"q1"}
  NoAddr = "noAddr"
  unicastDst = "unicastDst"
  writeMayFail = FALSE
  Slot = {s1, s2}
INVARIANTS MTypeOK AtMostOneReporter NoneForgotten
PROPERTIES OnlyReported LeftEventually EndsOrStuck
\* The application ends once the context is cancelled.
CHECK_DEADLOCK FALSE
