SPECIFICATION FairSpec
CONSTANTS
  conf <- MCFull
  multicastGroups <- MCOneGroup
  ifIndex <- MCIfIndex
  NetIP <- MCNetIP
  ChannelSize = 1
  Id = {1, 2, 3}
  Addr <- MCAddr
  NoAddr = NoAddr
  Dst <- MCOneGroup
  Group = {"g"}
  Inputs <- MCBothWays
  Bufs = {b1, b2}
  NoBuf = NoBuf
  BufLen = 2
  NoPkt = NoPkt
  loopback = FALSE
  MaxHops = 0
  writeMayFail = TRUE
  readMayFail = FALSE
  MaxSelects = 0
INVARIANTS BufExclusive PayloadIntact
PROPERTIES RelayedEventually ReturnsAfterCancel
\* The receivers stop once the context is cancelled.
CHECK_DEADLOCK FALSE
