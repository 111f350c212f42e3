SPECIFICATION Spec
CONSTANTS
  conf <- MCFull
  multicastGroups <- MCOneGroup
  ifIndex <- MCIfIndex
  NetIP <- MCNetIP
  ChannelSize = 1
  Id = {1, 2, 3}
  Addr <- MCAddr
  NoAddr = NoAddr
  Dst <- MCOneGroup
  Group = {"g"}
  Inputs <- MCInReport
  Bufs = {b1, b2}
  NoBuf = NoBuf
  BufLen = 1
  NoPkt = NoPkt
  loopback = TRUE
  MaxHops = 1
  writeMayFail = FALSE
  readMayFail = FALSE
  MaxSelects = 0
INVARIANTS OwnNeverRelayed
\* The receivers stop once the context is cancelled.
CHECK_DEADLOCK FALSE
