SPECIFICATION Spec
CONSTANTS
  conf <- MCFullAlt
  multicastGroups <- MCOneGroup
  ifIndex <- MCIfIndexAlt
  NetIP <- MCNetIPAlt
  ChannelSize = 1
  Id = {1, 2, 3}
  Addr <- MCAddr
  NoAddr = NoAddr
  Dst <- MCOneGroup
  Group = {"g"}
  Inputs <- MCInReport
  Bufs = {b1, b2, b3}
  NoBuf = NoBuf
  BufLen = 1
  NoPkt = NoPkt
  loopback = FALSE
  MaxHops = 0
  writeMayFail = FALSE
  readMayFail = FALSE
  MaxSelects = 1
INVARIANTS NoNilWrite
\* The receivers stop once the context is cancelled.
CHECK_DEADLOCK FALSE
