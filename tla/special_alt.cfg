SPECIFICATION Spec
CONSTANTS
  conf <- MCSpecialAlt
  multicastGroups <- MCOneGroup
  ifIndex <- MCIfIndexAlt
  NetIP <- MCNetIPAlt
  ChannelSize = 1
  Id = {1, 2, 3}
  Addr <- MCAddr
  NoAddr = NoAddr
  Dst <- MCOneGroup
  Group = {"g"}
  Inputs <- MCQueries
  Bufs = {b1, b2}
  NoBuf = NoBuf
  BufLen = 1
  NoPkt = NoPkt
  loopback = FALSE
  MaxHops = 0
  writeMayFail = FALSE
  readMayFail = TRUE
  MaxSelects = 2
SYMMETRY BufSymmetry
INVARIANTS TypeOK QueryPending LateBound
\* The receivers stop once the context is cancelled.
CHECK_DEADLOCK FALSE
