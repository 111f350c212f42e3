SPECIFICATION ProxySpec
CONSTANTS
  conf <- MCOut
  multicastGroups <- MCGroups
  ifIndex <- MCIfIndex
  NetIP <- MCNetIP
  ChannelSize = 1
  Id = {1, 2, 8, 9}
  Addr <- MCAddr
  NoAddr = NoAddr
  Dst <- MCDst
  Group = {"g", "none"}
  Inputs <- MCInputs
  Bufs = {b1, b2}
  NoBuf = NoBuf
  BufLen = 1
  NoPkt = NoPkt
  loopback = TRUE
  MaxHops = 2
  writeMayFail = TRUE
  readMayFail = FALSE
  MaxSelects = 0
  unicastDst = "unicastDst"
  Unicast <- MCUnicast
  MaxErrors = 0
  queryTime = 1
  SelfId <- MCSelfId
  MaxPackets = 2
SYMMETRY BufSymmetry
INVARIANTS PoolExclusive EchoesEnd
PROPERTIES UnicastAmidOthers ImplementsForwarding QuietAfterReturn
\* The goroutines stop once the context is cancelled.
CHECK_DEADLOCK FALSE
