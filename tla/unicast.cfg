SPECIFICATION FairSpec
CONSTANTS
  conf <- MCSpecialAlt
  Packet <- MCPacket
  Group = {"g1", "g2"}
  unicastDst = "unicastDst"
  Unicast <- MCUnicast
  Multicast <- MCMulticast
  Bufs = {b1, b2}
  NoBuf = NoBuf
  NoPkt = NoPkt
  BufLen = 1
  MaxErrors = 1
  writeMayFail = TRUE
INVARIANTS TypeOK SendsWhatItRead TranslatesAll
PROPERTIES SentEventually EndsAfterCancel
\* The goroutine stops once the context is cancelled.
CHECK_DEADLOCK FALSE
