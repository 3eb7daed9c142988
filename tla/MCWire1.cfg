CONSTANTS
  CodecTables <- MCCodecs
  Sampled = TRUE
  Procedures <- MCProcedures
  PduCodec <- MCPduCodec
  OutcomeCodecs <- MCOutcomeCodecs
  OtherProcs <- MCOtherProcs
  MaxPending = 2
  PacketLengths <- MCPacketLengths
  SkipOctets <- MCSkipOctets
  CountryCodes <- MCCountryCodes
  NetworkCodes <- MCNetworkCodes
  PlmnOctets <- MCPlmnOctets
  Msins <- MCMsins
SPECIFICATION WireSpec
INVARIANT RoundTrip
INVARIANT PeerUnderstood
INVARIANT ReplyReachesItsRequest
INVARIANT ServedIsAnswered
INVARIANT LooksInsidePacket
INVARIANT InnerPacketLength
INVARIANT ImsiIsTheSubscribers
CHECK_DEADLOCK FALSE
