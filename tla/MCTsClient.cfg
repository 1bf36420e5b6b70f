SPECIFICATION FairSpec
CONSTANTS
  HeaderLen = 1
  Sizes = {1}
  Long = 2
  Codecs = {"zstd"}
  Bare = {"Refusal", "Ping"}
  MaxFrames = 4
  MaxLost = 0
  Transports = {"tcp", "quic"}
  Limit = 1
  Chunk = 2
  MaxBacklog = 2
  ResumeBacklog = 0
  MaxCalls = 3
INVARIANTS TypeOK InOrder NobodyWaits BacklogBounded
PROPERTIES Served TcpEnds
CHECK_DEADLOCK FALSE
