SPECIFICATION FairSpec
CONSTANTS
  HeaderLen = 1
  Sizes = {1}
  Long = 2
  Codecs = {"zstd"}
  Bare = {"Failing", "Refusal", "Ping"}
  MaxFrames = 2
  MaxLost = 0
  Transports = {"quic"}
  Limit = 1
  Chunk = 2
  MaxBacklog = 2
  ResumeBacklog = 0
  MaxCalls = 2
PROPERTIES IteratorEnds
CHECK_DEADLOCK FALSE
