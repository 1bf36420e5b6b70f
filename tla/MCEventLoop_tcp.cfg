SPECIFICATION FairSpec
CONSTANTS
  HeaderLen = 2
  Sizes = {1}
  Long = 2
  Codecs = {"zstd", "corrupt", "other"}
  Bare = {"Ping"}
  MaxFrames = 3
  MaxLost = 1
  Transport = "tcp"
  Limit = 1
  Chunk = 3
  FilterLen = 1
  Noise = {0, 1, 2}
  MaxSent = 1
  MaxWireBytes = 9
  MaxCancels = 1
INVARIANTS TypeOK Boundary GapsExact WireBytesExact BufferBounded PingsAnswered
PROPERTIES Delivered
CHECK_DEADLOCK FALSE
