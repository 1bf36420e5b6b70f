SPECIFICATION Spec
CONSTANTS
  HeaderLen = 2
  Sizes = {1}
  Long = 2
  Codecs = {"zstd", "corrupt", "other"}
  Bare = {"Failing", "Ping"}
  MaxFrames = 2
  MaxLost = 2
  Transport = "quic"
  Limit = 1
  Chunk = 3
  FilterLen = 1
  Noise = {0, 1, 2}
  MaxSent = 0
  MaxWireBytes = 9
  MaxCancels = 1
INVARIANTS PendingWasRead
CHECK_DEADLOCK FALSE
