\* Frames of the node, one of them too long and some that do not decompress, cut into
\* reads anywhere, with one call cancelled at any wait and the client closed at any time.
SPECIFICATION FairSpec
CONSTANTS
  HeaderLen = 2
  Sizes = {1}
  Long = 2
  Codecs = {"zstd", "corrupt"}
  Bare = {"Refusal", "Ping"}
  MaxFrames = 3
  MaxLost = 0
  Limit = 1
  Chunk = 2
  MaxCancels = 1
  MaxSent = 1
INVARIANTS TypeOK InStep PingsAnswered
PROPERTIES Delivered CloseEnds
CHECK_DEADLOCK FALSE
