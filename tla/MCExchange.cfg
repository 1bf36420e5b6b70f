\* One connection of either SDK over QUIC, to a node that keeps to the protocol, to one
\* that writes any frame at any time, to a relay or to an impostor.
SPECIFICATION MCSpec
CONSTANTS
  d1 = d1
  d2 = d2
  n1 = n1
  n2 = n2
  Nodes = {n1, n2}
  Faulty = {n1}
  Dictionaries = {d1, d2}
  NoDictionary = NoDictionary
  DictionaryId <- MCDictionaryId
  Transport = "quic"
  Sdks = {"typescript", "python"}
  ConnectTimeout = 1
  MaxConnections = 1
  MaxUnread = 2
  MaxFrames = 3
  MaxRetrains = 0
INVARIANTS HandsOver StrandsOnlyRefusals
PROPERTIES ImplementsSession ConnectReturns
CHECK_DEADLOCK FALSE
