SPECIFICATION Spec
CONSTANTS
  d1 = d1
  d2 = d2
  n1 = n1
  n2 = n2
  Nodes = {n1}
  Faulty = {n1}
  Dictionaries = {d1, d2}
  NoDictionary = NoDictionary
  DictionaryId <- MCDictionaryId
  Transport = "quic"
  Configured = NoDictionary
  CacheOn = TRUE
  Keep = 1
  ConnectTimeout = 1
  MaxConnections = 1
  MaxUnread = 2
  MaxRetrains = 0
INVARIANTS NothingDisclosed DecoderAgrees HandsOver
PROPERTIES ImplementsSession
CHECK_DEADLOCK FALSE
