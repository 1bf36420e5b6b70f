SPECIFICATION Spec
CONSTANTS
  d1 = d1
  d2 = d2
  n1 = n1
  n2 = n2
  Nodes = {n1, n2}
  Faulty = {}
  Dictionaries = {d1, d2}
  NoDictionary = NoDictionary
  DictionaryId <- MCDictionaryId
  Transport = "tcp"
  Configured = NoDictionary
  CacheOn = TRUE
  Keep = 2
  ConnectTimeout = 1
  MaxConnections = 4
  MaxUnread = 1
  MaxRetrains = 0

PROPERTIES NeverResent
CHECK_DEADLOCK FALSE
