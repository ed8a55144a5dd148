SPECIFICATION SpecAcquainted
CONSTANTS
  provider = provider
  consumer = consumer
  spare = spare
  Dirs = {provider, consumer}
  FirstStores <- Two
  Sessions = {s1, s2}
  MaxRecords = 4
  MaxStoreIds = 2
  Absent = Absent
SYMMETRY Symmetry
INVARIANTS TypeOK LinksFollowed
PROPERTIES OrphansOnly
CHECK_DEADLOCK FALSE
