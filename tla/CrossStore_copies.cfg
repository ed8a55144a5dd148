SPECIFICATION SpecAcquainted
CONSTANTS
  provider = provider
  consumer = consumer
  spare = spare
  Dirs = {provider, consumer, spare}
  FirstStores <- Two
  Sessions = {s1}
  MaxRecords = 3
  MaxStoreIds = 3
  Absent = Absent
CONSTRAINTS Fresh OneCopy
INVARIANTS LinksFollowed OneWriter
CHECK_DEADLOCK FALSE
