\* A database and two topics over a queue of one, with outages and one process stop.
SPECIFICATION FairSpec
CONSTANTS
  r1 = r1
  r2 = r2
  db = db
  topic = topic
  notify = notify
  absent = absent
  Rows <- SomeRows
  Backends <- FourBackends
  Kind <- SomeKinds
  Complete <- WithSettings
  MaxConnects = 2
  Capacity = 1
  MaxRepeats = 1
  MaxCrashes = 1
INVARIANTS
  CountersAccountForGaps
PROPERTIES
  EverySinkIsAFeed
  DownSinksHoldNobodyUp
