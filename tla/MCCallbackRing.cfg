\* Five queries and a ring with room for two: it is full, goes round, and is empty
\* again. The main thread drops the database at any time.
CONSTANTS
  db = db  main = main
  Producers = {db}
  Consumers = {main}
  N = 3
  MaxPushes = 5
  MaxLap = 2
SPECIFICATION CbSpec
INVARIANTS FreedRingOnlyRead FreedWithLastReference
CHECK_DEADLOCK FALSE
