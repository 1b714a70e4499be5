\* The log thread: the main thread owns it, the database thread pushes as well.
CONSTANTS
  main = main  db = db  log = log
  Owner = main
  Others = {db}
  Worker = log
  Capacity = 2
  SemMax = 8
  MaxPushes = 6
SPECIFICATION FairSpec
INVARIANTS TypeOK NoLostWakeup FreedAfterLoop
PROPERTIES HandledUnlessLeft StopCompletes
\* the program ends
CHECK_DEADLOCK FALSE
