\* A ring for two packets, so that a registration may find it full.
CONSTANTS
  Main = Main  Log = Log  Db = Db
  Capacity = 2
  MaxLines = 1
  MaxJobs = 1
SPECIFICATION FairSpec
INVARIANTS UsersOutlived LinesFindTheirLog
PROPERTIES DeinitReturns
\* the program ends
CHECK_DEADLOCK FALSE
