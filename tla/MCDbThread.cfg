\* One database, two queries and a transaction.
CONSTANTS
  d1 = d1  d2 = d2  q1 = q1  q2 = q2  q3 = q3  x1 = x1  x2 = x2  none = none
  Databases = {d1}
  UserQueries = {q1, q2}
  Transactions = {x1}
  NoObject = none
  InputSize = 2
  CallbackSize = 1
  SharedFile = FALSE
SPECIFICATION FairSpec
INVARIANTS TypeOK RefCountExact OneOwner ArraysEmptyAtExit
PROPERTIES ScheduledIsDone StopCompletes
\* the program ends
CHECK_DEADLOCK FALSE
