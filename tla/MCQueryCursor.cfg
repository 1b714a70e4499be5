\* A query with rows and two that write, which nothing tells apart; the main thread
\* may write at any time.
CONSTANTS
  q1 = q1  q2 = q2  q3 = q3
  Queries = {q1, q2, q3}
  Selects = {q1}
  MaxRows = 2
  MaxCalls = 4
  MaxExecs = 1
  MaxOpens = 1
SYMMETRY WritesAlike
SPECIFICATION Spec
INVARIANTS CallbackSeesOneExecution StatementsAccounted
PROPERTIES ImplementsCursor
CHECK_DEADLOCK FALSE
