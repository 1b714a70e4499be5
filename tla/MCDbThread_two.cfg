\* Two databases on the same file: two transactions and a query.
CONSTANTS
  d1 = d1  d2 = d2  q1 = q1  q2 = q2  q3 = q3  x1 = x1  x2 = x2  none = none
  Databases = {d1, d2}
  UserQueries = {q1}
  Transactions = {x1, x2}
  NoObject = none
  InputSize = 2
  CallbackSize = 1
  SharedFile = TRUE
SPECIFICATION Spec
INVARIANTS TransactionBracket
\* the program ends
CHECK_DEADLOCK FALSE
