\* Six keys in a table that grows once; three of them have the same hash, of which
\* one is a string.
CONSTANTS
  Keys <- EvenKeys
  StrKeys <- EvenStrKeys
  StrHash <- EvenStrHash
  Values = {1, 2}
  MaxCapacity = 13
SPECIFICATION Spec
INVARIANTS TableInOrder
PROPERTIES ImplementsMap
\* a removal that does not return stops the only thread there is
CHECK_DEADLOCK FALSE
