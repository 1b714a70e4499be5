\* A key with an odd hash in a table that has grown
CONSTANTS
  Keys <- OddKeys
  StrKeys = {}
  StrHash <- NoStrHash
  Values = {1}
  MaxCapacity = 13
SPECIFICATION Spec
INVARIANTS KeysAreUnique
