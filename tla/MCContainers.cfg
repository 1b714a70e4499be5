\* Words of eight bits, of which the code has 32; the blocks are of 1, 2, 4 and 8.
CONSTANTS
  Width = 8
  Chars = {a, b}
  MaxInput = 2
  MaxLength = 4
  Values = {u, v}
  MinCapacity = 2
  MaxCount = 4
SPECIFICATION Spec
INVARIANTS WithinBlock
PROPERTIES CStringIsText ContentsAreKept
