\* As many keys as there are strings: the counter overflows after the last one.
CONSTANTS
  KEYS = 8
  LETTERS = 2
  LENGTH = 3
  NoString = NoString
SPECIFICATION KeysSpec
INVARIANTS
  TypeOK
  DistinctKeys
  OverflowsLast
