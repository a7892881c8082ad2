\* The table doubles from 4 to 8 and, when a sweep leaves tombstones, beyond.
CONSTANTS
  KEY_COUNT = 6
  INTERVAL = 2
  OPS = 4
  Keys = {0, 1, 2, 3, 4, 5}
  Hash <- Clustered
  Garbage = Garbage
  AllocMayFail = FALSE
SPECIFICATION SpecBlock
PROPERTIES
  ImplementsBlock
  BlockEnds
