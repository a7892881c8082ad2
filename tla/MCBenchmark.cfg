\* Three measurement points.  A sequence is twice as long as the first table is
\* large, the ratio config.h has (1000 to 500), and shorter than the last one.
CONSTANTS
  KEY_COUNT = 6
  INTERVAL = 2
  OPS = 4
  RUN_COUNT = 2
  SHIMS = 2
  BLUEPRINTS = 2
  CONFIGS <- AllOrSome
SPECIFICATION FairSpec
INVARIANTS
  TypeOK
  MeasuredWithNKeys
  ReadsAreValid
  ReinsertLeavesOneKey
  EraseExistingHits
  ResultsComplete
PROPERTIES
  NonexistingNotFound
  EachCellOnce
  Termination
