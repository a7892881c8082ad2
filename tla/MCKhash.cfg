CONSTANTS
  a = a
  b = b
  c = c
  d = d
  Keys = {a, b, c, d}
  Hash <- Colliding
  Garbage = Garbage
  AllocMayFail = TRUE
SPECIFICATION Spec
INVARIANTS
  TypeOK
  CountersAreRight
  PairsStayTogether
  RoomWhenInserting
PROPERTIES
  RehashAdvances
  ImplementsContract
