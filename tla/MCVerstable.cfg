\* A chain has room for three keys, so that a fourth one, or an eviction from
\* a full one, makes the table rehash, if need be more than once.
CONSTANTS
  k1 = k1
  k2 = k2
  k3 = k3
  k4 = k4
  k5 = k5
  Keys = {k1, k2, k3, k4, k5}
  Hash <- Crowding
  Frag <- Frags
  DISPLACEMENT_LIMIT = 3
  ReserveSizes = {9}
  Garbage = Garbage
  NoMemoryFor = {"resize"}
SPECIFICATION FairSpec
INVARIANTS
  TypeOK
  ChainsIntact
PROPERTIES
  IterationResumes
  ImplementsContract
  CallReturns
