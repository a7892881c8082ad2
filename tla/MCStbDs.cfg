\* Buckets of 4 slots, as with STBDS_INTERNAL_SMALL_BUCKET: with 8 slots there
\* are two of them, and one tombstone is tolerated.
CONSTANTS
  k1 = k1
  k2 = k2
  k3 = k3
  k4 = k4
  k5 = k5
  k6 = k6
  k7 = k7
  k8 = k8
  Keys = {k1, k2, k3, k4, k5}
  Hash <- Crowding
  BUCKET_LENGTH = 4
  NoKey = NoKey
SPECIFICATION Spec
INVARIANTS
  TypeOK
  IndexFollowsArray
PROPERTIES
  ImplementsContract
