\* A table starts with one bucket, and the second item in a bucket makes it
\* double, until four items with one code inhibit that.
CONSTANTS
  k1 = k1
  k2 = k2
  k3 = k3
  k4 = k4
  k5 = k5
  k6 = k6
  Keys = {k1, k2, k3, k4, k5, k6}
  Hash <- Clashing
  HASH_INITIAL_NUM_BUCKETS = 1
  HASH_BKT_CAPACITY_THRESH = 2
  NULL = NULL
SPECIFICATION Spec
SYMMETRY Alike
INVARIANTS
  TypeOK
  ListAndBucketsAgree
  ChainsBounded
PROPERTIES
  ImplementsContract
