\* The bucket of 8 slots that is compiled in: the first index has just one.
CONSTANTS
  k1 = k1
  k2 = k2
  k3 = k3
  k4 = k4
  k5 = k5
  k6 = k6
  k7 = k7
  k8 = k8
  Keys = {k1, k2, k3, k4, k5, k6, k7, k8}
  Hash <- Apart
  BUCKET_LENGTH = 8
  NoKey = NoKey
SPECIFICATION Spec
SYMMETRY SameCodes
INVARIANT SlotLeft
CHECK_DEADLOCK FALSE
