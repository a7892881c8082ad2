CONSTANTS
  k1 = k1
  k2 = k2
  k3 = k3
  k4 = k4
  k5 = k5
  Keys = {k1, k2, k3, k4, k5}
  Hash <- Crowding
  Frag <- Frags
  DISPLACEMENT_LIMIT = 3
  ReserveSizes = {9}
  Garbage = Garbage
  NoMemoryFor = {"insert"}
SPECIFICATION Spec
INVARIANT KeysAreFound
