------------------------------ MODULE StbDsProofs ------------------------------
(***************************************************************************)
(* Theorems about StbDs, for every set of keys, every hash function and    *)
(* both lengths of a bucket.                                               *)
(***************************************************************************)
EXTENDS StbDs, Arithmetic

-----------------------------------------------------------------------------
(* The inductive invariant.                                                *)

SlotType == [hash : Nat, index : {-1, -2} \cup Nat]

\* A search for the hash of slot s comes to it before it comes to an empty one.
Reached(sl, n, s) ==
  \E p \in 0 .. n - 1 :
    /\ Probe(n, sl[s].hash, p) = s
    /\ \A q \in 0 .. p - 1 : Probe(n, sl[s].hash, q) \notin Empties(sl)

\* What holds of the n slots of an index, whatever array it is the index of.
SlotsAreRight(sl, n) ==
  /\ sl \in [0 .. n - 1 -> SlotType]
  /\ \A s \in 0 .. n - 1 : /\ sl[s].hash = 0 <=> sl[s].index = -1
                           /\ sl[s].hash = 1 <=> sl[s].index = -2
  /\ \A s, u \in 0 .. n - 1 : InUse(sl[s]) /\ sl[s].index = sl[u].index => s = u
  /\ \A s \in 0 .. n - 1 : InUse(sl[s]) => Reached(sl, n, s)

\* The slots in use point at all places of the array, with the hash of its key.
PointsAt(sl, n, arr) ==
  /\ \A s \in 0 .. n - 1 :
       InUse(sl[s]) => /\ sl[s].index < Len(arr)
                       /\ sl[s].hash = hash(arr[sl[s].index + 1])
  /\ \A i \in 1 .. Len(arr) : \E s \in 0 .. n - 1 : sl[s].index = i - 1

\* The index of an array.
IndexOf(ix, arr) ==
  /\ DOMAIN ix = {"slot_count", "used_count", "tombstone_count", "slot"}
  /\ ix.slot_count \in Nat /\ IndexSize(ix.slot_count)
  /\ SlotsAreRight(ix.slot, ix.slot_count)
  /\ PointsAt(ix.slot, ix.slot_count, arr)
  /\ ix.used_count = Len(arr)
  /\ ix.tombstone_count = Cardinality(Deleteds(ix))

Distinct(arr) == \A i, j \in 1 .. Len(arr) : arr[i] = arr[j] => i = j

WithinThresholds(ix) ==
  /\ ix.used_count <= used_count_threshold(ix.slot_count)
  /\ ix.tombstone_count <= tombstone_count_threshold(ix.slot_count)

Indexed == \/ index = NoIndex /\ array = <<>>
           \/ IndexOf(index, array) /\ WithinThresholds(index)

Control ==
  /\ made \in BOOLEAN /\ allocated \in BOOLEAN
  /\ ~allocated => array = <<>> /\ index = NoIndex
  /\ ~made => array = <<>> /\ index = NoIndex /\ itr = -1 /\ pc = "idle"
  /\ itr \in -1 .. Len(array)
  /\ pc \in {"idle", "find", "insert", "erase"}
  /\ pc # "idle" => itr = -1
  /\ key \in Keys \cup {NoKey} /\ (key = NoKey <=> pc = "idle")

IInv == Control /\ array \in Seq(Keys) /\ Distinct(array) /\ Indexed

-----------------------------------------------------------------------------
(* The probe sequence.                                                     *)

\* The codes of an empty and of a deleted slot are not those of a key.
LEMMA HashIs ==
  ASSUME NEW k \in Keys
  PROVE  hash(k) \in Nat /\ hash(k) >= 2
  BY StbDsAssumption DEF hash

\* What IndexSize says without a division.
LEMMA SizeIs ==
  ASSUME NEW n \in Nat
  PROVE  IndexSize(n) <=>
           \E m \in Nat \ {0} : n = BUCKET_LENGTH * m /\ PowerOfTwo(m)
<1>1. BUCKET_LENGTH \in Nat \ {0}
  BY StbDsAssumption
<1>2. ASSUME NEW m \in Nat \ {0}, n = BUCKET_LENGTH * m
      PROVE  n % BUCKET_LENGTH = 0 /\ n \div BUCKET_LENGTH = m
  <2>1. CASE BUCKET_LENGTH = 4
    BY <1>2, <2>1
  <2>2. CASE BUCKET_LENGTH = 8
    BY <1>2, <2>2
  <2> QED  BY <2>1, <2>2, StbDsAssumption
<1>3. ASSUME IndexSize(n)
      PROVE  \E m \in Nat \ {0} : n = BUCKET_LENGTH * m /\ PowerOfTwo(m)
  <2>1. n \div BUCKET_LENGTH \in Nat /\ n = BUCKET_LENGTH * (n \div BUCKET_LENGTH)
    <3>1. CASE BUCKET_LENGTH = 4
      BY <1>3, <3>1 DEF IndexSize
    <3>2. CASE BUCKET_LENGTH = 8
      BY <1>3, <3>2 DEF IndexSize
    <3> QED  BY <3>1, <3>2, StbDsAssumption
  <2>2. PowerOfTwo(n \div BUCKET_LENGTH) /\ n \div BUCKET_LENGTH # 0
    BY <1>3 DEF IndexSize, PowerOfTwo
  <2> QED  BY <2>1, <2>2
<1> QED  BY <1>2, <1>3 DEF IndexSize

\* The p-th probe, with its turn and its place in the bucket told apart.
LEMMA ProbeIs ==
  ASSUME NEW m \in Nat \ {0}, NEW n \in Nat, n = BUCKET_LENGTH * m,
         NEW h \in Nat, NEW t \in Nat, NEW u \in 0 .. BUCKET_LENGTH - 1
  PROVE  Probe(n, h, BUCKET_LENGTH * t + u) =
           BUCKET_LENGTH * ((h \div BUCKET_LENGTH + Triangle(t)) % m)
             + ((h + u) % BUCKET_LENGTH)
<1> DEFINE B == BUCKET_LENGTH
           q == h \div B
           r == h % B
           T == Triangle(t)
           b == (q + T) % m
           pos == (h + B * T) % n
<1>1. B \in Nat \ {0} /\ n \in Nat \ {0}
  BY StbDsAssumption
<1>2. q \in Nat /\ r \in 0 .. B - 1 /\ h = B * q + r
  BY <1>1, DivMod, Zenon
<1>3. T \in Nat
  BY TriangleTwice
<1>4. PICK c \in Nat : b \in 0 .. m - 1 /\ q + T = m * c + b
  <2>1. q + T \in Nat
    BY <1>2, <1>3
  <2> QED  BY <2>1, DivMod
<1>5. (B * t + u) \div B = t
  BY StbDsAssumption
<1> HIDE DEF q, r, T, b
<1>6. pos = B * b + r
  <2>1. h + B * T = n * c + (B * b + r)
    <3>1. CASE B = 4
      <4>1. m * c \in Nat /\ n * c = 4 * (m * c)
        BY <3>1, <1>4, SMT
      <4> QED  BY <1>2, <1>3, <1>4, <3>1, <4>1
    <3>2. CASE B = 8
      <4>1. m * c \in Nat /\ n * c = 8 * (m * c)
        BY <3>2, <1>4, SMT
      <4> QED  BY <1>2, <1>3, <1>4, <3>2, <4>1
    <3> QED  BY <3>1, <3>2, StbDsAssumption
  <2>2. B * b + r \in 0 .. n - 1
    <3>1. CASE B = 4
      BY <1>2, <1>4, <3>1
    <3>2. CASE B = 8
      BY <1>2, <1>4, <3>2
    <3> QED  BY <3>1, <3>2, StbDsAssumption
  <2>3. PICK d \in Nat : pos \in 0 .. n - 1 /\ h + B * T = n * d + pos
    <3>1. h + B * T \in Nat
      BY <1>1, <1>3
    <3> QED  BY <1>1, <3>1, DivMod
  <2> HIDE DEF pos, B
  <2> DEFINE x == B * b + r
  <2>4. n * c + x = n * d + pos /\ x \in 0 .. n - 1
    BY <2>1, <2>2, <2>3
  <2> HIDE DEF x
  <2>5. x = pos
    BY <2>3, <2>4, DivModUnique
  <2> QED  BY <2>5 DEF x
<1>7. (pos \div B) * B = B * b /\ (pos + (B * t + u)) % B = (h + u) % B
  <2>1. CASE B = 4
    BY <1>2, <1>4, <1>6, <2>1
  <2>2. CASE B = 8
    BY <1>2, <1>4, <1>6, <2>2
  <2> QED  BY <2>1, <2>2, StbDsAssumption
<1>8. Probe(n, h, B * t + u) = B * b + ((h + u) % B)
  <2>1. pos = (h + B * Triangle(t)) % n
    BY DEF T
  <2> HIDE DEF pos
  <2>2. Probe(n, h, B * t + u) = (pos \div B) * B + ((pos + (B * t + u)) % B)
    BY <1>5, <2>1, Zenon DEF Probe
  <2> QED  BY <1>7, <2>2
<1> QED  BY <1>8, Zenon DEF q, T, b

\* A search stays within the index.
LEMMA ProbeInIndex ==
  ASSUME NEW n \in Nat, IndexSize(n), NEW h \in Nat, NEW p \in Nat
  PROVE  n \in Nat \ {0} /\ Probe(n, h, p) \in 0 .. n - 1
<1> DEFINE B == BUCKET_LENGTH
<1>1. PICK m \in Nat \ {0} : n = B * m
  BY SizeIs
<1>2. B \in Nat \ {0}
  BY StbDsAssumption
<1>3. PICK t \in Nat, u \in 0 .. B - 1 : p = B * t + u
  BY <1>2, DivMod
<1> DEFINE b == (h \div B + Triangle(t)) % m
           o == (h + u) % B
<1>4. Probe(n, h, p) = B * b + o
  BY <1>1, <1>3, ProbeIs
<1>5. b \in 0 .. m - 1
  <2>1. h \div B \in Nat /\ Triangle(t) \in Nat
    BY <1>2, DivMod, TriangleTwice, Zenon
  <2> DEFINE x == h \div B + Triangle(t)
  <2>2. x \in Nat
    BY <2>1
  <2> HIDE DEF x
  <2>3. x % m \in 0 .. m - 1
    BY <2>2, DivMod
  <2> QED  BY <2>3 DEF x
<1>6. o \in 0 .. B - 1
  BY <1>2, DivMod
<1> HIDE DEF b, o
<1>7. CASE B = 4
  BY <1>1, <1>4, <1>5, <1>6, <1>7
<1>8. CASE B = 8
  BY <1>1, <1>4, <1>5, <1>6, <1>8
<1> QED  BY <1>7, <1>8, StbDsAssumption

\* A search for any hash comes to every slot.
LEMMA ProbeCovers ==
  ASSUME NEW n \in Nat, IndexSize(n), NEW h \in Nat, NEW s \in 0 .. n - 1
  PROVE  \E p \in 0 .. n - 1 : Probe(n, h, p) = s
<1> DEFINE B == BUCKET_LENGTH
<1>1. PICK m \in Nat \ {0} : n = B * m /\ PowerOfTwo(m)
  BY SizeIs
<1>2. B \in Nat \ {0}
  BY StbDsAssumption
<1>3. PICK b \in Nat, o \in 0 .. B - 1 : s = B * b + o
  <2>1. s \in Nat
    OBVIOUS
  <2> QED  BY <1>2, <2>1, DivMod
<1>4. b \in 0 .. m - 1
  <2>1. CASE B = 4
    BY <1>1, <1>3, <2>1
  <2>2. CASE B = 8
    BY <1>1, <1>3, <2>2
  <2> QED  BY <2>1, <2>2, StbDsAssumption
<1>5. h \div B \in Nat
  BY <1>2, DivMod
<1>6. PICK t \in 0 .. m - 1 : (h \div B + Triangle(t)) % m = b
  <2> DEFINE x == h \div B
  <2>1. x \in Nat
    BY <1>5
  <2> HIDE DEF x
  <2>2. \E t \in 0 .. m - 1 : (x + Triangle(t)) % m = b
    BY <1>1, <1>4, <2>1, TriangleCovers
  <2> QED  BY <2>2 DEF x
<1>7. PICK u \in 0 .. B - 1 : (h + u) % B = o
  <2>1. CASE B = 4
    <3> DEFINE v == (o + 4 - (h % 4)) % 4
    <3>1. v \in 0 .. 3 /\ (h + v) % 4 = o
      BY <2>1
    <3> QED  BY <2>1, <3>1
  <2>2. CASE B = 8
    <3> DEFINE v == (o + 8 - (h % 8)) % 8
    <3>1. v \in 0 .. 7 /\ (h + v) % 8 = o
      BY <2>2
    <3> QED  BY <2>2, <3>1
  <2> QED  BY <2>1, <2>2, StbDsAssumption
<1>8. Probe(n, h, B * t + u) = B * b + o
  <2>1. Probe(n, h, B * t + u) =
          B * ((h \div B + Triangle(t)) % m) + ((h + u) % B)
    BY <1>1, ProbeIs
  <2> QED  BY <1>6, <1>7, <2>1
<1>9. B * t + u \in 0 .. n - 1
  <2>1. CASE B = 4
    BY <1>1, <2>1
  <2>2. CASE B = 8
    BY <1>1, <2>2
  <2> QED  BY <2>1, <2>2, StbDsAssumption
<1> QED  BY <1>3, <1>8, <1>9, Zenon

LEMMA MinIs ==
  ASSUME NEW S \in SUBSET Nat, S # {}
  PROVE  Min(S) \in S /\ \A x \in S : Min(S) <= x
<1>1. \E x \in S : \A y \in S : x <= y
  BY LeastElement
<1> QED  BY <1>1 DEF Min

\* FirstIn is the slot of Goal that a search comes across before all others.
LEMMA FirstInIs ==
  ASSUME NEW n \in Nat, IndexSize(n), NEW h \in Nat,
         NEW Goal \in SUBSET (0 .. n - 1), Goal # {}
  PROVE  /\ FirstIn(Goal, n, h) \in Goal
         /\ \E p \in 0 .. n - 1 : /\ Probe(n, h, p) = FirstIn(Goal, n, h)
                                  /\ \A q \in 0 .. p - 1 : Probe(n, h, q) \notin Goal
<1> DEFINE S == {p \in 0 .. n - 1 : Probe(n, h, p) \in Goal}
<1>1. S \in SUBSET Nat /\ S # {}
  <2>1. PICK s \in 0 .. n - 1 : s \in Goal
    OBVIOUS
  <2>2. \E p \in 0 .. n - 1 : Probe(n, h, p) = s
    BY ProbeCovers
  <2> QED  BY <2>1, <2>2
<1>2. Min(S) \in S /\ \A x \in S : Min(S) <= x
  <2> HIDE DEF S
  <2> QED  BY <1>1, MinIs
<1>3. FirstIn(Goal, n, h) = Probe(n, h, Min(S))
  BY DEF FirstIn
<1>4. \A q \in 0 .. Min(S) - 1 : q \notin S /\ q \in 0 .. n - 1
  BY <1>2
<1> QED  BY <1>2, <1>3, <1>4

-----------------------------------------------------------------------------
(* Lookups.                                                                *)

\* What a search stops at is what it comes to before any empty slot.
LEMMA FoundIs ==
  ASSUME NEW arr, NEW ix, NEW k \in Keys,
         ix.slot_count \in Nat, IndexSize(ix.slot_count),
         SlotsAreRight(ix.slot, ix.slot_count),
         \A s, u \in Matching(arr, ix, k) : s = u
  PROVE  ix # NoIndex /\ find_slot(arr, ix, k) = Matching(arr, ix, k)
<1> DEFINE n == ix.slot_count
           E == Empties(ix.slot)
           M == Matching(arr, ix, k)
<1>1. n > 0 /\ ix # NoIndex
  <2>1. \E m \in Nat \ {0} : n = BUCKET_LENGTH * m
    BY SizeIs
  <2>2. n > 0
    <3>1. CASE BUCKET_LENGTH = 4
      BY <2>1, <3>1
    <3>2. CASE BUCKET_LENGTH = 8
      BY <2>1, <3>2
    <3> QED  BY <3>1, <3>2, StbDsAssumption
  <2> QED  BY <2>2 DEF NoIndex
<1>2. find_slot(arr, ix, k) = M \cap {FirstIn(E \cup M, n, hash(k))}
  BY <1>1 DEF find_slot
<1> SUFFICES ASSUME NEW s \in M
             PROVE  FirstIn(E \cup M, n, hash(k)) = s
  <2> HIDE DEF E, M, n
  <2> QED  BY <1>1, <1>2 DEF M
<1>3. M = {s}
  OBVIOUS
<1>4. DOMAIN ix.slot = 0 .. n - 1
  BY DEF SlotsAreRight
<1>5. s \in 0 .. n - 1 /\ InUse(ix.slot[s]) /\ ix.slot[s].hash = hash(k)
  BY <1>4 DEF Matching, InUses
<1>6. PICK p \in 0 .. n - 1 :
        /\ Probe(n, hash(k), p) = s
        /\ \A q \in 0 .. p - 1 : Probe(n, hash(k), q) \notin E
  <2>1. Reached(ix.slot, n, s)
    BY <1>5 DEF SlotsAreRight
  <2> QED  BY <1>5, <2>1 DEF Reached
<1>7. E \cup M \in SUBSET (0 .. n - 1) /\ E \cup M # {}
  BY <1>3, <1>4, <1>5 DEF Empties
<1> HIDE DEF n, E, M
<1>8. hash(k) \in Nat
  BY HashIs
<1>9. PICK f \in 0 .. n - 1 :
        /\ Probe(n, hash(k), f) = FirstIn(E \cup M, n, hash(k))
        /\ Probe(n, hash(k), f) \in E \cup M
        /\ \A q \in 0 .. f - 1 : Probe(n, hash(k), q) \notin E \cup M
  <2>1. n \in Nat /\ IndexSize(n)
    BY DEF n
  <2> QED  BY <1>7, <1>8, <2>1, FirstInIs
<1>10. f <= p
  BY <1>3, <1>6, <1>9
<1>11. Probe(n, hash(k), f) = s
  <2>1. f # p => Probe(n, hash(k), f) \notin E
    BY <1>6, <1>10
  <2> QED  BY <1>3, <1>6, <1>9, <2>1
<1> QED  BY <1>9, <1>11

\* With one slot per key, that is the slot of the key.
LEMMA MatchingIs ==
  ASSUME NEW arr \in Seq(Keys), Distinct(arr), NEW ix, IndexOf(ix, arr),
         NEW k \in Keys
  PROVE  /\ \A s, u \in Matching(arr, ix, k) : s = u
         /\ \A s \in Matching(arr, ix, k) :
              /\ s \in 0 .. ix.slot_count - 1
              /\ ix.slot[s].index \in 0 .. Len(arr) - 1
              /\ arr[ix.slot[s].index + 1] = k
         /\ Matching(arr, ix, k) # {} <=> \E i \in 1 .. Len(arr) : arr[i] = k
<1> DEFINE n == ix.slot_count
<1>1. DOMAIN ix.slot = 0 .. n - 1
  BY DEF IndexOf, SlotsAreRight
<1>2. ASSUME NEW s \in Matching(arr, ix, k)
      PROVE  /\ s \in 0 .. n - 1 /\ InUse(ix.slot[s])
             /\ ix.slot[s].index \in 0 .. Len(arr) - 1
             /\ arr[ix.slot[s].index + 1] = k
  <2>1. s \in 0 .. n - 1 /\ InUse(ix.slot[s]) /\ ix.slot[s].index < Len(arr)
        /\ arr[ix.slot[s].index + 1] = k
    BY <1>1 DEF Matching, InUses
  <2>2. ix.slot[s] \in SlotType
    BY <2>1 DEF IndexOf, SlotsAreRight
  <2>3. ix.slot[s].index \in 0 .. Len(arr) - 1
    BY <2>1, <2>2 DEF SlotType, InUse
  <2> QED  BY <2>1, <2>3
<1>3. ASSUME NEW s \in Matching(arr, ix, k), NEW u \in Matching(arr, ix, k)
      PROVE  s = u
  <2> DEFINE i == ix.slot[s].index
             l == ix.slot[u].index
  <2>1. i \in 0 .. Len(arr) - 1 /\ l \in 0 .. Len(arr) - 1
        /\ arr[i + 1] = k /\ arr[l + 1] = k
    BY <1>2
  <2>2. i = l
    <3> HIDE DEF i, l
    <3>1. i + 1 \in 1 .. Len(arr) /\ l + 1 \in 1 .. Len(arr)
      BY <2>1
    <3>2. i + 1 = l + 1
      BY <2>1, <3>1 DEF Distinct
    <3> QED  BY <2>1, <3>2
  <2> QED  BY <1>2, <2>2 DEF IndexOf, SlotsAreRight
<1>4. ASSUME NEW i \in 1 .. Len(arr), arr[i] = k
      PROVE  Matching(arr, ix, k) # {}
  <2>1. PICK s \in 0 .. n - 1 : ix.slot[s].index = i - 1
    BY DEF IndexOf, PointsAt
  <2>2. InUse(ix.slot[s]) /\ ix.slot[s].index + 1 = i
    BY <2>1 DEF InUse
  <2>3. ix.slot[s].hash = hash(k) /\ ix.slot[s].index < Len(arr)
    BY <1>4, <2>2 DEF IndexOf, PointsAt
  <2>4. s \in Matching(arr, ix, k)
    BY <1>1, <1>4, <2>2, <2>3 DEF Matching, InUses
  <2> QED  BY <2>4
<1>5. Matching(arr, ix, k) # {} => \E i \in 1 .. Len(arr) : arr[i] = k
  <2> SUFFICES ASSUME NEW s \in Matching(arr, ix, k)
               PROVE  \E i \in 1 .. Len(arr) : arr[i] = k
    OBVIOUS
  <2>1. ix.slot[s].index + 1 \in 1 .. Len(arr)
    BY <1>2
  <2> QED  BY <1>2, <2>1
<1> QED  BY <1>2, <1>3, <1>4, <1>5

\* No empty slot comes before the slot of a key that is there.
LEMMA FindIs ==
  ASSUME NEW arr \in Seq(Keys), Distinct(arr), NEW ix, IndexOf(ix, arr),
         NEW k \in Keys
  PROVE  ix # NoIndex /\ find_slot(arr, ix, k) = Matching(arr, ix, k)
  BY MatchingIs, FoundIs DEF IndexOf

-----------------------------------------------------------------------------
(* A new index.                                                            *)

\* The recursive function of make_hash_index exists.
LEMMA CopiedExists ==
  ASSUME NEW n, NEW ot, ot.slot_count \in Nat
  PROVE  \E f : /\ f[0] = [s \in 0 .. n - 1 |-> EMPTY]
                /\ \A i \in 1 .. ot.slot_count :
                     f[i] = Copy(f[i - 1], n, ot.slot[i - 1])
                /\ make_hash_index(n, ot) =
                     [slot_count |-> n, used_count |-> ot.used_count,
                      tombstone_count |-> 0, slot |-> f[ot.slot_count]]
<1> DEFINE Step(f, i) == IF i = 0 THEN [s \in 0 .. n - 1 |-> EMPTY]
                         ELSE Copy(f[i - 1], n, ot.slot[i - 1])
           Fills(f, c) == f = [i \in 0 .. c |-> Step(f, i)]
           Exists == {c \in Nat : \E f : Fills(f, c)}
           copied == CHOOSE f : Fills(f, ot.slot_count)
<1>1. make_hash_index(n, ot) =
        [slot_count |-> n, used_count |-> ot.used_count,
         tombstone_count |-> 0, slot |-> copied[ot.slot_count]]
  BY DEF make_hash_index, TombstonesCopied
<1>2. ot.slot_count \in Exists
  <2>1. 0 \in Exists
    <3>1. Fills([i \in 0 .. 0 |-> [s \in 0 .. n - 1 |-> EMPTY]], 0)
      OBVIOUS
    <3> QED  BY <3>1
  <2>2. ASSUME NEW c \in Nat, c \in Exists
        PROVE  c + 1 \in Exists
    <3>1. PICK f : Fills(f, c)
      BY <2>2
    <3> DEFINE g == [i \in 0 .. c + 1 |-> IF i = c + 1 THEN Step(f, i) ELSE f[i]]
    <3>2. \A i \in 0 .. c + 1 : Step(g, i) = Step(f, i)
      <4> SUFFICES ASSUME NEW i \in 1 .. c + 1
                   PROVE  g[i - 1] = f[i - 1]
        OBVIOUS
      <4> QED  OBVIOUS
    <3>3. \A i \in 0 .. c : f[i] = Step(f, i)
      BY <3>1
    <3>4. \A i \in 0 .. c + 1 : g[i] = Step(g, i)
      <4> SUFFICES ASSUME NEW i \in 0 .. c + 1
                   PROVE  g[i] = Step(g, i)
        OBVIOUS
      <4>1. g[i] = Step(f, i)
        <5> HIDE DEF Step
        <5> QED  BY <3>3
      <4> HIDE DEF g, Step
      <4> QED  BY <3>2, <4>1
    <3>5. Fills(g, c + 1)
      <4>1. g = [i \in 0 .. c + 1 |-> g[i]]
        OBVIOUS
      <4> HIDE DEF g, Step
      <4> QED  BY <3>4, <4>1
    <3> HIDE DEF Fills, g
    <3> QED  BY <3>5
  <2> HIDE DEF Exists
  <2> QED  BY <2>1, <2>2, NatSetInduction
<1>3. Fills(copied, ot.slot_count)
  <2> HIDE DEF Fills
  <2> QED  BY <1>2
<1>4. \A i \in 0 .. ot.slot_count : copied[i] = Step(copied, i)
  <2> HIDE DEF copied
  <2> QED  BY <1>3
<1>5. /\ copied[0] = [s \in 0 .. n - 1 |-> EMPTY]
      /\ \A i \in 1 .. ot.slot_count :
           copied[i] = Copy(copied[i - 1], n, ot.slot[i - 1])
  <2>1. copied[0] = Step(copied, 0)
    <3> HIDE DEF copied, Step
    <3> QED  BY <1>4
  <2>2. ASSUME NEW i \in 1 .. ot.slot_count
        PROVE  copied[i] = Step(copied, i) /\ i # 0
    <3> HIDE DEF copied, Step
    <3> QED  BY <1>4
  <2> HIDE DEF copied
  <2> QED  BY <2>1, <2>2
<1> HIDE DEF copied
<1> QED  BY <1>1, <1>5

\* What may be copied from the first c slots of old: size entries at most.
Copyable(old, c, size) ==
  /\ \A t \in 0 .. c - 1 :
       InUse(old[t]) => /\ old[t] \in SlotType
                        /\ old[t].hash \notin {0, 1} /\ old[t].index < size
  /\ \A t, u \in 0 .. c - 1 :
       InUse(old[t]) /\ InUse(old[u]) /\ old[t].index = old[u].index => t = u

CopiedFrom(sl, n, old, c) ==
  /\ SlotsAreRight(sl, n)
  /\ \A s \in 0 .. n - 1 :
       \/ sl[s] = EMPTY
       \/ InUse(sl[s]) /\ \E t \in 0 .. c - 1 : sl[s] = old[t]
  /\ \A t \in 0 .. c - 1 : InUse(old[t]) => \E s \in 0 .. n - 1 : sl[s] = old[t]

LEMMA Places ==
  ASSUME NEW m \in Nat
  PROVE  IsFiniteSet(0 .. m - 1) /\ Cardinality(0 .. m - 1) = m
<1>1. m - 1 \in Int /\ 0 \in Int
  OBVIOUS
<1> QED  BY <1>1, FS_Interval

\* An index with fewer keys than slots and no tombstones has an empty slot.
LEMMA RoomToCopy ==
  ASSUME NEW n \in Nat, NEW size \in Nat, size < n, NEW sl, SlotsAreRight(sl, n),
         \A s \in 0 .. n - 1 : sl[s] = EMPTY \/ (InUse(sl[s]) /\ sl[s].index < size)
  PROVE  Empties(sl) # {}
<1> SUFFICES ASSUME Empties(sl) = {}
             PROVE  FALSE
  OBVIOUS
<1> DEFINE S == 0 .. n - 1
           T == 0 .. size - 1
           f == [s \in S |-> sl[s].index]
<1>1. \A s \in S : InUse(sl[s]) /\ sl[s].index < size
  BY DEF Empties, EMPTY, SlotsAreRight
<1>2. f \in [S -> T]
  BY <1>1 DEF SlotsAreRight, SlotType, InUse
<1>3. \A s, u \in S : f[s] = f[u] => s = u
  BY <1>1 DEF SlotsAreRight
<1>4. /\ IsFiniteSet(S) /\ Cardinality(S) = n
      /\ IsFiniteSet(T) /\ Cardinality(T) = size
  BY Places
<1> HIDE DEF f, S, T
<1>5. \E x, y \in S : x # y /\ f[x] = f[y]
  BY <1>2, <1>4, FS_PigeonHole
<1> QED  BY <1>3, <1>5

\* An entry goes to the first empty slot on the way of its hash.
LEMMA Entered ==
  ASSUME NEW n \in Nat, IndexSize(n), NEW sl, SlotsAreRight(sl, n),
         NEW e \in SlotType, InUse(e), e.hash \notin {0, 1},
         \A s \in 0 .. n - 1 : sl[s].index # e.index,
         NEW Goal \in SUBSET (0 .. n - 1), Empties(sl) \subseteq Goal, Goal # {},
         \A s \in Goal : ~InUse(sl[s])
  PROVE  LET f == FirstIn(Goal, n, e.hash)
         IN  f \in Goal /\ SlotsAreRight([sl EXCEPT ![f] = e], n)
<1> DEFINE f == FirstIn(Goal, n, e.hash)
           new == [sl EXCEPT ![f] = e]
<1>1. e.hash \in Nat /\ e.index \in Nat
  BY DEF SlotType, InUse
<1>2. PICK p \in 0 .. n - 1 : /\ Probe(n, e.hash, p) = f /\ f \in Goal
                              /\ \A q \in 0 .. p - 1 : Probe(n, e.hash, q) \notin Goal
  BY <1>1, FirstInIs
<1> HIDE DEF f
<1>3. f \in 0 .. n - 1 /\ sl \in [0 .. n - 1 -> SlotType]
  BY <1>2 DEF SlotsAreRight
<1>4. new \in [0 .. n - 1 -> SlotType] /\ new[f] = e
      /\ \A s \in 0 .. n - 1 : s # f => new[s] = sl[s]
  BY <1>3
<1> HIDE DEF new
<1>5. Empties(new) \subseteq Empties(sl)
  BY <1>3, <1>4 DEF Empties, EMPTY
<1>6. \A s \in 0 .. n - 1 : InUse(new[s]) => Reached(new, n, s)
  <2> SUFFICES ASSUME NEW s \in 0 .. n - 1, InUse(new[s])
               PROVE  Reached(new, n, s)
    OBVIOUS
  <2>1. CASE s = f
    <3>1. \A q \in 0 .. p - 1 : Probe(n, e.hash, q) \notin Empties(new)
      BY <1>2, <1>5
    <3> QED  BY <1>2, <1>4, <2>1, <3>1 DEF Reached
  <2>2. CASE s # f
    <3>1. new[s] = sl[s] /\ Reached(sl, n, s)
      BY <1>4, <2>2 DEF SlotsAreRight
    <3> QED  BY <1>5, <3>1 DEF Reached
  <2> QED  BY <2>1, <2>2
<1>7. \A s \in 0 .. n - 1 : /\ new[s].hash = 0 <=> new[s].index = -1
                            /\ new[s].hash = 1 <=> new[s].index = -2
  <2> SUFFICES ASSUME NEW s \in 0 .. n - 1
               PROVE  /\ new[s].hash = 0 <=> new[s].index = -1
                      /\ new[s].hash = 1 <=> new[s].index = -2
    OBVIOUS
  <2>1. CASE s = f
    BY <1>1, <1>4, <2>1
  <2>2. CASE s # f
    BY <1>4, <2>2 DEF SlotsAreRight
  <2> QED  BY <2>1, <2>2
<1>8. ASSUME NEW s \in 0 .. n - 1, NEW u \in 0 .. n - 1,
             InUse(new[s]), new[s].index = new[u].index
      PROVE  s = u
  <2>1. CASE s = f \/ u = f
    BY <1>3, <1>4, <1>8, <2>1
  <2>2. CASE s # f /\ u # f
    BY <1>4, <1>8, <2>2 DEF SlotsAreRight
  <2> QED  BY <2>1, <2>2
<1>9. SlotsAreRight(new, n)
  BY <1>4, <1>6, <1>7, <1>8 DEF SlotsAreRight
<1> QED  BY <1>2, <1>9 DEF f, new

\* One round of the loop of stbds_make_hash_index.
LEMMA CopyKeeps ==
  ASSUME NEW n \in Nat, IndexSize(n), NEW size \in Nat, size < n,
         NEW old, NEW c \in Nat, NEW i \in 0 .. c - 1, Copyable(old, c, size),
         NEW sl, CopiedFrom(sl, n, old, i)
  PROVE  CopiedFrom(Copy(sl, n, old[i]), n, old, i + 1)
<1>1. CASE ~InUse(old[i])
  BY <1>1 DEF CopiedFrom, Copy
<1>2. CASE InUse(old[i])
  <2> DEFINE e == old[i]
             E == Empties(sl)
             f == FirstIn(E, n, e.hash)
             new == [sl EXCEPT ![f] = e]
  <2>1. e \in SlotType /\ InUse(e) /\ e.hash \notin {0, 1}
    BY <1>2 DEF Copyable
  <2>2. DOMAIN sl = 0 .. n - 1 /\ E \in SUBSET (0 .. n - 1)
    BY DEF CopiedFrom, SlotsAreRight, Empties
  <2>3. ASSUME NEW s \in 0 .. n - 1, InUse(sl[s])
        PROVE  sl[s].index < size /\ sl[s].index # e.index
    <3>1. PICK t \in 0 .. i - 1 : sl[s] = old[t]
      BY <2>3 DEF CopiedFrom, EMPTY, InUse
    <3>2. t \in 0 .. c - 1 /\ t # i /\ i \in 0 .. c - 1
      OBVIOUS
    <3> QED  BY <1>2, <2>3, <3>1, <3>2 DEF Copyable
  <2>4. E # {}
    <3>1. \A s \in 0 .. n - 1 : sl[s] = EMPTY \/ (InUse(sl[s]) /\ sl[s].index < size)
      <4> SUFFICES ASSUME NEW s \in 0 .. n - 1, sl[s] # EMPTY
                   PROVE  InUse(sl[s]) /\ sl[s].index < size
        OBVIOUS
      <4>1. InUse(sl[s])
        BY DEF CopiedFrom
      <4> QED  BY <2>3, <4>1
    <3> QED  BY <3>1, RoomToCopy DEF CopiedFrom
  <2>5. \A s \in 0 .. n - 1 : sl[s].index # e.index
    BY <2>1, <2>3 DEF CopiedFrom, EMPTY, InUse
  <2>6. \A s \in E : ~InUse(sl[s])
    BY <2>2 DEF CopiedFrom, SlotsAreRight, Empties, EMPTY, InUse
  <2>7. f \in E /\ SlotsAreRight(new, n)
    <3> HIDE DEF e
    <3>1. SlotsAreRight(sl, n)
      BY DEF CopiedFrom
    <3> QED  BY <2>1, <2>2, <2>4, <2>5, <2>6, <3>1, Entered
  <2> HIDE DEF f, E
  <2>8. new[f] = e /\ \A s \in 0 .. n - 1 : s # f => new[s] = sl[s]
    BY <2>2, <2>7
  <2>9. f \in 0 .. n - 1
    BY <2>2, <2>7
  <2> HIDE DEF new
  <2>10. ASSUME NEW s \in 0 .. n - 1
         PROVE  \/ new[s] = EMPTY
                \/ InUse(new[s]) /\ \E t \in 0 .. (i + 1) - 1 : new[s] = old[t]
    <3>1. CASE s = f
      BY <2>1, <2>8, <3>1
    <3>2. CASE s # f
      <4>1. CASE sl[s] = EMPTY
        BY <2>8, <3>2, <4>1
      <4>2. CASE sl[s] # EMPTY
        <5>1. PICK t \in 0 .. i - 1 : sl[s] = old[t] /\ InUse(sl[s])
          BY <4>2 DEF CopiedFrom
        <5> QED  BY <2>8, <3>2, <5>1
      <4> QED  BY <4>1, <4>2
    <3> QED  BY <3>1, <3>2
  <2>11. ASSUME NEW t \in 0 .. (i + 1) - 1, InUse(old[t])
         PROVE  \E s \in 0 .. n - 1 : new[s] = old[t]
    <3>1. CASE t = i
      BY <2>8, <2>9, <3>1
    <3>2. CASE t # i
      <4>1. t \in 0 .. i - 1
        BY <3>2
      <4>2. PICK s \in 0 .. n - 1 : sl[s] = old[t]
        BY <2>11, <4>1 DEF CopiedFrom
      <4>3. s # f
        BY <2>6, <2>7, <2>11, <4>2
      <4> QED  BY <2>8, <4>2, <4>3
    <3> QED  BY <3>1, <3>2
  <2>12. Copy(sl, n, old[i]) = new
    BY <1>2 DEF Copy, new, f, E
  <2> QED  BY <2>7, <2>10, <2>11, <2>12 DEF CopiedFrom
<1> QED  BY <1>1, <1>2

\* The whole loop: the new index has the slots in use of the old one.
LEMMA RebuiltIs ==
  ASSUME NEW n \in Nat, IndexSize(n), NEW size \in Nat, size < n,
         NEW ot, ot.slot_count \in Nat, Copyable(ot.slot, ot.slot_count, size)
  PROVE  \E sl : /\ CopiedFrom(sl, n, ot.slot, ot.slot_count)
                 /\ make_hash_index(n, ot) =
                      [slot_count |-> n, used_count |-> ot.used_count,
                       tombstone_count |-> 0, slot |-> sl]
<1> DEFINE c == ot.slot_count
           old == ot.slot
<1>1. PICK f : /\ f[0] = [s \in 0 .. n - 1 |-> EMPTY]
               /\ \A i \in 1 .. c : f[i] = Copy(f[i - 1], n, old[i - 1])
               /\ make_hash_index(n, ot) =
                    [slot_count |-> n, used_count |-> ot.used_count,
                     tombstone_count |-> 0, slot |-> f[c]]
  BY CopiedExists
<1> DEFINE Good == {i \in Nat : i <= c => CopiedFrom(f[i], n, old, i)}
<1>2. 0 \in Good
  <2>1. /\ f[0] \in [0 .. n - 1 -> SlotType]
        /\ \A s \in 0 .. n - 1 : f[0][s] = EMPTY
    BY <1>1 DEF SlotType, EMPTY
  <2>2. SlotsAreRight(f[0], n)
    BY <2>1 DEF SlotsAreRight, EMPTY, InUse
  <2>3. CopiedFrom(f[0], n, old, 0)
    BY <2>1, <2>2 DEF CopiedFrom
  <2> QED  BY <2>3
<1>3. ASSUME NEW i \in Nat, i \in Good
      PROVE  i + 1 \in Good
  <2> SUFFICES ASSUME i + 1 <= c
               PROVE  CopiedFrom(f[i + 1], n, old, i + 1)
    OBVIOUS
  <2>1. i \in 0 .. c - 1 /\ i + 1 \in 1 .. c /\ (i + 1) - 1 = i /\ CopiedFrom(f[i], n, old, i)
    BY <1>3
  <2>2. f[i + 1] = Copy(f[i], n, old[i])
    BY <1>1, <2>1
  <2> HIDE DEF c, old
  <2>3. c \in Nat /\ Copyable(old, c, size)
    BY DEF c, old
  <2> QED  BY <2>1, <2>2, <2>3, CopyKeeps
<1>4. c \in Good
  <2> HIDE DEF Good
  <2> QED  BY <1>2, <1>3, NatSetInduction
<1> QED  BY <1>1, <1>4

\* The new index is one of the same array, with no tombstones.
LEMMA Rebuilt ==
  ASSUME NEW n \in Nat, IndexSize(n), NEW arr \in Seq(Keys), Len(arr) < n,
         NEW ix, IndexOf(ix, arr) \/ (ix = NoIndex /\ arr = <<>>)
  PROVE  LET new == make_hash_index(n, ix)
         IN  /\ IndexOf(new, arr) /\ new.slot_count = n
             /\ new.used_count = Len(arr) /\ new.tombstone_count = 0
             /\ Deleteds(new) = {}
<1> DEFINE new == make_hash_index(n, ix)
           c == ix.slot_count
           old == ix.slot
<1>1. c \in Nat /\ ix.used_count = Len(arr)
  BY DEF IndexOf, NoIndex
<1>2. Copyable(old, c, Len(arr))
  <2>1. CASE ix = NoIndex
    BY <2>1 DEF NoIndex, Copyable
  <2>2. CASE IndexOf(ix, arr)
    <3>1. \A t \in 0 .. c - 1 :
            InUse(old[t]) => /\ old[t] \in SlotType
                             /\ old[t].hash \notin {0, 1} /\ old[t].index < Len(arr)
      <4> SUFFICES ASSUME NEW t \in 0 .. c - 1, InUse(old[t])
                   PROVE  /\ old[t] \in SlotType
                          /\ old[t].hash \notin {0, 1} /\ old[t].index < Len(arr)
        OBVIOUS
      <4>1. old[t] \in SlotType /\ old[t].index < Len(arr)
        BY <2>2 DEF IndexOf, SlotsAreRight, PointsAt
      <4>2. old[t].hash \notin {0, 1}
        BY <2>2 DEF IndexOf, SlotsAreRight, InUse
      <4> QED  BY <4>1, <4>2
    <3>2. \A t, u \in 0 .. c - 1 :
            InUse(old[t]) /\ InUse(old[u]) /\ old[t].index = old[u].index => t = u
      BY <2>2 DEF IndexOf, SlotsAreRight
    <3> QED  BY <3>1, <3>2 DEF Copyable
  <2> QED  BY <2>1, <2>2
<1>3. PICK sl : /\ CopiedFrom(sl, n, old, c)
                /\ new = [slot_count |-> n, used_count |-> ix.used_count,
                          tombstone_count |-> 0, slot |-> sl]
  BY <1>1, <1>2, RebuiltIs
<1> HIDE DEF new
<1>4. /\ new.slot_count = n /\ new.used_count = Len(arr)
      /\ new.tombstone_count = 0 /\ new.slot = sl
  BY <1>1, <1>3
<1>5. SlotsAreRight(sl, n)
  BY <1>3 DEF CopiedFrom
<1>6. Deleteds(new) = {} /\ Cardinality(Deleteds(new)) = 0
  <2>1. Deleteds(new) = {}
    BY <1>3, <1>4, <1>5 DEF Deleteds, CopiedFrom, SlotsAreRight, EMPTY, DELETED, InUse
  <2> QED  BY <2>1, FS_EmptySet
<1>7. PointsAt(sl, n, arr)
  <2>1. CASE ix = NoIndex
    <3>1. c = 0 /\ arr = <<>>
      BY <2>1 DEF NoIndex, IndexOf
    <3>2. \A s \in 0 .. n - 1 : ~InUse(sl[s])
      BY <1>3, <3>1 DEF CopiedFrom, EMPTY, InUse
    <3> QED  BY <3>1, <3>2 DEF PointsAt
  <2>2. CASE IndexOf(ix, arr)
    <3>1. ASSUME NEW s \in 0 .. n - 1, InUse(sl[s])
          PROVE  sl[s].index < Len(arr) /\ sl[s].hash = hash(arr[sl[s].index + 1])
      <4>1. PICK t \in 0 .. c - 1 : sl[s] = old[t]
        <5>1. sl[s] # EMPTY
          BY <3>1 DEF EMPTY, InUse
        <5>2. CopiedFrom(sl, n, old, c)
          BY <1>3, Zenon
        <5> HIDE DEF old, c
        <5> QED  BY <3>1, <5>1, <5>2, Zenon DEF CopiedFrom
      <4>2. InUse(old[t]) /\ PointsAt(old, c, arr)
        BY <2>2, <3>1, <4>1 DEF IndexOf
      <4>3. old[t].index < Len(arr) /\ old[t].hash = hash(arr[old[t].index + 1])
        <5> HIDE DEF old, c
        <5> QED  BY <4>2 DEF PointsAt
      <4> HIDE DEF old
      <4> QED  BY <4>1, <4>3
    <3>2. ASSUME NEW i \in 1 .. Len(arr)
          PROVE  \E s \in 0 .. n - 1 : sl[s].index = i - 1
      <4>1. PICK t \in 0 .. c - 1 : old[t].index = i - 1
        BY <2>2 DEF IndexOf, PointsAt
      <4>2. InUse(old[t])
        BY <4>1 DEF InUse
      <4>3. PICK s \in 0 .. n - 1 : sl[s] = old[t]
        BY <1>3, <4>2 DEF CopiedFrom
      <4> QED  BY <4>1, <4>3
    <3> QED  BY <3>1, <3>2 DEF PointsAt
  <2> QED  BY <2>1, <2>2
<1>8. IndexOf(new, arr)
  BY <1>3, <1>4, <1>5, <1>6, <1>7 DEF IndexOf
<1> QED  BY <1>4, <1>6, <1>8 DEF new

-----------------------------------------------------------------------------
(* How full an index is.                                                   *)

\* A slot is in use, deleted or empty.
LEMMA SlotKinds ==
  ASSUME NEW arr \in Seq(Keys), NEW ix, IndexOf(ix, arr)
  PROVE  LET n == ix.slot_count
         IN  /\ InUses(ix) \in SUBSET (0 .. n - 1)
             /\ Deleteds(ix) \in SUBSET (0 .. n - 1)
             /\ Empties(ix.slot) \in SUBSET (0 .. n - 1)
             /\ 0 .. n - 1 = InUses(ix) \cup Deleteds(ix) \cup Empties(ix.slot)
             /\ InUses(ix) \cap Deleteds(ix) = {}
             /\ Empties(ix.slot) \cap (InUses(ix) \cup Deleteds(ix)) = {}
             /\ IsFiniteSet(InUses(ix)) /\ IsFiniteSet(Deleteds(ix))
<1> DEFINE n == ix.slot_count
           sl == ix.slot
<1>1. /\ sl \in [0 .. n - 1 -> SlotType] /\ n \in Nat
      /\ \A s \in 0 .. n - 1 : sl[s].hash = 0 <=> sl[s].index = -1
  BY DEF IndexOf, SlotsAreRight
<1>2. /\ InUses(ix) = {s \in 0 .. n - 1 : sl[s].index >= 0}
      /\ Deleteds(ix) = {s \in 0 .. n - 1 : sl[s].index = -2}
      /\ Empties(ix.slot) = {s \in 0 .. n - 1 : sl[s].index = -1}
  BY <1>1 DEF InUses, InUse, Deleteds, DELETED, Empties, EMPTY
<1> HIDE DEF sl, n
<1>3. \A s \in 0 .. n - 1 : sl[s].index \in {-1, -2} \cup Nat
  BY <1>1 DEF SlotType
<1>4. /\ InUses(ix) \in SUBSET (0 .. n - 1)
      /\ Deleteds(ix) \in SUBSET (0 .. n - 1)
      /\ Empties(ix.slot) \in SUBSET (0 .. n - 1)
      /\ 0 .. n - 1 = InUses(ix) \cup Deleteds(ix) \cup Empties(ix.slot)
      /\ InUses(ix) \cap Deleteds(ix) = {}
      /\ Empties(ix.slot) \cap (InUses(ix) \cup Deleteds(ix)) = {}
  BY <1>2, <1>3
<1>5. IsFiniteSet(InUses(ix)) /\ IsFiniteSet(Deleteds(ix))
  BY <1>1, <1>4, Places, FS_Subset
<1> QED  BY <1>4, <1>5 DEF n

\* There is one slot in use for every key.
LEMMA InUseCount ==
  ASSUME NEW arr \in Seq(Keys), NEW ix, IndexOf(ix, arr)
  PROVE  Cardinality(InUses(ix)) = Len(arr)
<1> DEFINE S == InUses(ix)
           T == 0 .. Len(arr) - 1
           f == [s \in S |-> ix.slot[s].index]
<1>1. /\ S \in SUBSET (0 .. ix.slot_count - 1)
      /\ S = {s \in 0 .. ix.slot_count - 1 : InUse(ix.slot[s])}
      /\ IsFiniteSet(S)
  BY SlotKinds DEF InUses, IndexOf, SlotsAreRight
<1>2. f \in [S -> T]
  <2> SUFFICES ASSUME NEW s \in S
               PROVE  ix.slot[s].index \in T
    OBVIOUS
  <2>1. ix.slot[s] \in SlotType /\ InUse(ix.slot[s]) /\ ix.slot[s].index < Len(arr)
    BY <1>1 DEF IndexOf, SlotsAreRight, PointsAt
  <2> QED  BY <2>1 DEF SlotType, InUse
<1>3. \A s, u \in S : f[s] = f[u] => s = u
  BY <1>1 DEF IndexOf, SlotsAreRight
<1>4. \A t \in T : \E s \in S : f[s] = t
  <2> SUFFICES ASSUME NEW t \in T
               PROVE  \E s \in S : f[s] = t
    OBVIOUS
  <2>1. t + 1 \in 1 .. Len(arr) /\ (t + 1) - 1 = t
    OBVIOUS
  <2>2. PICK s \in 0 .. ix.slot_count - 1 : ix.slot[s].index = t
    BY <2>1 DEF IndexOf, PointsAt
  <2>3. s \in S
    BY <1>1, <2>2 DEF InUse
  <2> QED  BY <2>2, <2>3
<1> HIDE DEF f, S
<1>5. f \in Bijection(S, T)
  BY <1>2, <1>3, <1>4 DEF Bijection, Injection, IsInjective, Surjection
<1>6. Cardinality(T) = Cardinality(S)
  BY <1>1, <1>5, FS_Bijection DEF ExistsBijection
<1> QED  BY <1>6, Places DEF S

\* The counters tell whether a slot is empty.
LEMMA EmptyLeft ==
  ASSUME NEW arr \in Seq(Keys), NEW ix, IndexOf(ix, arr),
         ix.used_count + ix.tombstone_count < ix.slot_count
  PROVE  Empties(ix.slot) # {}
<1> SUFFICES ASSUME Empties(ix.slot) = {}
             PROVE  FALSE
  OBVIOUS
<1> DEFINE U == InUses(ix)
           D == Deleteds(ix)
<1>1. /\ 0 .. ix.slot_count - 1 = U \cup D /\ U \cap D = {}
      /\ IsFiniteSet(U) /\ IsFiniteSet(D)
  BY SlotKinds
<1>2. /\ Cardinality(U) = ix.used_count /\ Cardinality(D) = ix.tombstone_count
      /\ ix.slot_count \in Nat
  BY InUseCount DEF IndexOf
<1>3. Cardinality(U \cup D) = Cardinality(U) + Cardinality(D) - Cardinality(U \cap D)
  BY <1>1, FS_Union
<1>4. Cardinality(U \cap D) = 0
  BY <1>1, FS_EmptySet
<1>5. Cardinality(U) \in Nat /\ Cardinality(D) \in Nat
  BY <1>1, FS_CardinalityType
<1>6. Cardinality(U \cup D) = ix.slot_count
  BY <1>1, <1>2, Places
<1> QED  BY <1>2, <1>3, <1>4, <1>5, <1>6

\* The numbers of slots that growing and shrinking lead to.
LEMMA Sizes ==
  ASSUME NEW n \in Nat, IndexSize(n)
  PROVE  /\ n >= BUCKET_LENGTH /\ n >= 4 /\ BUCKET_LENGTH \in Nat
         /\ IndexSize(2 * n)
         /\ n > BUCKET_LENGTH => n \div 2 \in Nat /\ IndexSize(n \div 2) /\ n = 2 * (n \div 2)
<1>1. PICK m \in Nat \ {0} : n = BUCKET_LENGTH * m /\ PowerOfTwo(m)
  BY SizeIs
<1>2. n >= BUCKET_LENGTH /\ n >= 4 /\ BUCKET_LENGTH \in Nat
  BY <1>1, StbDsAssumption
<1>3. IndexSize(2 * n)
  <2>1. PowerOfTwo(2 * m) /\ 2 * m \in Nat \ {0}
    BY <1>1, DoublePower
  <2>2. 2 * n = BUCKET_LENGTH * (2 * m) /\ 2 * n \in Nat
    BY <1>1, StbDsAssumption
  <2> QED  BY <2>1, <2>2, SizeIs
<1>4. ASSUME n > BUCKET_LENGTH
      PROVE  n \div 2 \in Nat /\ IndexSize(n \div 2) /\ n = 2 * (n \div 2)
  <2>1. m # 1
    BY <1>1, <1>4, StbDsAssumption
  <2>2. PICK q \in Nat \ {0} : m = 2 * q /\ PowerOfTwo(q)
    BY <1>1, <2>1, HalfPower
  <2>3. n \div 2 = BUCKET_LENGTH * q /\ n \div 2 \in Nat /\ n = 2 * (n \div 2)
    BY <1>1, <2>2, StbDsAssumption
  <2> QED  BY <2>2, <2>3, SizeIs
<1> QED  BY <1>2, <1>3, <1>4

-----------------------------------------------------------------------------
(* Insertions.                                                             *)

\* There is a slot for one more key, and an empty one where its search ends.
LEMMA GrownIs ==
  ASSUME NEW arr \in Seq(Keys), NEW ix,
         \/ ix = NoIndex /\ arr = <<>>
         \/ IndexOf(ix, arr) /\ WithinThresholds(ix)
  PROVE  LET new == Grown(ix)
         IN  /\ IndexOf(new, arr) /\ WithinThresholds(new)
             /\ new.used_count < used_count_threshold(new.slot_count)
             /\ Empties(new.slot) # {}
<1> DEFINE new == Grown(ix)
<1>1. CASE ix = NoIndex /\ arr = <<>>
  <2>1. BUCKET_LENGTH \in Nat /\ IndexSize(BUCKET_LENGTH)
    <3>1. BUCKET_LENGTH \in Nat /\ BUCKET_LENGTH = BUCKET_LENGTH * 1
      BY StbDsAssumption
    <3> QED  BY <3>1, SizeIs, FourIsPower
  <2>2. /\ IndexOf(new, arr) /\ new.slot_count = BUCKET_LENGTH
        /\ new.used_count = Len(arr) /\ new.tombstone_count = 0
    <3>1. Len(arr) = 0 /\ Len(arr) < BUCKET_LENGTH
      BY <1>1, StbDsAssumption
    <3>2. new = make_hash_index(BUCKET_LENGTH, ix)
      BY <1>1 DEF Grown
    <3>3. IndexOf(ix, arr) \/ (ix = NoIndex /\ arr = <<>>)
      BY <1>1
    <3> DEFINE B == BUCKET_LENGTH
    <3> HIDE DEF new, B
    <3>4. B \in Nat /\ IndexSize(B) /\ Len(arr) < B /\ new = make_hash_index(B, ix)
      BY <2>1, <3>1, <3>2 DEF B
    <3>5. /\ IndexOf(new, arr) /\ new.slot_count = B
          /\ new.used_count = Len(arr) /\ new.tombstone_count = 0
      BY <3>3, <3>4, Rebuilt
    <3> QED  BY <3>5 DEF B
  <2> HIDE DEF new
  <2>3. new.used_count = 0
    BY <1>1, <2>2
  <2>4. WithinThresholds(new) /\ new.used_count < used_count_threshold(new.slot_count)
    BY <2>2, <2>3, StbDsAssumption
       DEF WithinThresholds, used_count_threshold, tombstone_count_threshold
  <2>5. new.used_count + new.tombstone_count < new.slot_count
    BY <2>2, <2>3, StbDsAssumption
  <2> QED  BY <2>2, <2>4, <2>5, EmptyLeft DEF new
<1>2. CASE IndexOf(ix, arr) /\ WithinThresholds(ix)
  <2> DEFINE n == ix.slot_count
  <2>1. /\ n \in Nat /\ IndexSize(n) /\ n >= 4 /\ ix # NoIndex
        /\ ix.used_count = Len(arr) /\ Len(arr) \in Nat
    <3>1. n \in Nat /\ IndexSize(n) /\ ix.used_count = Len(arr)
      BY <1>2 DEF IndexOf
    <3>2. n >= 4
      BY <3>1, Sizes
    <3> QED  BY <3>1, <3>2 DEF NoIndex
  <2>2. ix.used_count <= (n * 14) \div 16 /\ ix.tombstone_count <= (n * 2) \div 16
    BY <1>2 DEF WithinThresholds, used_count_threshold, tombstone_count_threshold
  <2>3. CASE Crowded(ix)
    <3>1. new = make_hash_index(2 * n, ix)
      BY <2>1, <2>3 DEF Grown
    <3>2. 2 * n \in Nat /\ IndexSize(2 * n) /\ Len(arr) < 2 * n
      <4>1. Len(arr) <= (n * 14) \div 16
        BY <2>1, <2>2
      <4> HIDE DEF n
      <4> QED  BY <2>1, <4>1, Sizes
    <3> HIDE DEF new
    <3>3. /\ IndexOf(new, arr) /\ new.slot_count = 2 * n
          /\ new.used_count = Len(arr) /\ new.tombstone_count = 0
      BY <1>2, <3>1, <3>2, Rebuilt
    <3> HIDE DEF n
    <3>4. /\ Len(arr) < ((2 * n) * 14) \div 16 /\ 0 <= ((2 * n) * 2) \div 16
          /\ Len(arr) + 0 < 2 * n
      BY <2>1, <2>2
    <3>5. WithinThresholds(new) /\ new.used_count < used_count_threshold(new.slot_count)
      BY <2>1, <3>3, <3>4
         DEF WithinThresholds, used_count_threshold, tombstone_count_threshold
    <3>6. Empties(new.slot) # {}
      BY <3>3, <3>4, EmptyLeft
    <3> QED  BY <3>3, <3>5, <3>6 DEF new
  <2>4. CASE ~Crowded(ix)
    <3>1. new = ix
      BY <2>1, <2>4 DEF Grown
    <3>2. ix.used_count < used_count_threshold(ix.slot_count)
      BY <2>1, <2>4 DEF Crowded, used_count_threshold
    <3>3. ix.tombstone_count \in Nat
      <4>1. IsFiniteSet(Deleteds(ix))
        BY <1>2, SlotKinds
      <4> QED  BY <1>2, <4>1, FS_CardinalityType DEF IndexOf
    <3>4. ix.used_count + ix.tombstone_count < ix.slot_count
      BY <2>1, <2>2, <3>2, <3>3 DEF used_count_threshold
    <3> QED  BY <1>2, <3>1, <3>2, <3>4, EmptyLeft
  <2> QED  BY <2>3, <2>4
<1> QED  BY <1>1, <1>2

\* It is a tombstone or empty, and no slot before it on the way is empty.
LEMMA NewSlotIs ==
  ASSUME NEW arr \in Seq(Keys), NEW ix, IndexOf(ix, arr),
         Empties(ix.slot) # {}, NEW k \in Keys
  PROVE  \E Goal \in SUBSET (0 .. ix.slot_count - 1) :
            /\ NewSlot(ix, k) = FirstIn(Goal, ix.slot_count, hash(k))
            /\ Empties(ix.slot) \subseteq Goal
            /\ Goal \subseteq Empties(ix.slot) \cup Deleteds(ix)
<1> DEFINE n == ix.slot_count
           end == Min({p \in 0 .. n - 1 : Probe(n, hash(k), p) \in Empties(ix.slot)})
           passed == {Probe(n, hash(k), p) : p \in 0 .. end}
           Goal == (passed \cap Deleteds(ix)) \cup Empties(ix.slot)
<1>1. NewSlot(ix, k) = FirstIn(Goal, n, hash(k))
  BY DEF NewSlot
<1> HIDE DEF passed
<1>2. Goal \in SUBSET (0 .. n - 1)
  BY SlotKinds
<1> QED  BY <1>1, <1>2

\* The end of hmput: the array and its index with one more key.
LEMMA Inserted ==
  ASSUME NEW arr \in Seq(Keys), Distinct(arr), NEW ix, IndexOf(ix, arr),
         WithinThresholds(ix), ix.used_count < used_count_threshold(ix.slot_count),
         Empties(ix.slot) # {},
         NEW k \in Keys, \A i \in 1 .. Len(arr) : arr[i] # k
  PROVE  LET slot == NewSlot(ix, k)
             new == [ix EXCEPT
                      !.slot[slot] = [hash |-> hash(k), index |-> Len(arr)],
                      !.used_count = @ + 1,
                      !.tombstone_count = IF slot \in Deleteds(ix) THEN @ - 1
                                                                   ELSE @]
         IN  /\ IndexOf(new, Append(arr, k)) /\ WithinThresholds(new)
             /\ Append(arr, k) \in Seq(Keys) /\ Distinct(Append(arr, k))
<1> DEFINE slot == NewSlot(ix, k)
           n == ix.slot_count
           sl == ix.slot
           e == [hash |-> hash(k), index |-> Len(arr)]
           tombs == IF slot \in Deleteds(ix) THEN ix.tombstone_count - 1
                                             ELSE ix.tombstone_count
           new == [ix EXCEPT
                     !.slot[slot] = [hash |-> hash(k), index |-> Len(arr)],
                     !.used_count = @ + 1,
                     !.tombstone_count = IF slot \in Deleteds(ix) THEN @ - 1
                                                                  ELSE @]
           nsl == [sl EXCEPT ![slot] = e]
           narr == Append(arr, k)
<1>1. /\ DOMAIN new = {"slot_count", "used_count", "tombstone_count", "slot"}
      /\ new.slot_count = n /\ new.used_count = ix.used_count + 1
      /\ new.tombstone_count = tombs /\ new.slot = nsl
  <2>1. DOMAIN ix = {"slot_count", "used_count", "tombstone_count", "slot"}
    BY DEF IndexOf
  <2> HIDE DEF slot
  <2> QED  BY <2>1
<1> HIDE DEF new
<1>2. /\ n \in Nat /\ IndexSize(n) /\ SlotsAreRight(sl, n) /\ PointsAt(sl, n, arr)
      /\ ix.used_count = Len(arr) /\ ix.tombstone_count = Cardinality(Deleteds(ix))
  BY DEF IndexOf
<1>3. /\ narr \in Seq(Keys) /\ Len(narr) = Len(arr) + 1 /\ narr[Len(arr) + 1] = k
      /\ \A i \in 1 .. Len(arr) : narr[i] = arr[i]
  OBVIOUS
<1> HIDE DEF narr
<1>4. Distinct(narr)
  <2> SUFFICES ASSUME NEW i \in 1 .. Len(narr), NEW l \in 1 .. Len(narr),
                      narr[i] = narr[l]
               PROVE  i = l
    BY DEF Distinct
  <2>1. (i \in 1 .. Len(arr) \/ i = Len(arr) + 1)
        /\ (l \in 1 .. Len(arr) \/ l = Len(arr) + 1)
    BY <1>3
  <2> QED  BY <1>3, <2>1 DEF Distinct
<1>5. e \in SlotType /\ InUse(e) /\ e.hash \notin {0, 1} /\ e.index = Len(arr)
      /\ e.hash = hash(k)
  BY HashIs DEF SlotType, InUse
<1>6. \A s \in 0 .. n - 1 : sl[s].index # Len(arr)
  BY <1>2 DEF PointsAt, InUse
<1>7. slot \in Empties(sl) \cup Deleteds(ix) /\ SlotsAreRight(nsl, n)
  <2>1. PICK Goal \in SUBSET (0 .. n - 1) :
          /\ slot = FirstIn(Goal, n, hash(k))
          /\ Empties(sl) \subseteq Goal
          /\ Goal \subseteq Empties(sl) \cup Deleteds(ix)
    BY NewSlotIs
  <2>2. \A s \in Goal : ~InUse(sl[s])
    <3>1. \A s \in InUses(ix) : s \notin Goal
      BY <2>1, SlotKinds
    <3>2. \A s \in 0 .. n - 1 : InUse(sl[s]) => s \in InUses(ix)
      BY DEF IndexOf, SlotsAreRight, InUses
    <3> QED  BY <3>1, <3>2
  <2> HIDE DEF slot, e
  <2>3. FirstIn(Goal, n, e.hash) \in Goal
        /\ SlotsAreRight([sl EXCEPT ![FirstIn(Goal, n, e.hash)] = e], n)
    <3>1. Goal # {} /\ \A s \in 0 .. n - 1 : sl[s].index # e.index
      BY <1>5, <1>6, <2>1
    <3> HIDE DEF n, sl
    <3> QED  BY <1>2, <1>5, <2>1, <2>2, <3>1, Entered
  <2> QED  BY <1>5, <2>1, <2>3
<1>8. slot \in 0 .. n - 1 /\ slot \notin InUses(ix)
  BY <1>7, SlotKinds
<1> HIDE DEF slot, e
<1>9. /\ nsl[slot] = e /\ nsl \in [0 .. n - 1 -> SlotType]
      /\ \A s \in 0 .. n - 1 : s # slot => nsl[s] = sl[s]
  BY <1>2, <1>7, <1>8 DEF SlotsAreRight
<1> HIDE DEF nsl
<1>10. PointsAt(nsl, n, narr)
  <2>1. ASSUME NEW s \in 0 .. n - 1, InUse(nsl[s])
        PROVE  nsl[s].index < Len(narr) /\ nsl[s].hash = hash(narr[nsl[s].index + 1])
    <3>1. CASE s = slot
      BY <1>3, <1>5, <1>9, <3>1
    <3>2. CASE s # slot
      <4>1. nsl[s] = sl[s] /\ sl[s].index < Len(arr)
            /\ sl[s].hash = hash(arr[sl[s].index + 1])
        BY <1>2, <1>9, <2>1, <3>2 DEF PointsAt
      <4>2. sl[s].index + 1 \in 1 .. Len(arr)
        BY <1>9, <2>1, <4>1 DEF SlotType, InUse
      <4>3. narr[sl[s].index + 1] = arr[sl[s].index + 1]
            /\ sl[s].index < Len(narr)
        <5> DEFINE x == sl[s].index
        <5>1. x + 1 \in 1 .. Len(arr) /\ x \in Nat
          BY <1>9, <2>1, <4>1, <4>2 DEF SlotType, InUse
        <5> HIDE DEF x
        <5>2. narr[x + 1] = arr[x + 1] /\ x < Len(narr)
          BY <1>3, <5>1
        <5> QED  BY <5>2 DEF x
      <4> QED  BY <4>1, <4>3
    <3> QED  BY <3>1, <3>2
  <2>2. ASSUME NEW i \in 1 .. Len(narr)
        PROVE  \E s \in 0 .. n - 1 : nsl[s].index = i - 1
    <3>1. CASE i = Len(arr) + 1
      BY <1>3, <1>5, <1>8, <1>9, <3>1
    <3>2. CASE i # Len(arr) + 1
      <4>1. PICK s \in 0 .. n - 1 : sl[s].index = i - 1
        BY <1>2, <1>3, <3>2 DEF PointsAt
      <4>2. s \in InUses(ix)
        BY <4>1 DEF InUses, InUse, IndexOf, SlotsAreRight
      <4> QED  BY <1>8, <1>9, <4>1, <4>2
    <3> QED  BY <3>1, <3>2
  <2> QED  BY <2>1, <2>2 DEF PointsAt
<1>11. tombs = Cardinality(Deleteds(new)) /\ tombs <= ix.tombstone_count
  <2>1. Deleteds(ix) = {s \in 0 .. n - 1 : sl[s].index = -2}
    BY DEF Deleteds, DELETED, IndexOf, SlotsAreRight
  <2>2. Deleteds(new) = {s \in 0 .. n - 1 : nsl[s].index = -2}
    BY <1>1, <1>9 DEF Deleteds, DELETED
  <2>3. Deleteds(new) = Deleteds(ix) \ {slot}
    BY <1>5, <1>8, <1>9, <2>1, <2>2
  <2>4. IsFiniteSet(Deleteds(ix)) /\ Cardinality(Deleteds(ix)) \in Nat
    BY SlotKinds, FS_CardinalityType
  <2>5. Cardinality(Deleteds(ix) \ {slot}) =
          IF slot \in Deleteds(ix) THEN Cardinality(Deleteds(ix)) - 1
                                   ELSE Cardinality(Deleteds(ix))
    BY <2>4, FS_RemoveElement
  <2>6. tombs = Cardinality(Deleteds(new))
    BY <1>2, <2>3, <2>5, Zenon
  <2> QED  BY <1>2, <2>4, <2>6
<1>12. IndexOf(new, narr)
  BY <1>1, <1>2, <1>3, <1>7, <1>10, <1>11 DEF IndexOf, nsl
<1>13. WithinThresholds(new)
  <2>2. ix.tombstone_count \in Nat /\ tombs \in Int
    BY <1>2, SlotKinds, FS_CardinalityType
  <2>3. tombs <= tombstone_count_threshold(n)
    BY <1>2, <1>11, <2>2 DEF WithinThresholds, tombstone_count_threshold
  <2>4. ix.used_count + 1 <= used_count_threshold(n)
    BY <1>2 DEF used_count_threshold
  <2> QED  BY <1>1, <2>3, <2>4 DEF WithinThresholds
<1> QED  BY <1>3, <1>4, <1>12, <1>13 DEF new, narr, slot

-----------------------------------------------------------------------------
(* Erasures.                                                               *)

KeysIn(arr) == {arr[i] : i \in 1 .. Len(arr)}

\* The array after an erasure at position hole.
Filled(arr, hole) == Front([arr EXCEPT ![hole + 1] = arr[Len(arr)]])

\* The array loses one key, whose place the last one takes.
LEMMA FilledIs ==
  ASSUME NEW arr \in Seq(Keys), Distinct(arr), NEW hole \in 0 .. Len(arr) - 1
  PROVE  LET new == Filled(arr, hole)
         IN  /\ new \in Seq(Keys) /\ Len(new) = Len(arr) - 1
             /\ \A i \in 1 .. Len(new) :
                  new[i] = IF i = hole + 1 THEN arr[Len(arr)] ELSE arr[i]
             /\ Distinct(new)
             /\ KeysIn(new) = KeysIn(arr) \ {arr[hole + 1]}
<1> DEFINE n == Len(arr)
           moved == [arr EXCEPT ![hole + 1] = arr[n]]
           new == Filled(arr, hole)
<1>1. /\ n \in Nat \ {0} /\ arr \in [1 .. n -> Keys]
      /\ moved \in [1 .. n -> Keys] /\ Len(moved) = n
  OBVIOUS
<1>2. \A i \in 1 .. n : moved[i] = IF i = hole + 1 THEN arr[n] ELSE arr[i]
  OBVIOUS
<1>3. /\ new \in Seq(Keys) /\ Len(new) = n - 1
      /\ \A i \in 1 .. n - 1 : new[i] = moved[i]
  <2>1. new = SubSeq(moved, 1, n - 1)
    BY <1>1 DEF Filled, Front
  <2>2. moved \in Seq(Keys)
    BY <1>1
  <2> HIDE DEF moved, new
  <2> QED  BY <1>1, <2>1, <2>2
<1> HIDE DEF n, moved, new
<1>4. \A i \in 1 .. n - 1 : new[i] = IF i = hole + 1 THEN arr[n] ELSE arr[i]
  BY <1>1, <1>2, <1>3
<1>5. \A i, l \in 1 .. n : arr[i] = arr[l] => i = l
  BY DEF Distinct, n
<1>6. hole \in 0 .. n - 1
  BY DEF n
<1>7. Distinct(new)
  <2> SUFFICES ASSUME NEW i \in 1 .. n - 1, NEW l \in 1 .. n - 1, new[i] = new[l]
               PROVE  i = l
    BY <1>3 DEF Distinct
  <2>1. i \in 1 .. n /\ l \in 1 .. n /\ n \in 1 .. n /\ i # n /\ l # n
    BY <1>1
  <2> QED  BY <1>4, <1>5, <2>1
<1>8. KeysIn(arr) = {arr[i] : i \in 1 .. n} /\ KeysIn(new) = {new[i] : i \in 1 .. n - 1}
  BY <1>3 DEF KeysIn, n
<1>9. ASSUME NEW i \in 1 .. n - 1
      PROVE  new[i] \in KeysIn(arr) /\ new[i] # arr[hole + 1]
  <2>1. i \in 1 .. n /\ n \in 1 .. n /\ hole + 1 \in 1 .. n /\ i # n
    BY <1>1, <1>6
  <2> QED  BY <1>4, <1>5, <1>8, <2>1
<1>10. ASSUME NEW i \in 1 .. n, arr[i] # arr[hole + 1]
       PROVE  \E l \in 1 .. n - 1 : new[l] = arr[i]
  <2>1. CASE i = n
    <3>1. hole + 1 \in 1 .. n - 1
      BY <1>1, <1>6, <1>10, <2>1
    <3> QED  BY <1>4, <2>1, <3>1
  <2>2. CASE i # n
    <3>1. i \in 1 .. n - 1 /\ i # hole + 1
      BY <1>1, <1>10, <2>2
    <3> QED  BY <1>4, <3>1
  <2> QED  BY <2>1, <2>2
<1>11. KeysIn(new) = KeysIn(arr) \ {arr[hole + 1]}
  BY <1>8, <1>9, <1>10
<1>12. \A i \in 1 .. Len(new) : new[i] = IF i = hole + 1 THEN arr[n] ELSE arr[i]
  BY <1>3, <1>4
<1> QED  BY <1>3, <1>7, <1>11, <1>12 DEF new, n

\* A slot in use becomes a tombstone: all others are found as before.
LEMMA MarkedIs ==
  ASSUME NEW arr \in Seq(Keys), NEW ix, IndexOf(ix, arr),
         NEW s \in 0 .. ix.slot_count - 1, InUse(ix.slot[s])
  PROVE  LET marked == [ix EXCEPT !.slot[s] = DELETED, !.used_count = @ - 1,
                                  !.tombstone_count = @ + 1]
         IN  /\ DOMAIN marked =
                  {"slot_count", "used_count", "tombstone_count", "slot"}
             /\ marked.slot_count = ix.slot_count
             /\ marked.slot = [ix.slot EXCEPT ![s] = DELETED]
             /\ SlotsAreRight(marked.slot, ix.slot_count)
             /\ marked.used_count = Len(arr) - 1
             /\ marked.tombstone_count = Cardinality(Deleteds(marked))
<1> DEFINE n == ix.slot_count
           sl == ix.slot
           msl == [sl EXCEPT ![s] = DELETED]
           marked == [ix EXCEPT !.slot[s] = DELETED, !.used_count = @ - 1,
                                !.tombstone_count = @ + 1]
<1>1. /\ DOMAIN marked = {"slot_count", "used_count", "tombstone_count", "slot"}
      /\ marked.slot_count = n /\ marked.used_count = ix.used_count - 1
      /\ marked.tombstone_count = ix.tombstone_count + 1 /\ marked.slot = msl
  <2>1. DOMAIN ix = {"slot_count", "used_count", "tombstone_count", "slot"}
    BY DEF IndexOf
  <2> QED  BY <2>1
<1> HIDE DEF marked
<1>2. /\ n \in Nat /\ SlotsAreRight(sl, n) /\ sl \in [0 .. n - 1 -> SlotType]
      /\ ix.used_count = Len(arr) /\ ix.tombstone_count = Cardinality(Deleteds(ix))
  BY DEF IndexOf, SlotsAreRight
<1>3. /\ msl \in [0 .. n - 1 -> SlotType] /\ msl[s] = DELETED
      /\ \A u \in 0 .. n - 1 : u # s => msl[u] = sl[u]
  BY <1>2 DEF SlotType, DELETED
<1> HIDE DEF msl
<1>4. Empties(msl) \subseteq Empties(sl)
  BY <1>2, <1>3 DEF Empties, EMPTY, DELETED
<1>5. SlotsAreRight(msl, n)
  <2>1. \A u \in 0 .. n - 1 : /\ msl[u].hash = 0 <=> msl[u].index = -1
                              /\ msl[u].hash = 1 <=> msl[u].index = -2
    <3> SUFFICES ASSUME NEW u \in 0 .. n - 1
                 PROVE  /\ msl[u].hash = 0 <=> msl[u].index = -1
                        /\ msl[u].hash = 1 <=> msl[u].index = -2
      OBVIOUS
    <3>1. CASE u = s
      BY <1>3, <3>1 DEF DELETED
    <3>2. CASE u # s
      BY <1>2, <1>3, <3>2 DEF SlotsAreRight
    <3> QED  BY <3>1, <3>2
  <2>2. \A u \in 0 .. n - 1 : InUse(msl[u]) => u # s /\ msl[u] = sl[u]
    BY <1>3 DEF DELETED, InUse
  <2>3. \A t, u \in 0 .. n - 1 : InUse(msl[t]) /\ msl[t].index = msl[u].index => t = u
    <3> SUFFICES ASSUME NEW t \in 0 .. n - 1, NEW u \in 0 .. n - 1,
                        InUse(msl[t]), msl[t].index = msl[u].index
                 PROVE  t = u
      OBVIOUS
    <3>1. InUse(msl[u])
      BY DEF InUse
    <3> QED  BY <1>2, <2>2, <3>1 DEF SlotsAreRight
  <2>4. \A u \in 0 .. n - 1 : InUse(msl[u]) => Reached(msl, n, u)
    <3> SUFFICES ASSUME NEW u \in 0 .. n - 1, InUse(msl[u])
                 PROVE  Reached(msl, n, u)
      OBVIOUS
    <3>1. msl[u] = sl[u] /\ Reached(sl, n, u)
      BY <1>2, <2>2 DEF SlotsAreRight
    <3> QED  BY <1>4, <3>1 DEF Reached
  <2> QED  BY <1>3, <2>1, <2>3, <2>4 DEF SlotsAreRight
<1>6. marked.tombstone_count = Cardinality(Deleteds(marked))
  <2>1. Deleteds(ix) = {u \in 0 .. n - 1 : sl[u].index = -2}
    BY <1>2 DEF Deleteds, DELETED
  <2>2. Deleteds(marked) = {u \in 0 .. n - 1 : msl[u].index = -2}
    BY <1>1, <1>3 DEF Deleteds, DELETED
  <2>3. Deleteds(marked) = Deleteds(ix) \cup {s} /\ s \notin Deleteds(ix)
    BY <1>3, <2>1, <2>2 DEF DELETED, InUse
  <2>4. IsFiniteSet(Deleteds(ix)) /\ Cardinality(Deleteds(ix)) \in Nat
    BY SlotKinds, FS_CardinalityType
  <2> QED  BY <1>1, <1>2, <2>3, <2>4, FS_AddElement
<1> QED  BY <1>1, <1>2, <1>5, <1>6 DEF marked, msl

\* After the last key has moved into the hole, its slot is still found, and is
\* the only one that holds it.
LEMMA LastFound ==
  ASSUME NEW arr \in Seq(Keys), Distinct(arr), NEW ix, IndexOf(ix, arr),
         NEW s \in 0 .. ix.slot_count - 1, InUse(ix.slot[s]),
         ix.slot[s].index # Len(arr) - 1,
         NEW u \in 0 .. ix.slot_count - 1, ix.slot[u].index = Len(arr) - 1
  PROVE  LET hole == ix.slot[s].index
             moved == [arr EXCEPT ![hole + 1] = arr[Len(arr)]]
             marked == [ix EXCEPT !.slot[s] = DELETED, !.used_count = @ - 1,
                                  !.tombstone_count = @ + 1]
         IN  Min(find_slot(moved, marked, moved[hole + 1])) = u
<1> DEFINE n == ix.slot_count
           sl == ix.slot
           hole == sl[s].index
           last == Len(arr) - 1
           moved == [arr EXCEPT ![hole + 1] = arr[Len(arr)]]
           marked == [ix EXCEPT !.slot[s] = DELETED, !.used_count = @ - 1,
                                !.tombstone_count = @ + 1]
           msl == marked.slot
           k == arr[Len(arr)]
<1>1. /\ n \in Nat /\ IndexSize(n) /\ SlotsAreRight(sl, n) /\ PointsAt(sl, n, arr)
      /\ sl \in [0 .. n - 1 -> SlotType]
  BY DEF IndexOf, SlotsAreRight
<1>2. hole \in 0 .. last /\ hole # last /\ last \in Nat /\ last + 1 = Len(arr)
  <2>1. sl[s] \in SlotType /\ hole < Len(arr)
    BY <1>1 DEF PointsAt
  <2> QED  BY <2>1 DEF SlotType, InUse
<1>3. k \in Keys
  BY <1>2
<1>4. /\ Len(moved) = Len(arr) /\ moved[hole + 1] = k
      /\ \A i \in 1 .. Len(arr) : i # hole + 1 => moved[i] = arr[i]
  BY <1>2
<1>5. marked.slot_count = n /\ SlotsAreRight(msl, n) /\ msl = [sl EXCEPT ![s] = DELETED]
  BY MarkedIs
<1> HIDE DEF moved, marked
<1>6. /\ msl[s] = DELETED /\ DOMAIN msl = 0 .. n - 1
      /\ \A x \in 0 .. n - 1 : x # s => msl[x] = sl[x]
  BY <1>1, <1>5
<1>7. u # s /\ InUse(sl[u])
  BY <1>2 DEF InUse
<1>8. ASSUME NEW x \in Matching(moved, marked, k)
      PROVE  x = u
  <2>1. /\ x \in 0 .. n - 1 /\ InUse(msl[x]) /\ msl[x].index < Len(arr)
        /\ moved[msl[x].index + 1] = k
    BY <1>4, <1>6 DEF Matching, InUses
  <2>2. x # s /\ msl[x] = sl[x]
    BY <1>6, <2>1 DEF DELETED, InUse
  <2> DEFINE i == sl[x].index
  <2>3. i \in Nat /\ i + 1 \in 1 .. Len(arr) /\ moved[i + 1] = k
    BY <1>1, <2>1, <2>2 DEF SlotType, InUse
  <2>4. i # hole
    BY <1>1, <2>1, <2>2 DEF SlotsAreRight
  <2> HIDE DEF i
  <2>5. arr[i + 1] = k
    BY <1>2, <1>4, <2>3, <2>4
  <2>6. Len(arr) \in 1 .. Len(arr)
    BY <1>2
  <2>7. i = last
    <3>1. i + 1 = Len(arr)
      BY <2>3, <2>5, <2>6 DEF Distinct
    <3> HIDE DEF last, hole
    <3> QED  BY <1>2, <2>3, <3>1
  <2> QED  BY <1>1, <2>1, <2>2, <2>7 DEF SlotsAreRight, i
<1>9. u \in Matching(moved, marked, k)
  <2>1. msl[u] = sl[u]
    BY <1>6, <1>7
  <2>2. sl[u].hash = hash(k)
    BY <1>1, <1>2, <1>7 DEF PointsAt
  <2>3. moved[last + 1] = k
    BY <1>2, <1>4
  <2> QED  BY <1>2, <1>4, <1>6, <1>7, <2>1, <2>2, <2>3 DEF Matching, InUses
<1>10. Matching(moved, marked, k) = {u}
  BY <1>8, <1>9
<1>11. find_slot(moved, marked, k) = {u}
  BY <1>1, <1>3, <1>5, <1>10, FoundIs
<1>12. Min({u}) = u
  <2>1. {u} \in SUBSET Nat /\ {u} # {}
    BY <1>1
  <2> QED  BY <2>1, MinIs
<1> QED  BY <1>4, <1>11, <1>12 DEF moved, marked

\* The slot of the key that fills the hole points at it again.
LEMMA PointedToIs ==
  ASSUME NEW arr \in Seq(Keys), Distinct(arr), NEW ix, IndexOf(ix, arr),
         NEW s \in 0 .. ix.slot_count - 1, InUse(ix.slot[s])
  PROVE  LET hole == ix.slot[s].index
             moved == [arr EXCEPT ![hole + 1] = arr[Len(arr)]]
             marked == [ix EXCEPT !.slot[s] = DELETED, !.used_count = @ - 1,
                                  !.tombstone_count = @ + 1]
             new == PointedTo(moved, marked, Len(arr) - 1, hole)
         IN  /\ hole \in 0 .. Len(arr) - 1
             /\ IndexOf(new, Filled(arr, hole))
             /\ new.slot_count = ix.slot_count
<1> DEFINE n == ix.slot_count
           sl == ix.slot
           hole == sl[s].index
           last == Len(arr) - 1
           moved == [arr EXCEPT ![hole + 1] = arr[Len(arr)]]
           marked == [ix EXCEPT !.slot[s] = DELETED, !.used_count = @ - 1,
                                !.tombstone_count = @ + 1]
           msl == [sl EXCEPT ![s] = DELETED]
           narr == Filled(arr, hole)
           new == PointedTo(moved, marked, last, hole)
<1>1. /\ n \in Nat /\ IndexSize(n) /\ SlotsAreRight(sl, n) /\ PointsAt(sl, n, arr)
      /\ sl \in [0 .. n - 1 -> SlotType]
  BY DEF IndexOf, SlotsAreRight
<1>2. hole \in 0 .. last /\ last \in Nat /\ last + 1 = Len(arr)
  <2>1. sl[s] \in SlotType /\ hole < Len(arr)
    BY <1>1 DEF PointsAt
  <2> QED  BY <2>1 DEF SlotType, InUse
<1>3. /\ DOMAIN marked = {"slot_count", "used_count", "tombstone_count", "slot"}
      /\ marked.slot_count = n /\ marked.slot = msl /\ SlotsAreRight(msl, n)
      /\ marked.used_count = last
      /\ marked.tombstone_count = Cardinality(Deleteds(marked))
  BY MarkedIs
<1>4. /\ msl[s] = DELETED /\ msl \in [0 .. n - 1 -> SlotType]
      /\ \A x \in 0 .. n - 1 : x # s => msl[x] = sl[x]
  BY <1>1, <1>3 DEF SlotsAreRight
<1>5. /\ narr \in Seq(Keys) /\ Len(narr) = last
      /\ \A i \in 1 .. last : narr[i] = IF i = hole + 1 THEN arr[Len(arr)] ELSE arr[i]
  BY <1>2, FilledIs
<1>6. ASSUME NEW x \in 0 .. n - 1, InUse(msl[x])
      PROVE  /\ x # s /\ msl[x] = sl[x] /\ msl[x].index \in 0 .. last
             /\ msl[x].index # hole
             /\ msl[x].hash = hash(arr[msl[x].index + 1])
  <2>1. x # s /\ msl[x] = sl[x]
    BY <1>4, <1>6 DEF DELETED, InUse
  <2>2. msl[x].index < Len(arr) /\ msl[x].hash = hash(arr[msl[x].index + 1])
    BY <1>1, <1>6, <2>1 DEF PointsAt
  <2>3. msl[x].index \in Nat
    <3>1. msl[x] \in SlotType
      BY <1>4
    <3> HIDE DEF msl
    <3> QED  BY <1>6, <3>1 DEF SlotType, InUse
  <2>4. msl[x].index # hole
    BY <1>1, <1>6, <2>1 DEF SlotsAreRight
  <2> QED  BY <1>2, <2>1, <2>2, <2>3, <2>4
<1> HIDE DEF marked, msl, narr
<1>7. CASE hole = last
  <2>1. new = marked
    BY <1>7 DEF PointedTo
  <2>2. PointsAt(msl, n, narr)
    <3>1. ASSUME NEW x \in 0 .. n - 1, InUse(msl[x])
          PROVE  msl[x].index < Len(narr) /\ msl[x].hash = hash(narr[msl[x].index + 1])
      <4> DEFINE i == msl[x].index
      <4>1. i \in 0 .. last /\ i # last /\ msl[x].hash = hash(arr[i + 1])
        BY <1>6, <1>7, <3>1
      <4> HIDE DEF i
      <4>2. i < Len(narr) /\ narr[i + 1] = arr[i + 1]
        <5> HIDE DEF hole, last
        <5> QED  BY <1>2, <1>5, <1>7, <4>1
      <4> QED  BY <4>1, <4>2 DEF i
    <3>2. ASSUME NEW i \in 1 .. Len(narr)
          PROVE  \E x \in 0 .. n - 1 : msl[x].index = i - 1
      <4>1. i \in 1 .. Len(arr) /\ i - 1 # hole
        <5> HIDE DEF hole, last
        <5> QED  BY <1>2, <1>5, <1>7
      <4>2. PICK x \in 0 .. n - 1 : sl[x].index = i - 1
        BY <1>1, <4>1 DEF PointsAt
      <4>3. x # s
        BY <4>1, <4>2
      <4> QED  BY <1>4, <4>2, <4>3
    <3> QED  BY <3>1, <3>2 DEF PointsAt
  <2>3. IndexOf(new, narr) /\ new.slot_count = n
    BY <1>1, <1>3, <1>5, <2>1, <2>2 DEF IndexOf
  <2> QED  BY <1>2, <2>3 DEF marked, narr
<1>8. CASE hole # last
  <2>1. PICK u \in 0 .. n - 1 : sl[u].index = last
    <3>1. Len(arr) \in 1 .. Len(arr)
      BY <1>2
    <3> QED  BY <1>1, <3>1 DEF PointsAt
  <2>2. Min(find_slot(moved, marked, moved[hole + 1])) = u
    BY <1>8, <2>1, LastFound DEF marked
  <2> DEFINE nsl == [msl EXCEPT ![u].index = hole]
  <2>3. /\ DOMAIN new = {"slot_count", "used_count", "tombstone_count", "slot"}
        /\ new.slot_count = n /\ new.used_count = last
        /\ new.tombstone_count = marked.tombstone_count /\ new.slot = nsl
    <3>1. new = [marked EXCEPT !.slot[u].index = hole]
      BY <1>8, <2>2 DEF PointedTo
    <3> HIDE DEF hole, last, new
    <3> QED  BY <1>3, <3>1
  <2>4. u # s /\ InUse(sl[u]) /\ msl[u] = sl[u]
    BY <1>2, <1>4, <1>8, <2>1 DEF InUse
  <2> HIDE DEF new
  <2>5. /\ nsl[u].hash = sl[u].hash /\ nsl[u].index = hole
        /\ nsl \in [0 .. n - 1 -> SlotType]
        /\ \A x \in 0 .. n - 1 : x # u => nsl[x] = msl[x]
    <3>1. nsl[u] = [msl[u] EXCEPT !.index = hole]
      BY <1>4
    <3>2. msl[u] \in SlotType /\ hole \in Nat
      BY <1>2, <1>4
    <3>3. /\ nsl[u] \in SlotType /\ nsl[u].hash = msl[u].hash
          /\ nsl[u].index = hole
      <4> HIDE DEF nsl, hole
      <4> QED  BY <3>1, <3>2 DEF SlotType
    <3>4. \A x \in 0 .. n - 1 : x # u => nsl[x] = msl[x]
      BY <1>4
    <3>5. DOMAIN nsl = 0 .. n - 1 /\ nsl = [x \in 0 .. n - 1 |-> nsl[x]]
      BY <1>4
    <3>6. \A x \in 0 .. n - 1 : nsl[x] \in SlotType
      <4> HIDE DEF nsl
      <4> QED  BY <1>4, <3>3, <3>4
    <3> HIDE DEF nsl
    <3> QED  BY <2>4, <3>3, <3>4, <3>5, <3>6
  <2> HIDE DEF nsl
  <2>6. \A x \in 0 .. n - 1 : InUse(nsl[x]) <=> InUse(msl[x])
    BY <1>2, <2>4, <2>5 DEF InUse
  <2>7. \A x \in 0 .. n - 1 : nsl[x].hash = msl[x].hash
    BY <2>4, <2>5
  <2>8. Empties(nsl) = Empties(msl)
    BY <1>4, <2>5, <2>7 DEF Empties
  <2>9. SlotsAreRight(nsl, n)
    <3>1. ASSUME NEW x \in 0 .. n - 1
          PROVE  /\ nsl[x].hash = 0 <=> nsl[x].index = -1
                 /\ nsl[x].hash = 1 <=> nsl[x].index = -2
      <4>1. CASE x = u
        BY <1>2, <2>1, <2>4, <2>5, <1>1, <4>1 DEF SlotsAreRight
      <4>2. CASE x # u
        BY <1>3, <2>5, <4>2 DEF SlotsAreRight
      <4> QED  BY <4>1, <4>2
    <3>2. ASSUME NEW x \in 0 .. n - 1, NEW y \in 0 .. n - 1,
                 InUse(nsl[x]), nsl[x].index = nsl[y].index
          PROVE  x = y
      <4>1. InUse(nsl[y]) /\ InUse(msl[x]) /\ InUse(msl[y])
        BY <2>6, <3>2 DEF InUse
      <4>2. msl[x].index # hole /\ msl[y].index # hole
        BY <1>6, <4>1
      <4>3. CASE x = u \/ y = u
        BY <2>5, <3>2, <4>2, <4>3
      <4>4. CASE x # u /\ y # u
        BY <1>3, <2>5, <3>2, <4>1, <4>4 DEF SlotsAreRight
      <4> QED  BY <4>3, <4>4
    <3>3. ASSUME NEW x \in 0 .. n - 1, InUse(nsl[x])
          PROVE  Reached(nsl, n, x)
      <4>1. Reached(msl, n, x)
        BY <1>3, <2>6, <3>3 DEF SlotsAreRight
      <4> QED  BY <2>7, <2>8, <4>1 DEF Reached
    <3> QED  BY <2>5, <3>1, <3>2, <3>3 DEF SlotsAreRight
  <2>10. PointsAt(nsl, n, narr)
    <3>1. ASSUME NEW x \in 0 .. n - 1, InUse(nsl[x])
          PROVE  nsl[x].index < Len(narr) /\ nsl[x].hash = hash(narr[nsl[x].index + 1])
      <4>1. CASE x = u
        <5>1. sl[u].hash = hash(arr[Len(arr)])
          BY <1>1, <1>2, <2>1, <2>4 DEF PointsAt
        <5>2. narr[hole + 1] = arr[Len(arr)] /\ hole < Len(narr)
          BY <1>2, <1>5, <1>8
        <5> QED  BY <2>5, <4>1, <5>1, <5>2
      <4>2. CASE x # u
        <5> DEFINE i == msl[x].index
        <5>1. /\ i \in 0 .. last /\ i # hole /\ msl[x].hash = hash(arr[i + 1])
              /\ msl[x] = sl[x] /\ InUse(msl[x])
          BY <1>6, <2>6, <3>1
        <5>2. i # last
          BY <1>1, <2>1, <4>2, <5>1 DEF SlotsAreRight
        <5>3. nsl[x] = msl[x]
          BY <2>5, <4>2
        <5> HIDE DEF i
        <5>4. i < Len(narr) /\ narr[i + 1] = arr[i + 1]
          <6> HIDE DEF hole, last
          <6> QED  BY <1>2, <1>5, <5>1, <5>2
        <5> QED  BY <5>1, <5>3, <5>4 DEF i
      <4> QED  BY <4>1, <4>2
    <3>2. ASSUME NEW i \in 1 .. Len(narr)
          PROVE  \E x \in 0 .. n - 1 : nsl[x].index = i - 1
      <4>1. CASE i - 1 = hole
        BY <2>5, <4>1
      <4>2. CASE i - 1 # hole
        <5>1. i \in 1 .. Len(arr) /\ i - 1 # last
          <6> HIDE DEF hole, last
          <6> QED  BY <1>2, <1>5
        <5>2. PICK x \in 0 .. n - 1 : sl[x].index = i - 1
          BY <1>1, <5>1 DEF PointsAt
        <5>3. x # s /\ x # u
          BY <2>1, <4>2, <5>1, <5>2
        <5> QED  BY <1>4, <2>5, <5>2, <5>3
      <4> QED  BY <4>1, <4>2
    <3> QED  BY <3>1, <3>2 DEF PointsAt
  <2>11. Deleteds(new) = Deleteds(marked)
    <3>1. /\ Deleteds(new) = {x \in 0 .. n - 1 : nsl[x].index = -2}
          /\ Deleteds(marked) = {x \in 0 .. n - 1 : msl[x].index = -2}
      BY <1>3, <1>4, <2>3, <2>5 DEF Deleteds, DELETED
    <3>2. nsl[u].index # -2 /\ msl[u].index # -2
      BY <1>2, <2>1, <2>4, <2>5
    <3> QED  BY <2>5, <3>1, <3>2
  <2>12. IndexOf(new, narr) /\ new.slot_count = n
    BY <1>1, <1>3, <1>5, <2>3, <2>9, <2>10, <2>11 DEF IndexOf
  <2> QED  BY <1>2, <2>12 DEF marked, narr, new
<1> QED  BY <1>7, <1>8

\* The thresholds allow for the halved index and for the one of the same size.
LEMMA TidiedIs ==
  ASSUME NEW arr \in Seq(Keys), NEW ix, IndexOf(ix, arr),
         ix.used_count <= used_count_threshold(ix.slot_count)
  PROVE  IndexOf(Tidied(ix), arr) /\ WithinThresholds(Tidied(ix))
<1> DEFINE n == ix.slot_count
           m == Len(arr)
           new == Tidied(ix)
<1>1. /\ n \in Nat /\ IndexSize(n) /\ ix.used_count = m /\ m \in Nat /\ n >= 4
      /\ n >= BUCKET_LENGTH /\ BUCKET_LENGTH \in Nat
      /\ n > BUCKET_LENGTH => n \div 2 \in Nat /\ IndexSize(n \div 2) /\ n = 2 * (n \div 2)
  <2>1. n \in Nat /\ IndexSize(n) /\ ix.used_count = m /\ m \in Nat
    BY DEF IndexOf
  <2> HIDE DEF n, m
  <2> QED  BY <2>1, Sizes
<1> HIDE DEF m
<1>2. m <= (n * 14) \div 16
  BY <1>1 DEF used_count_threshold
<1>3. CASE /\ m < used_count_shrink_threshold(n)
           /\ n > BUCKET_LENGTH
  <2> DEFINE h == n \div 2
  <2>1. h \in Nat /\ IndexSize(h) /\ n = 2 * h /\ new = make_hash_index(h, ix)
    BY <1>1, <1>3 DEF Tidied
  <2> HIDE DEF n, h, new
  <2>2. m < (n * 6) \div 16
    BY <1>1, <1>3 DEF used_count_shrink_threshold
  <2>3. m < h /\ m <= (h * 14) \div 16
    BY <1>1, <2>1, <2>2
  <2>4. /\ IndexOf(new, arr) /\ new.slot_count = h
        /\ new.used_count = m /\ new.tombstone_count = 0
    BY <2>1, <2>3, Rebuilt DEF m
  <2> QED  BY <2>1, <2>3, <2>4
           DEF new, WithinThresholds, used_count_threshold, tombstone_count_threshold
<1>4. CASE /\ ~(m < used_count_shrink_threshold(n) /\ n > BUCKET_LENGTH)
           /\ ix.tombstone_count > tombstone_count_threshold(n)
  <2>1. new = make_hash_index(n, ix)
    BY <1>1, <1>4 DEF Tidied
  <2>2. n \in Nat /\ IndexSize(n) /\ m < n
    BY <1>1, <1>2
  <2> HIDE DEF n, new
  <2>3. /\ IndexOf(new, arr) /\ new.slot_count = n
        /\ new.used_count = m /\ new.tombstone_count = 0
    BY <2>1, <2>2, Rebuilt DEF m
  <2> QED  BY <1>1, <1>2, <2>3
           DEF new, WithinThresholds, used_count_threshold, tombstone_count_threshold
<1>5. CASE /\ ~(m < used_count_shrink_threshold(n) /\ n > BUCKET_LENGTH)
           /\ ~(ix.tombstone_count > tombstone_count_threshold(n))
  <2>1. new = ix
    BY <1>1, <1>5 DEF Tidied
  <2>2. ix.tombstone_count \in Nat
    <3>1. IsFiniteSet(Deleteds(ix))
      BY SlotKinds
    <3> QED  BY <3>1, FS_CardinalityType DEF IndexOf
  <2>3. ix.tombstone_count <= tombstone_count_threshold(n)
    BY <1>1, <1>5, <2>2 DEF tombstone_count_threshold
  <2> QED  BY <2>1, <2>3 DEF WithinThresholds
<1> QED  BY <1>3, <1>4, <1>5

-----------------------------------------------------------------------------
(* The operations.                                                         *)

\* What find_slot finds, when there is an index and when there is none.
LEMMA LookedUp ==
  ASSUME NEW arr \in Seq(Keys), Distinct(arr), NEW ix, NEW k \in Keys,
         \/ ix = NoIndex /\ arr = <<>>
         \/ IndexOf(ix, arr)
  PROVE  /\ find_slot(arr, ix, k) = {} <=> k \notin KeysIn(arr)
         /\ k \in KeysIn(arr) =>
              LET s == Min(find_slot(arr, ix, k))
              IN  /\ find_slot(arr, ix, k) = {s} /\ IndexOf(ix, arr)
                  /\ s \in 0 .. ix.slot_count - 1 /\ InUse(ix.slot[s])
                  /\ ix.slot[s].index \in 0 .. Len(arr) - 1
                  /\ arr[ix.slot[s].index + 1] = k
<1>1. CASE ix = NoIndex /\ arr = <<>>
  BY <1>1 DEF find_slot, KeysIn
<1>2. CASE IndexOf(ix, arr)
  <2> DEFINE M == find_slot(arr, ix, k)
  <2>1. /\ M = Matching(arr, ix, k)
        /\ \A s, u \in M : s = u
        /\ \A s \in M : /\ s \in 0 .. ix.slot_count - 1
                        /\ ix.slot[s].index \in 0 .. Len(arr) - 1
                        /\ arr[ix.slot[s].index + 1] = k
        /\ M # {} <=> \E i \in 1 .. Len(arr) : arr[i] = k
    BY <1>2, FindIs, MatchingIs
  <2> HIDE DEF M
  <2>2. M # {} <=> k \in KeysIn(arr)
    BY <2>1 DEF KeysIn
  <2>3. ASSUME NEW s \in M
        PROVE  M = {s} /\ Min(M) = s /\ InUse(ix.slot[s])
    <3>1. M = {s}
      BY <2>1
    <3>2. s \in Nat
      BY <2>1
    <3>3. Min({s}) = s
      <4>1. {s} \in SUBSET Nat /\ {s} # {}
        BY <3>2
      <4> QED  BY <4>1, MinIs
    <3>4. InUse(ix.slot[s])
      BY <2>1 DEF InUse
    <3> QED  BY <3>1, <3>3, <3>4
  <2> QED  BY <1>2, <2>1, <2>2, <2>3 DEF M
<1> QED  BY <1>1, <1>2

\* hmgeti, hmput and hmdel: each keeps the invariant and does to the keys what
\* its name says.
LEMMA FindStep ==
  ASSUME IInv, find
  PROVE  /\ IInv'
         /\ key \in Keys /\ made /\ UNCHANGED array
         /\ key \notin KeysIn(array) => itr' = -1
         /\ key \in KeysIn(array) => itr' \in 0 .. Len(array) - 1 /\ array[itr' + 1] = key
<1>1. /\ array \in Seq(Keys) /\ Distinct(array) /\ key \in Keys /\ made
      /\ \/ index = NoIndex /\ array = <<>>
         \/ IndexOf(index, array)
  BY DEF IInv, Indexed, Control, find
<1>2. /\ key \notin KeysIn(array) => itr' = -1
      /\ key \in KeysIn(array) => itr' \in 0 .. Len(array) - 1 /\ array[itr' + 1] = key
  <2>1. CASE key \notin KeysIn(array)
    BY <1>1, <2>1, LookedUp DEF find
  <2>2. CASE key \in KeysIn(array)
    <3> DEFINE s == Min(find_slot(array, index, key))
    <3>1. /\ find_slot(array, index, key) # {}
          /\ index.slot[s].index \in 0 .. Len(array) - 1
          /\ array[index.slot[s].index + 1] = key
      BY <1>1, <2>2, LookedUp
    <3>2. itr' = index.slot[s].index
      BY <3>1 DEF find
    <3> QED  BY <2>2, <3>1, <3>2
  <2> QED  BY <2>1, <2>2
<1>3. UNCHANGED <<made, array, index>> /\ allocated' = TRUE
      /\ pc' = "idle" /\ key' = NoKey
  BY DEF find, Return
<1>4. Control'
  <2>1. itr' \in -1 .. Len(array')
    BY <1>1, <1>2, <1>3
  <2> QED  BY <1>1, <1>3, <2>1 DEF IInv, Control
<1>5. IInv'
  BY <1>3, <1>4 DEF IInv, Indexed
<1> QED  BY <1>1, <1>2, <1>3, <1>5

LEMMA InsertStep ==
  ASSUME IInv, insert
  PROVE  /\ IInv'
         /\ key \in Keys /\ made /\ itr = -1 /\ UNCHANGED <<made, itr>>
         /\ KeysIn(array') = KeysIn(array) \cup {key}
<1> DEFINE ix == Grown(index)
<1>1. /\ array \in Seq(Keys) /\ Distinct(array) /\ key \in Keys /\ made /\ itr = -1
      /\ \/ index = NoIndex /\ array = <<>>
         \/ IndexOf(index, array) /\ WithinThresholds(index)
  BY DEF IInv, Indexed, Control, insert
<1>2. /\ IndexOf(ix, array) /\ WithinThresholds(ix)
      /\ ix.used_count < used_count_threshold(ix.slot_count)
      /\ Empties(ix.slot) # {}
  BY <1>1, GrownIs
<1>3. find_slot(array, ix, key) = {} <=> key \notin KeysIn(array)
  BY <1>1, <1>2, LookedUp
<1>4. /\ array' \in Seq(Keys) /\ Distinct(array')
      /\ IndexOf(index', array') /\ WithinThresholds(index')
      /\ KeysIn(array') = KeysIn(array) \cup {key}
  <2>1. CASE key \in KeysIn(array)
    <3>1. index' = ix /\ array' = array
      BY <1>3, <2>1 DEF insert
    <3> HIDE DEF ix
    <3> QED  BY <1>1, <1>2, <2>1, <3>1
  <2>2. CASE key \notin KeysIn(array)
    <3> DEFINE slot == NewSlot(ix, key)
               new == [ix EXCEPT
                        !.slot[slot] = [hash |-> hash(key), index |-> Len(array)],
                        !.used_count = @ + 1,
                        !.tombstone_count = IF slot \in Deleteds(ix) THEN @ - 1
                                                                     ELSE @]
    <3>1. array' = Append(array, key) /\ index' = new
      BY <1>3, <2>2 DEF insert
    <3>2. \A i \in 1 .. Len(array) : array[i] # key
      BY <2>2 DEF KeysIn
    <3> HIDE DEF ix
    <3>3. /\ IndexOf(new, Append(array, key)) /\ WithinThresholds(new)
          /\ Append(array, key) \in Seq(Keys) /\ Distinct(Append(array, key))
      BY <1>1, <1>2, <3>2, Inserted
    <3>4. KeysIn(Append(array, key)) = KeysIn(array) \cup {key}
      <4> DEFINE a == Append(array, key)
      <4>1. /\ Len(a) = Len(array) + 1 /\ a[Len(array) + 1] = key
            /\ \A i \in 1 .. Len(array) : a[i] = array[i]
        BY <1>1
      <4>2. 1 .. Len(a) = (1 .. Len(array)) \cup {Len(array) + 1}
        BY <1>1, <4>1
      <4> HIDE DEF a
      <4>3. KeysIn(a) = KeysIn(array) \cup {key}
        BY <4>1, <4>2 DEF KeysIn
      <4> QED  BY <4>3 DEF a
    <3> HIDE DEF new
    <3> QED  BY <3>1, <3>3, <3>4
  <2> QED  BY <2>1, <2>2
<1>5. UNCHANGED <<made, itr>> /\ allocated' = TRUE /\ pc' = "idle" /\ key' = NoKey
  BY DEF insert, Return
<1>6. Control'
  <2>1. itr' \in -1 .. Len(array')
    BY <1>1, <1>4, <1>5
  <2> QED  BY <1>1, <1>5, <2>1 DEF IInv, Control
<1>7. IInv'
  BY <1>4, <1>6 DEF IInv, Indexed
<1> QED  BY <1>1, <1>4, <1>5, <1>7

LEMMA EraseStep ==
  ASSUME IInv, erase
  PROVE  /\ IInv'
         /\ key \in Keys /\ made /\ itr = -1 /\ UNCHANGED <<made, itr>>
         /\ KeysIn(array') = KeysIn(array) \ {key}
<1>1. /\ array \in Seq(Keys) /\ Distinct(array) /\ key \in Keys /\ made /\ itr = -1
      /\ \/ index = NoIndex /\ array = <<>>
         \/ IndexOf(index, array) /\ WithinThresholds(index)
  BY DEF IInv, Indexed, Control, erase
<1>2. UNCHANGED <<made, allocated, itr>> /\ pc' = "idle" /\ key' = NoKey
  BY DEF erase, Return
<1>3. CASE key \notin KeysIn(array)
  <2>1. UNCHANGED <<array, index>>
    BY <1>1, <1>3, LookedUp DEF erase
  <2>2. IInv'
    BY <1>1, <1>2, <2>1 DEF IInv, Control, Indexed
  <2> QED  BY <1>1, <1>2, <1>3, <2>1, <2>2
<1>4. CASE key \in KeysIn(array)
  <2> DEFINE s == Min(find_slot(array, index, key))
             hole == index.slot[s].index
             last == Len(array) - 1
             marked == [index EXCEPT !.slot[s] = DELETED, !.used_count = @ - 1,
                                     !.tombstone_count = @ + 1]
             moved == [array EXCEPT ![hole + 1] = array[last + 1]]
             ix == PointedTo(moved, marked, last, hole)
  <2>1. /\ find_slot(array, index, key) # {} /\ IndexOf(index, array)
        /\ s \in 0 .. index.slot_count - 1 /\ InUse(index.slot[s])
        /\ hole \in 0 .. Len(array) - 1 /\ array[hole + 1] = key
    BY <1>1, <1>4, LookedUp
  <2>2. array' = Front(moved) /\ index' = Tidied(ix)
    BY <2>1 DEF erase
  <2> HIDE DEF s
  <2>3. last + 1 = Len(array)
    BY <1>1
  <2>4. array' = Filled(array, hole)
    BY <2>2, <2>3 DEF Filled
  <2>5. IndexOf(ix, Filled(array, hole)) /\ ix.slot_count = index.slot_count
    <3>1. moved = [array EXCEPT ![hole + 1] = array[Len(array)]]
      BY <2>3
    <3> DEFINE filled == [array EXCEPT ![hole + 1] = array[Len(array)]]
    <3>2. LET new == PointedTo(filled, marked, Len(array) - 1, hole)
          IN  /\ IndexOf(new, Filled(array, hole))
              /\ new.slot_count = index.slot_count
      BY <1>1, <2>1, PointedToIs, Zenon
    <3>3. ix = PointedTo(filled, marked, Len(array) - 1, hole)
      BY <3>1, Zenon
    <3> HIDE DEF ix, filled, marked
    <3> QED  BY <3>2, <3>3
  <2> HIDE DEF ix, hole
  <2>6. /\ array' \in Seq(Keys) /\ Len(array') = last /\ Distinct(array')
        /\ KeysIn(array') = KeysIn(array) \ {key}
    BY <1>1, <2>1, <2>4, FilledIs
  <2>7. ix.used_count <= used_count_threshold(ix.slot_count)
    <3>1. ix.used_count = last /\ index.used_count = Len(array)
          /\ index.slot_count \in Nat
      BY <2>1, <2>4, <2>5, <2>6 DEF IndexOf
    <3>2. Len(array) <= used_count_threshold(index.slot_count)
      <4>1. array # <<>>
        BY <2>1
      <4> QED  BY <1>1, <3>1, <4>1 DEF WithinThresholds
    <3> QED  BY <1>1, <2>5, <3>1, <3>2 DEF used_count_threshold
  <2>8. IndexOf(index', array') /\ WithinThresholds(index')
    BY <2>2, <2>4, <2>5, <2>6, <2>7, TidiedIs
  <2>9. Control'
    <3>1. itr' \in -1 .. Len(array')
      BY <1>1, <1>2, <2>6
    <3>2. array # <<>>
      BY <2>1
    <3> QED  BY <1>1, <1>2, <3>1, <3>2 DEF IInv, Control
  <2>10. IInv'
    BY <2>6, <2>8, <2>9 DEF IInv, Indexed
  <2> QED  BY <1>1, <1>2, <2>6, <2>10
<1> QED  BY <1>3, <1>4

-----------------------------------------------------------------------------
(* The invariants.                                                         *)

\* The contract's iterator, at index i of an array.
ItrAt(arr, i) ==
  IF i \in 0 .. Len(arr) - 1
  THEN [here |-> {arr[i + 1]}, rest |-> {arr[l] : l \in i + 2 .. Len(arr)}]
  ELSE [here |-> {}, rest |-> {}]

\* The empty array.
LEMMA NoneIs ==
  /\ <<>> \in Seq(Keys) /\ Len(<<>>) = 0 /\ Distinct(<<>>) /\ -1 \in -1 .. Len(<<>>)
  /\ KeysIn(<<>>) = {} /\ ItrAt(<<>>, -1) = [here |-> {}, rest |-> {}]
<1>1. <<>> \in Seq(Keys) /\ Len(<<>>) = 0
  OBVIOUS
<1>2. 1 .. Len(<<>>) = {} /\ -1 \in -1 .. Len(<<>>) /\ -1 \notin 0 .. Len(<<>>) - 1
  BY <1>1
<1> QED  BY <1>1, <1>2 DEF Distinct, KeysIn, ItrAt

LEMMA IInvStep == IInv /\ [Next]_vars => IInv'
<1> SUFFICES ASSUME IInv, [Next]_vars
             PROVE  IInv'
  OBVIOUS
<1>1. CASE create_table
  BY <1>1 DEF create_table, IInv, Control, Indexed
<1>2. CASE destroy_table
  <2>1. array' = <<>> /\ index' = NoIndex
    BY <1>2 DEF destroy_table
  <2>2. array' \in Seq(Keys) /\ Distinct(array') /\ -1 \in -1 .. Len(array')
    BY <2>1, NoneIs
  <2>3. Control'
    BY <1>2, <2>1, <2>2 DEF destroy_table, Idle, IInv, Control
  <2> QED  BY <2>1, <2>2, <2>3 DEF IInv, Indexed
<1>3. ASSUME NEW op \in {"find", "insert", "erase"}, NEW k \in Keys, call(op, k)
      PROVE  IInv'
  <2>1. -1 \in -1 .. Len(array)
    BY DEF IInv
  <2> QED  BY <1>3, <2>1, StbDsAssumption DEF call, Idle, IInv, Control, Indexed
<1>4. CASE find
  BY <1>4, FindStep
<1>5. CASE insert
  BY <1>5, InsertStep
<1>6. CASE erase
  BY <1>6, EraseStep
<1>7. CASE begin_itr
  <2>1. 0 \in -1 .. Len(array)
    BY DEF IInv
  <2> QED  BY <1>7, <2>1 DEF begin_itr, Idle, IInv, Control, Indexed
<1>8. CASE increment_itr
  <2>1. itr + 1 \in -1 .. Len(array)
    BY <1>8 DEF increment_itr, is_itr_valid, IInv, Control
  <2> QED  BY <1>8, <2>1 DEF increment_itr, Idle, IInv, Control, Indexed
<1>9. CASE UNCHANGED vars
  BY <1>9 DEF vars, IInv, Control, Indexed
<1> QED  BY <1>1, <1>2, <1>3, <1>4, <1>5, <1>6, <1>7, <1>8, <1>9 DEF Next

LEMMA InitIInv == Init => IInv
<1> SUFFICES ASSUME Init
             PROVE  IInv
  OBVIOUS
<1>1. array = <<>> /\ index = NoIndex
  BY DEF Init
<1>2. array \in Seq(Keys) /\ Distinct(array) /\ -1 \in -1 .. Len(array)
  BY <1>1, NoneIs
<1>3. Control
  BY <1>1, <1>2 DEF Init, Control
<1> QED  BY <1>1, <1>2, <1>3 DEF IInv, Indexed

\* Every key of the array has one slot that points at it, no search comes to an
\* empty slot before it comes to that one, and the thresholds are kept; hmput,
\* hmdel and the rebuilding of the index keep all of this.
THEOREM Invariance == Spec => []IInv
<1> QED  BY InitIInv, IInvStep, PTL DEF Spec

\* The index always has a power of two of buckets, so that the & of the code is
\* the remainder, and its slots are what their hash code says they are.
THEOREM TypeCorrect == Spec => []TypeOK
<1>1. IInv => TypeOK
  <2> SUFFICES ASSUME IInv
               PROVE  TypeOK
    OBVIOUS
  <2>1. ASSUME index # NoIndex
        PROVE  /\ index.slot_count \in Nat /\ IndexSize(index.slot_count)
               /\ index.slot \in [0 .. index.slot_count - 1 ->
                                    [hash : Nat, index : {-1, -2} \cup Nat]]
               /\ \A s \in DOMAIN index.slot :
                    /\ index.slot[s].hash = 0 <=> index.slot[s].index = -1
                    /\ index.slot[s].hash = 1 <=> index.slot[s].index = -2
    <3>1. /\ index.slot_count \in Nat /\ IndexSize(index.slot_count)
          /\ SlotsAreRight(index.slot, index.slot_count)
      BY <2>1 DEF IInv, Indexed, IndexOf
    <3> QED  BY <3>1 DEF SlotsAreRight, SlotType
  <2> QED  BY <2>1 DEF IInv, Control, TypeOK
<1> QED  BY <1>1, Invariance, PTL

\* Whatever hmdel swapped into holes and stbds_make_hash_index copied, looking up
\* a key of the array leads to its place, and the counters that decide when to
\* grow, shrink and rebuild count the slots.
THEOREM FollowsArray == Spec => []IndexFollowsArray
<1>1. IInv => IndexFollowsArray
  <2> SUFFICES ASSUME IInv
               PROVE  IndexFollowsArray
    OBVIOUS
  <2>1. CASE index = NoIndex /\ array = <<>>
    <3>1. /\ index.slot = <<>> /\ index.used_count = 0
          /\ index.tombstone_count = 0 /\ index.slot_count = 0
      BY <2>1 DEF NoIndex
    <3>2. InUses(index) = {} /\ Deleteds(index) = {}
      BY <3>1 DEF InUses, Deleteds
    <3>3. used_count_threshold(0) = 0 /\ tombstone_count_threshold(0) = 0
      BY DEF used_count_threshold, tombstone_count_threshold
    <3> QED  BY <2>1, <3>1, <3>2, <3>3, FS_EmptySet DEF IndexFollowsArray, CountersAreRight
  <2>2. CASE IndexOf(index, array) /\ WithinThresholds(index)
    <3>1. array \in Seq(Keys) /\ Distinct(array)
      BY DEF IInv
    <3>2. CountersAreRight /\ Cardinality(InUses(index)) = Len(array)
      BY <2>2, <3>1, InUseCount DEF CountersAreRight, IndexOf, WithinThresholds
    <3>3. ASSUME NEW i \in 1 .. Len(array)
          PROVE  \E s \in find_slot(array, index, array[i]) : index.slot[s].index = i - 1
      <4> DEFINE s == Min(find_slot(array, index, array[i]))
      <4>1. array[i] \in Keys /\ array[i] \in KeysIn(array)
        BY <3>1 DEF KeysIn
      <4>2. /\ find_slot(array, index, array[i]) = {s}
            /\ index.slot[s].index \in 0 .. Len(array) - 1
            /\ array[index.slot[s].index + 1] = array[i]
        BY <2>2, <3>1, <4>1, LookedUp
      <4> DEFINE l == index.slot[s].index
      <4>3. l \in 0 .. Len(array) - 1 /\ array[l + 1] = array[i]
        BY <4>2
      <4> HIDE DEF l
      <4>4. l + 1 = i
        BY <3>1, <4>3 DEF Distinct
      <4>5. l = i - 1
        BY <4>3, <4>4
      <4> HIDE DEF s
      <4> QED  BY <4>2, <4>5 DEF l
    <3> QED  BY <3>2, <3>3 DEF IndexFollowsArray
  <2> QED  BY <2>1, <2>2 DEF IInv, Indexed
<1> QED  BY <1>1, Invariance, PTL

-----------------------------------------------------------------------------
(* The refinement.                                                         *)

\* AbstractItr, of any array and index.
LEMMA ItrIs ==
  ASSUME NEW arr \in Seq(Keys), NEW i \in -1 .. Len(arr)
  PROVE  [here |-> {arr[p + 1] : p \in {i} \cap (0 .. Len(arr) - 1)},
          rest |-> IF i # -1 /\ i < Len(arr)
                   THEN {arr[p + 1] : p \in (i + 1 .. Len(arr)) \cap (0 .. Len(arr) - 1)}
                   ELSE {}] = ItrAt(arr, i)
<1> DEFINE H == {arr[p + 1] : p \in {i} \cap (0 .. Len(arr) - 1)}
           R == {arr[p + 1] : p \in (i + 1 .. Len(arr)) \cap (0 .. Len(arr) - 1)}
<1>1. CASE i \in 0 .. Len(arr) - 1
  <2>1. H = {arr[i + 1]}
    BY <1>1
  <2>2. R = {arr[l] : l \in i + 2 .. Len(arr)}
    <3>1. ASSUME NEW p \in (i + 1 .. Len(arr)) \cap (0 .. Len(arr) - 1)
          PROVE  p + 1 \in i + 2 .. Len(arr)
      BY <1>1
    <3>2. ASSUME NEW l \in i + 2 .. Len(arr)
          PROVE  l - 1 \in (i + 1 .. Len(arr)) \cap (0 .. Len(arr) - 1) /\ (l - 1) + 1 = l
      BY <1>1
    <3> QED  BY <3>1, <3>2
  <2>3. i # -1 /\ i < Len(arr)
    BY <1>1
  <2> DEFINE T == {arr[l] : l \in i + 2 .. Len(arr)}
             h == {arr[i + 1]}
             C == i # -1 /\ i < Len(arr)
  <2>4. ItrAt(arr, i) = [here |-> h, rest |-> T]
    BY <1>1 DEF ItrAt
  <2>5. H = h /\ R = T /\ C
    BY <2>1, <2>2, <2>3
  <2> HIDE DEF H, R, T, h, C
  <2>6. [here |-> H, rest |-> IF C THEN R ELSE {}] = ItrAt(arr, i)
    BY <2>4, <2>5
  <2> QED  BY <2>6, Zenon DEF H, R, C
<1>2. CASE i \notin 0 .. Len(arr) - 1
  <2>1. H = {} /\ ~(i # -1 /\ i < Len(arr))
    BY <1>2
  <2> HIDE DEF H, R
  <2> QED  BY <1>2, <2>1 DEF ItrAt
<1> QED  BY <1>1, <1>2

LEMMA Mapped ==
  ASSUME IInv
  PROVE  AbstractItr = ItrAt(array, itr) /\ Range(array) = KeysIn(array)
<1>1. AbstractItr = ItrAt(array, itr)
  BY ItrIs DEF IInv, Control, AbstractItr, KeysOf, is_itr_valid
<1>2. Range(array) = KeysIn(array)
  BY DEF IInv, Range, KeysIn
<1> QED  BY <1>1, <1>2

LEMMA MappedNext ==
  ASSUME IInv'
  PROVE  AbstractItr' = ItrAt(array', itr') /\ Range(array)' = KeysIn(array')
<1>1. AbstractItr' = ItrAt(array', itr')
  BY ItrIs DEF IInv, Control, AbstractItr, KeysOf, is_itr_valid
<1>2. Range(array)' = KeysIn(array')
  BY DEF IInv, Range, KeysIn
<1> QED  BY <1>1, <1>2

\* The keys behind the one at index i are others.
LEMMA ItrAtIs ==
  ASSUME NEW arr \in Seq(Keys), Distinct(arr), NEW i \in 0 .. Len(arr) - 1
  PROVE  /\ ItrAt(arr, i).here = {arr[i + 1]} /\ ItrAt(arr, i).rest \in SUBSET (KeysIn(arr) \ {arr[i + 1]})
         /\ ItrAt(arr, i) = [here |-> {arr[i + 1]}, rest |-> ItrAt(arr, i).rest]
         /\ arr[i + 1] \in KeysIn(arr)
         /\ i = 0 => ItrAt(arr, i).rest = KeysIn(arr) \ {arr[i + 1]}
         /\ i = Len(arr) - 1 => ItrAt(arr, i).rest = {}
         /\ i < Len(arr) - 1 =>
              /\ arr[i + 2] \in ItrAt(arr, i).rest
              /\ ItrAt(arr, i + 1) = [here |-> {arr[i + 2]},
                                      rest |-> ItrAt(arr, i).rest \ {arr[i + 2]}]
<1> DEFINE n == Len(arr)
           Rest(m) == {arr[l] : l \in m + 2 .. n}
<1>1. n \in Nat /\ i + 1 \in 1 .. n
  OBVIOUS
<1>2. \A l, m \in 1 .. n : arr[l] = arr[m] => l = m
  BY DEF Distinct
<1>3. KeysIn(arr) = {arr[l] : l \in 1 .. n}
  BY DEF KeysIn
<1>4. ItrAt(arr, i) = [here |-> {arr[i + 1]}, rest |-> Rest(i)]
  BY Zenon DEF ItrAt
<1>5. ASSUME i < n - 1
      PROVE  ItrAt(arr, i + 1) = [here |-> {arr[i + 2]}, rest |-> Rest(i + 1)]
  <2> DEFINE j == i + 1
  <2>1. j \in 0 .. Len(arr) - 1 /\ j + 1 = i + 2
    BY <1>1, <1>5
  <2>2. ItrAt(arr, j) = [here |-> {arr[j + 1]}, rest |-> Rest(j)]
    <3> HIDE DEF j
    <3> QED  BY <2>1, Zenon DEF ItrAt
  <2> QED  BY <2>1, <2>2, Zenon
<1> HIDE DEF n
<1>6. Rest(i) \in SUBSET (KeysIn(arr) \ {arr[i + 1]})
  <2> SUFFICES ASSUME NEW l \in i + 2 .. n
               PROVE  arr[l] \in KeysIn(arr) /\ arr[l] # arr[i + 1]
    OBVIOUS
  <2>1. l \in 1 .. n /\ l # i + 1
    BY <1>1
  <2> QED  BY <1>1, <1>2, <1>3, <2>1
<1>7. i = 0 => Rest(i) = KeysIn(arr) \ {arr[i + 1]}
  <2> SUFFICES ASSUME i = 0, NEW l \in 1 .. n, arr[l] # arr[i + 1]
               PROVE  arr[l] \in Rest(i)
    BY <1>3, <1>6
  <2>1. l \in i + 2 .. n
    BY <1>1
  <2> QED  BY <2>1
<1>8. i = n - 1 => Rest(i) = {}
  BY <1>1
<1>9. ASSUME i < n - 1
      PROVE  arr[i + 2] \in Rest(i) /\ Rest(i + 1) = Rest(i) \ {arr[i + 2]}
  <2>1. i + 2 \in i + 2 .. n /\ i + 2 \in 1 .. n
    BY <1>1, <1>9
  <2>2. \A l \in i + 2 .. n : l \in 1 .. n /\ (l = i + 2 \/ l \in (i + 1) + 2 .. n)
    BY <1>1
  <2>3. \A l \in (i + 1) + 2 .. n : l \in 1 .. n /\ l # i + 2 /\ l \in i + 2 .. n
    BY <1>1
  <2> QED  BY <1>2, <2>1, <2>2, <2>3
<1> HIDE DEF Rest
<1>10. arr[i + 1] \in KeysIn(arr)
  BY <1>1, <1>3
<1> DEFINE here == ItrAt(arr, i)
<1>11. here.here = {arr[i + 1]} /\ here.rest = Rest(i)
  BY <1>4
<1>12. here = [here |-> {arr[i + 1]}, rest |-> here.rest]
  BY <1>4, <1>11, Zenon
<1>13. ASSUME i < n - 1
       PROVE  ItrAt(arr, i + 1) = [here |-> {arr[i + 2]}, rest |-> here.rest \ {arr[i + 2]}]
  BY <1>5, <1>9, <1>11, <1>13
<1> HIDE DEF here
<1>14. /\ here.rest \in SUBSET (KeysIn(arr) \ {arr[i + 1]})
       /\ i = 0 => here.rest = KeysIn(arr) \ {arr[i + 1]}
       /\ i = n - 1 => here.rest = {}
       /\ i < n - 1 => arr[i + 2] \in here.rest
  BY <1>6, <1>7, <1>8, <1>9, <1>11
<1> QED  BY <1>10, <1>11, <1>12, <1>13, <1>14, Zenon DEF n, here

LEMMA FindImplements ==
  ASSUME IInv, find
  PROVE  Contract!find(key)
<1> DEFINE I == itr'
<1>1. /\ IInv' /\ key \in Keys /\ made /\ UNCHANGED <<made, array>>
      /\ key \notin KeysIn(array) => I = -1
      /\ key \in KeysIn(array) => I \in 0 .. Len(array) - 1 /\ array[I + 1] = key
      /\ array \in Seq(Keys) /\ Distinct(array)
  BY FindStep DEF find, IInv
<1>2. /\ AbstractItr' = ItrAt(array, I) /\ Range(array) = KeysIn(array)
      /\ Range(array)' = Range(array)
  BY <1>1, Mapped, MappedNext
<1> HIDE DEF I
<1>3. AbstractItr' \in IF key \in Range(array)
                      THEN [here : {{key}}, rest : SUBSET (Range(array) \ {key})]
                      ELSE {Contract!EndItr}
  <2>1. CASE key \in KeysIn(array)
    <3> DEFINE new == ItrAt(array, I)
    <3>1. /\ new.rest \in SUBSET (KeysIn(array) \ {key})
          /\ new = [here |-> {key}, rest |-> new.rest]
      <4>1. array[I + 1] = key /\ I \in 0 .. Len(array) - 1
        BY <1>1, <2>1
      <4> QED  BY <1>1, <4>1, ItrAtIs
    <3> HIDE DEF new
    <3>2. new \in [here : {{key}}, rest : SUBSET (KeysIn(array) \ {key})]
      BY <3>1
    <3> QED  BY <1>2, <2>1, <3>2 DEF new
  <2>2. CASE key \notin KeysIn(array)
    <3>1. I \notin 0 .. Len(array) - 1
      BY <1>1, <2>2
    <3> QED  BY <1>2, <2>2, <3>1 DEF ItrAt, Contract!EndItr
  <2> QED  BY <2>1, <2>2
<1> QED  BY <1>1, <1>2, <1>3 DEF Contract!find

\* Outside an iteration there is nothing at the iterator.
LEMMA NoItr ==
  ASSUME NEW arr \in Seq(Keys)
  PROVE  ItrAt(arr, -1) = Contract!EndItr
<1>1. -1 \notin 0 .. Len(arr) - 1
  OBVIOUS
<1> QED  BY <1>1 DEF ItrAt, Contract!EndItr

LEMMA InsertImplements ==
  ASSUME IInv, insert
  PROVE  Contract!insert(key)
<1>1. /\ IInv' /\ made /\ itr = -1 /\ UNCHANGED <<made, itr>>
      /\ KeysIn(array') = KeysIn(array) \cup {key}
  BY InsertStep
<1>2. AbstractItr' = ItrAt(array', -1) /\ Range(array) = KeysIn(array)
      /\ Range(array)' = KeysIn(array') /\ array' \in Seq(Keys)
  BY <1>1, Mapped, MappedNext DEF IInv
<1> QED  BY <1>1, <1>2, NoItr DEF Contract!insert

LEMMA EraseImplements ==
  ASSUME IInv, erase
  PROVE  Contract!erase(key)
<1>1. /\ IInv' /\ made /\ itr = -1 /\ UNCHANGED <<made, itr>>
      /\ KeysIn(array') = KeysIn(array) \ {key}
  BY EraseStep
<1>2. AbstractItr' = ItrAt(array', -1) /\ Range(array) = KeysIn(array)
      /\ Range(array)' = KeysIn(array') /\ array' \in Seq(Keys)
  BY <1>1, Mapped, MappedNext DEF IInv
<1> QED  BY <1>1, <1>2, NoItr DEF Contract!erase

LEMMA BeginImplements ==
  ASSUME IInv, IInv', begin_itr
  PROVE  Contract!begin_itr
<1>1. /\ made /\ UNCHANGED <<made, array>> /\ itr' = 0
      /\ array \in Seq(Keys) /\ Distinct(array)
  BY DEF begin_itr, Idle, IInv
<1>2. /\ AbstractItr' = ItrAt(array, 0) /\ Range(array) = KeysIn(array)
      /\ Range(array)' = Range(array)
  BY <1>1, Mapped, MappedNext
<1>3. CASE Len(array) = 0
  <2>1. KeysIn(array) = {} /\ ItrAt(array, 0) = Contract!EndItr
    <3>1. 1 .. Len(array) = {} /\ 0 \notin 0 .. Len(array) - 1
      BY <1>3
    <3> QED  BY <3>1 DEF KeysIn, ItrAt, Contract!EndItr
  <2> QED  BY <1>1, <1>2, <2>1 DEF Contract!begin_itr
<1>4. CASE Len(array) # 0
  <2> DEFINE k == array[0 + 1]
             new == ItrAt(array, 0)
  <2>1. 0 \in 0 .. Len(array) - 1
    BY <1>1, <1>4
  <2>2. /\ new = [here |-> {k}, rest |-> new.rest]
        /\ new.rest = KeysIn(array) \ {k} /\ k \in KeysIn(array)
    BY <1>1, <2>1, ItrAtIs
  <2> HIDE DEF k, new
  <2>3. new \in {[here |-> {x}, rest |-> KeysIn(array) \ {x}] : x \in KeysIn(array)}
    BY <2>2
  <2> QED  BY <1>1, <1>2, <2>2, <2>3 DEF Contract!begin_itr, new
<1> QED  BY <1>3, <1>4

LEMMA IncrementImplements ==
  ASSUME IInv, IInv', increment_itr
  PROVE  Contract!increment_itr
<1> DEFINE old == ItrAt(array, itr)
           new == ItrAt(array, itr + 1)
<1>1. /\ made /\ UNCHANGED <<made, array>> /\ itr' = itr + 1
      /\ array \in Seq(Keys) /\ Distinct(array) /\ itr \in 0 .. Len(array) - 1
  BY DEF increment_itr, Idle, IInv, Control, is_itr_valid
<1>2. /\ AbstractItr = old /\ AbstractItr' = new /\ Range(array)' = Range(array)
  BY <1>1, Mapped, MappedNext
<1>3. old.here # {}
  <2>1. old.here = {array[itr + 1]}
    BY <1>1, ItrAtIs, Zenon
  <2> HIDE DEF old
  <2> QED  BY <2>1
<1>4. new \in IF old.rest = {} THEN {Contract!EndItr}
             ELSE {[here |-> {x}, rest |-> old.rest \ {x}] : x \in old.rest}
  <2>1. CASE itr = Len(array) - 1
    <3>1. old.rest = {}
      BY <1>1, <2>1, ItrAtIs, Zenon
    <3>2. itr + 1 \notin 0 .. Len(array) - 1
      BY <1>1, <2>1
    <3> QED  BY <3>1, <3>2 DEF ItrAt, Contract!EndItr
  <2>2. CASE itr < Len(array) - 1
    <3> DEFINE k == array[itr + 2]
    <3>1. k \in old.rest /\ new = [here |-> {k}, rest |-> old.rest \ {k}]
      BY <1>1, <2>2, ItrAtIs, Zenon
    <3> HIDE DEF k, old, new
    <3> QED  BY <3>1
  <2> QED  BY <1>1, <2>1, <2>2
<1> HIDE DEF old, new
<1> QED  BY <1>1, <1>2, <1>3, <1>4 DEF Contract!increment_itr, Contract!is_itr_valid

\* The stb_ds shim is the table the benchmark expects: hmgeti, hmput, hmdel and
\* the index into the array that serves as an iterator do what the contract's
\* operations do.
THEOREM Implements == Spec => ImplementsContract
<1>1. Init => Contract!TableInit
  <2> SUFFICES ASSUME Init
               PROVE  Contract!TableInit
    OBVIOUS
  <2>1. array = <<>> /\ itr = -1 /\ made = FALSE /\ IInv
    BY InitIInv DEF Init
  <2> QED  BY <2>1, Mapped, NoneIs, NoItr DEF Contract!TableInit
<1>2. ASSUME IInv, [Next]_vars
      PROVE  [ContractStep]_vars
  <2>1. IInv'
    BY <1>2, IInvStep
  <2>2. /\ AbstractItr = ItrAt(array, itr) /\ Range(array) = KeysIn(array)
        /\ AbstractItr' = ItrAt(array', itr') /\ Range(array)' = KeysIn(array')
        /\ array \in Seq(Keys) /\ array' \in Seq(Keys)
    BY <1>2, <2>1, Mapped, MappedNext DEF IInv
  <2>3. CASE create_table
    <3>1. /\ ~made /\ made' /\ array' = <<>> /\ itr' = -1 /\ made' = TRUE
      BY <1>2, <2>3 DEF create_table, IInv, Control
    <3>2. Range(array)' = {} /\ AbstractItr' = Contract!EndItr
      BY <2>2, <3>1, NoneIs, NoItr
    <3> QED  BY <2>3, <3>1, <3>2 DEF ContractStep, Contract!create_table
  <2>4. CASE destroy_table
    <3>1. /\ made /\ made' = FALSE /\ array' = <<>> /\ itr' = -1
      BY <2>4 DEF destroy_table, Idle
    <3>2. Range(array)' = {} /\ AbstractItr' = Contract!EndItr
      BY <2>2, <3>1, NoneIs, NoItr
    <3> QED  BY <2>4, <3>1, <3>2 DEF ContractStep, Contract!destroy_table
  <2>5. ASSUME NEW op \in {"find", "insert", "erase"}, NEW k \in Keys, call(op, k)
        PROVE  [ContractStep]_vars
    <3>1. /\ Idle /\ pc' # "idle" /\ UNCHANGED <<made, array>> /\ itr' = -1
      BY <2>5 DEF call
    <3>2. Range(array)' = Range(array) /\ AbstractItr' = Contract!EndItr
      BY <2>2, <3>1, NoItr
    <3> QED  BY <3>1, <3>2 DEF ContractStep, Contract!release_itr
  <2>6. CASE find
    BY <1>2, <2>6, FindImplements DEF ContractStep
  <2>7. CASE insert
    BY <1>2, <2>7, InsertImplements DEF ContractStep
  <2>8. CASE erase
    BY <1>2, <2>8, EraseImplements DEF ContractStep
  <2>9. CASE begin_itr
    BY <1>2, <2>1, <2>9, BeginImplements DEF ContractStep
  <2>10. CASE increment_itr
    BY <1>2, <2>1, <2>10, IncrementImplements DEF ContractStep
  <2>11. CASE UNCHANGED vars
    BY <2>11
  <2> QED  BY <1>2, <2>3, <2>4, <2>5, <2>6, <2>7, <2>8, <2>9, <2>10, <2>11 DEF Next
<1> QED  BY <1>1, <1>2, Invariance, PTL DEF Spec, ImplementsContract
=============================================================================
