----------------------------- MODULE KhashProofs -----------------------------
(***************************************************************************)
(* Theorems about Khash, for every set of keys and every hash function;    *)
(* the last one is about EraseOnKhash, which extends it.                   *)
(***************************************************************************)
EXTENDS EraseOnKhash, Arithmetic

-----------------------------------------------------------------------------
(* The probe sequence.                                                     *)

LEMMA ProbeInTable ==
  ASSUME NEW h \in Nat, NEW n \in Nat \ {0}, NEW t \in Nat
  PROVE  Probe(h, t, n) \in 0 .. n - 1 /\ Probe(h, t, n) = (h + Triangle(t)) % n
<1>1. h + Triangle(t) \in Nat
  BY TriangleTwice
<1>2. Probe(h, t, n) = (h + Triangle(t)) % n
  BY DEF Probe
<1> QED  BY <1>1, <1>2, DivMod

\* The first n steps look at n different buckets ...
LEMMA ProbeDistinct ==
  ASSUME NEW h \in Nat, NEW n \in Nat, PowerOfTwo(n),
         NEW t \in 0 .. n - 1, NEW u \in 0 .. n - 1, t < u
  PROVE  Probe(h, t, n) # Probe(h, u, n)
  BY TriangleDistinct DEF Probe

\* ... so that every bucket is on the probe sequence of every key.
LEMMA ProbeCovers ==
  ASSUME NEW h \in Nat, NEW n \in Nat, PowerOfTwo(n), NEW s \in 0 .. n - 1
  PROVE  \E t \in 0 .. n - 1 : Probe(h, t, n) = s
  BY TriangleCovers DEF Probe

\* After twice as many steps it is back at its first bucket.
LEMMA ProbeReturns ==
  ASSUME NEW h \in Nat, NEW n \in Nat \ {0}
  PROVE  Probe(h, 2 * n - 1, n) = Probe(h, 0, n)
<1> DEFINE m == 2 * n - 1
<1>1. m \in Nat /\ m + 1 = 2 * n
  OBVIOUS
<1>2. Triangle(m) = n * m /\ n * m \in Nat
  <2>1. Triangle(m) \in Nat /\ 2 * Triangle(m) = m * (m + 1)
    BY <1>1, TriangleTwice, Zenon
  <2>2. m * (m + 1) = 2 * (n * m) /\ n * m \in Nat
    BY <1>1, SMT
  <2> HIDE DEF m
  <2> QED  BY <2>1, <2>2
<1>3. Triangle(0) = 0
  BY DEF Triangle
<1>4. (h + n * m) % n = h % n
  <2>1. PICK p \in Nat, r \in 0 .. n - 1 : h = n * p + r /\ r = h % n
    BY DivMod
  <2>2. PICK q \in Nat, s \in 0 .. n - 1 : h + n * m = n * q + s /\ s = (h + n * m) % n
    <3>1. h + n * m \in Nat
      BY <1>2
    <3> QED  BY <3>1, DivMod
  <2>3. PICK e \in Nat : n * e = n * p + n * m /\ n * p \in Nat
    <3>1. n * (p + m) = n * p + n * m /\ p + m \in Nat /\ n * p \in Nat
      BY <1>1, SMT
    <3> QED  BY <3>1
  <2>4. n * e + r = n * q + s
    BY <1>2, <2>1, <2>2, <2>3
  <2> HIDE DEF m
  <2>5. r = s
    <3>1. r \in 0 .. n - 1 /\ s \in 0 .. n - 1
      OBVIOUS
    <3> QED  BY <2>4, <3>1, DivModUnique
  <2> QED  BY <2>1, <2>2, <2>5
<1>5. Probe(h, m, n) = (h + n * m) % n /\ Probe(h, 0, n) = (h + 0) % n
  <2>1. Probe(h, m, n) = (h + Triangle(m)) % n
    BY <1>1, ProbeInTable, Zenon
  <2>2. Probe(h, 0, n) = (h + Triangle(0)) % n
    BY ProbeInTable
  <2> QED  BY <1>2, <1>3, <2>1, <2>2, Zenon
<1>6. h + 0 = h
  OBVIOUS
<1> QED  BY <1>4, <1>5, <1>6, Zenon

-----------------------------------------------------------------------------
(* Least and greatest elements, and the sizes of tables.                   *)

LEMMA MinIs ==
  ASSUME NEW S \in SUBSET Nat, S # {}
  PROVE  Min(S) \in S /\ \A x \in S : Min(S) <= x
<1>1. \E x \in S : \A y \in S : x <= y
  BY LeastElement
<1> QED  BY <1>1 DEF Min

LEMMA MaxIs ==
  ASSUME NEW m \in Nat, NEW S \in SUBSET (0 .. m), S # {}
  PROVE  Max(S) \in S /\ \A x \in S : x <= Max(S)
<1> SUFFICES \E x \in S : \A y \in S : x >= y
  BY DEF Max
<1> DEFINE T == {m - x : x \in S}
<1>1. T \in SUBSET Nat /\ T # {}
  <2>1. \A x \in S : m - x \in Nat
    OBVIOUS
  <2> QED  BY <2>1
<1>2. Min(T) \in T /\ \A y \in T : Min(T) <= y
  <2> HIDE DEF T
  <2> QED  BY <1>1, MinIs
<1>3. PICK x \in S : Min(T) = m - x
  BY <1>2
<1>4. \A y \in S : m - x <= m - y
  BY <1>2, <1>3
<1> QED  BY <1>4

LEMMA RoundUpIs ==
  ASSUME NEW n \in Nat
  PROVE  /\ RoundUp(n) \in Nat /\ RoundUp(n) >= n
         /\ RoundUp(n) >= 4 /\ PowerOfTwo(RoundUp(n))
<1> DEFINE S == {m \in Nat : \E b \in 4 .. 2 * m + 4 : b >= m /\ PowerOfTwo(b)}
           R == {b \in 4 .. 2 * n + 4 : b >= n /\ PowerOfTwo(b)}
<1>1. 0 \in S
  BY FourIsPower
<1>2. ASSUME NEW m \in Nat, m \in S
      PROVE  m + 1 \in S
  <2>1. PICK b \in 4 .. 2 * m + 4 : b >= m /\ PowerOfTwo(b)
    BY <1>2
  <2>2. CASE b >= m + 1
    BY <2>1, <2>2
  <2>3. CASE b = m
    <3>1. PowerOfTwo(2 * b)
      BY DoublePower, <2>1
    <3>2. 2 * b \in 4 .. 2 * (m + 1) + 4 /\ 2 * b >= m + 1
      BY <2>1, <2>3
    <3> QED  BY <3>1, <3>2
  <2> QED  BY <2>1, <2>2, <2>3
<1>3. n \in S
  <2> HIDE DEF S
  <2> QED  BY <1>1, <1>2, NatSetInduction
<1>4. R # {} /\ R \in SUBSET Nat
  BY <1>3
<1>5. Min(R) \in R
  <2> HIDE DEF R
  <2> QED  BY <1>4, MinIs
<1> QED  BY <1>5 DEF RoundUp

LEMMA UpperBoundIs ==
  ASSUME NEW n \in Nat
  PROVE  /\ UpperBound(n) \in Nat /\ UpperBound(n) <= n
         /\ n >= 4 => UpperBound(n) >= 4
  BY DEF UpperBound

\* A resize is never refused: the size that is asked for has room.
LEMMA Requested ==
  ASSUME n_buckets \in Nat, TableSize(n_buckets), size \in Nat,
         size <= UpperBound(n_buckets)
  PROVE  /\ RequestedSize \in Nat /\ RequestedSize >= 4
         /\ PowerOfTwo(RequestedSize)
         /\ n_buckets <= RequestedSize
         /\ size < UpperBound(RequestedSize)
<1> DEFINE r == RequestedSize
<1>1. r \in Nat /\ r >= 4 /\ PowerOfTwo(r)
  BY RoundUpIs DEF RequestedSize
<1>2. n_buckets = 0 \/ (n_buckets >= 4 /\ PowerOfTwo(n_buckets))
  BY DEF TableSize
<1>3. n_buckets > 2 * size => r >= n_buckets - 1
  BY RoundUpIs DEF RequestedSize
<1>4. ~(n_buckets > 2 * size) => r >= n_buckets + 1
  BY RoundUpIs DEF RequestedSize
<1> HIDE DEF r
<1>5. CASE n_buckets = 0
  <2>1. size = 0
    BY <1>5, UpperBoundIs
  <2>2. UpperBound(r) >= 4
    BY <1>1, UpperBoundIs
  <2>3. n_buckets <= r /\ size < UpperBound(r)
    BY <1>1, <1>5, <2>1, <2>2, UpperBoundIs
  <2> QED  BY <1>1, <2>3 DEF r
<1>6. CASE n_buckets > 2 * size
  <2>1. n_buckets <= r
    <3> SUFFICES ASSUME r < n_buckets
                 PROVE  FALSE
      BY <1>1
    <3>1. 2 * r <= n_buckets
      BY <1>1, <1>2, NextPower
    <3> QED  BY <1>1, <1>3, <1>6, <3>1
  <2>2. size < UpperBound(r)
    BY <1>1, <1>2, <1>6, <2>1 DEF UpperBound
  <2> QED  BY <1>1, <2>1, <2>2 DEF r
<1>7. CASE n_buckets # 0 /\ ~(n_buckets > 2 * size)
  <2>1. 2 * n_buckets <= r
    BY <1>1, <1>2, <1>4, <1>7, NextPower
  <2>2. size < UpperBound(r)
    BY <1>1, <1>2, <1>7, <2>1 DEF UpperBound
  <2> QED  BY <1>1, <1>7, <2>1, <2>2 DEF r
<1> QED  BY <1>5, <1>6, <1>7

-----------------------------------------------------------------------------
(* The inductive invariant.                                                *)

Room == UpperBound(n_buckets)

\* Who is where in the code, and what kh_put has made sure of by then.
Control ==
  /\ upper_bound = Room
  /\ keys \in [DOMAIN keys -> Content] /\ vals \in [DOMAIN vals -> Content]
  /\ ~made => n_buckets = 0 /\ pc = "idle"
  /\ pc # "idle" => made /\ itr = n_buckets
  /\ pc \in {"resize", "rehash", "put"} => key \in Keys
  /\ pc = "resize" => Crowded
  /\ pc = "put" => n_occupied < Room
  /\ pc # "rehash" => NoResize /\ n_occupied <= Room

\* The new table has room for all, and the old one is empty up to j.
Rehashing ==
  pc = "rehash" =>
    /\ new_n >= 4 /\ n_buckets <= new_n /\ size < UpperBound(new_n)
    /\ DOMAIN keys = 0 .. new_n - 1 /\ DOMAIN vals = 0 .. new_n - 1
    /\ hand # NoHand => j < n_buckets
    /\ \A s \in OldLive : s >= j /\ (hand # NoHand => s # j)

Pairs == /\ PairsStayTogether
         /\ \A s \in OldLive \cup NewLive : keys[s] \in Keys

\* A probe for w passes no free bucket before it comes to s.
Reached(w, s, fl, n) ==
  \E t \in 0 .. n - 1 :
    /\ Probe(Hash[w], t, n) = s
    /\ \A u \in 0 .. t - 1 : fl[Probe(Hash[w], u, n)] # "empty"

Reach ==
  /\ pc # "rehash" => \A s \in OldLive : Reached(keys[s], s, flags, n_buckets)
  /\ pc = "rehash" => \A s \in NewLive : Reached(keys[s], s, new_flags, new_n)

IInv == TypeOK /\ Control /\ Rehashing /\ CountersAreRight /\ Pairs /\ Reach

-----------------------------------------------------------------------------
(* Looking for a key.                                                      *)

LEMMA HashType ==
  ASSUME NEW w \in Keys
  PROVE  Hash[w] \in Nat
BY KhashAssumption

LEMMA AtType ==
  ASSUME TypeOK, n_buckets # 0, NEW w \in Keys, NEW t \in Nat
  PROVE  At(w, t) \in Slots
BY HashType, ProbeInTable DEF TypeOK, At, Slots

\* The loop stops, and at the first step at which it may.
LEMMA Stops ==
  ASSUME TypeOK, n_buckets # 0, NEW w \in Keys
  PROVE  /\ StopStep(w) \in 0 .. 2 * n_buckets
         /\ Hit(w, StopStep(w)) \/ Back(w, StopStep(w))
         /\ \A u \in 0 .. 2 * n_buckets : Hit(w, u) \/ Back(w, u) => StopStep(w) <= u
<1> DEFINE S == {t \in 0 .. 2 * n_buckets : Hit(w, t) \/ Back(w, t)}
<1>1. n_buckets \in Nat \ {0}
  BY DEF TypeOK
<1>2. Back(w, 2 * n_buckets - 1)
  <2>1. At(w, 2 * n_buckets - 1) = At(w, 0)
    BY <1>1, HashType, ProbeReturns DEF At
  <2> QED  BY <1>1, <2>1 DEF Back
<1>3. S \in SUBSET Nat /\ S # {}
  BY <1>1, <1>2
<1>4. Min(S) \in S /\ \A x \in S : Min(S) <= x
  <2> HIDE DEF S
  <2> QED  BY <1>3, MinIs
<1> QED  BY <1>4 DEF StopStep

\* The first steps see each bucket once.
LEMMA AtDistinct ==
  ASSUME TypeOK, n_buckets # 0, NEW w \in Keys,
         NEW t \in 0 .. n_buckets - 1, NEW u \in 0 .. n_buckets - 1, t # u
  PROVE  At(w, t) # At(w, u)
<1>1. n_buckets \in Nat /\ PowerOfTwo(n_buckets) /\ Hash[w] \in Nat
  BY HashType DEF TypeOK, TableSize
<1>2. CASE t < u
  BY <1>1, <1>2, ProbeDistinct DEF At
<1>3. CASE u < t
  BY <1>1, <1>3, ProbeDistinct DEF At
<1> QED  BY <1>1, <1>2, <1>3

LEMMA NotBack ==
  ASSUME TypeOK, n_buckets # 0, NEW w \in Keys, NEW t \in 0 .. n_buckets - 1
  PROVE  ~Back(w, t)
<1>1. n_buckets \in Nat
  BY DEF TypeOK
<1> QED  BY <1>1, AtDistinct DEF Back

LEMMA Found ==
  ASSUME TypeOK, Pairs, NEW w \in Keys, NEW s \in OldLive, keys[s] = w,
         Reached(w, s, flags, n_buckets)
  PROVE  kh_get(w) = s /\ PutSlot(w) = s
<1>1. n_buckets \in Nat /\ n_buckets # 0 /\ s \in Slots /\ flags[s] = "live"
  BY DEF TypeOK, OldLive, Slots
<1>2. PICK t \in 0 .. n_buckets - 1 :
        At(w, t) = s /\ \A u \in 0 .. t - 1 : flags[At(w, u)] # "empty"
  BY DEF Reached, At
<1> DEFINE stop == StopStep(w)
<1>3. /\ stop \in 0 .. 2 * n_buckets /\ (Hit(w, stop) \/ Back(w, stop))
      /\ Hit(w, t) => stop <= t
  BY <1>1, Stops
<1>4. Hit(w, t)
  BY <1>1, <1>2 DEF Hit
<1> HIDE DEF stop
<1>5. stop \in 0 .. t /\ stop \in 0 .. n_buckets - 1
  BY <1>1, <1>3, <1>4
<1>6. ~Back(w, stop)
  BY <1>1, <1>5, NotBack
<1>7. flags[At(w, stop)] # "empty"
  BY <1>1, <1>2, <1>5
<1>8. flags[At(w, stop)] = "live" /\ keys[At(w, stop)] = w
  BY <1>3, <1>6, <1>7 DEF Hit
<1>9. At(w, stop) \in Slots
  BY <1>1, <1>5, AtType
<1>10. At(w, stop) = s
  BY <1>8, <1>9 DEF Pairs, PairsStayTogether, OldLive
<1> QED  BY <1>1, <1>6, <1>7, <1>10 DEF kh_get, PutSlot, stop

LEMMA NotFound ==
  ASSUME TypeOK, NEW w \in Keys, \A s \in OldLive : keys[s] # w
  PROVE  kh_get(w) = n_buckets
<1>1. CASE n_buckets = 0
  BY <1>1 DEF kh_get
<1>2. CASE n_buckets # 0
  <2> DEFINE stop == StopStep(w)
  <2>1. stop \in Nat /\ (Hit(w, stop) \/ Back(w, stop))
    BY <1>2, Stops DEF TypeOK
  <2>2. At(w, stop) \in Slots
    BY <1>2, <2>1, AtType
  <2>3. Back(w, stop) \/ flags[At(w, stop)] = "empty"
    BY <2>1, <2>2 DEF Hit, OldLive
  <2> QED  BY <1>2, <2>3 DEF kh_get
<1> QED  BY <1>1, <1>2

\* With a free bucket in the table, a new key gets a bucket that is free or
\* deleted, and that a probe for it comes to.
LEMMA Fresh ==
  ASSUME TypeOK, NEW w \in Keys, \A s \in OldLive : keys[s] # w,
         NEW e \in Slots, flags[e] = "empty"
  PROVE  /\ PutSlot(w) \in Slots /\ flags[PutSlot(w)] # "live"
         /\ Reached(w, PutSlot(w), flags, n_buckets)
<1>1. n_buckets \in Nat /\ n_buckets # 0 /\ PowerOfTwo(n_buckets) /\ Hash[w] \in Nat
  BY HashType DEF TypeOK, Slots, TableSize
<1>2. PICK te \in 0 .. n_buckets - 1 : At(w, te) = e
  BY <1>1, ProbeCovers DEF Slots, At
<1> DEFINE stop == StopStep(w)
<1>3. /\ stop \in 0 .. 2 * n_buckets /\ (Hit(w, stop) \/ Back(w, stop))
      /\ \A u \in 0 .. 2 * n_buckets : Hit(w, u) \/ Back(w, u) => stop <= u
  BY <1>1, Stops
<1>4. Hit(w, te)
  BY <1>2 DEF Hit
<1> DEFINE deleted == {u \in 0 .. stop - 1 : flags[At(w, u)] = "del"}
           x == IF deleted # {} /\ (Back(w, stop) \/ flags[At(w, stop)] = "empty")
                THEN At(w, Max(deleted)) ELSE At(w, stop)
<1>5. PutSlot(w) = x
  BY DEF PutSlot
<1> HIDE DEF stop
<1>6. stop \in 0 .. n_buckets - 1
  BY <1>1, <1>3, <1>4
<1>7. ~Back(w, stop)
  BY <1>1, <1>6, NotBack
<1>8. flags[At(w, stop)] = "empty" /\ At(w, stop) \in Slots
  <2>1. At(w, stop) \in Slots
    BY <1>1, <1>6, AtType
  <2> QED  BY <1>3, <1>7, <2>1 DEF Hit, OldLive
<1>9. \A u \in 0 .. stop - 1 : flags[At(w, u)] # "empty"
  <2> SUFFICES ASSUME NEW u \in 0 .. stop - 1, flags[At(w, u)] = "empty"
               PROVE  FALSE
    OBVIOUS
  <2>1. Hit(w, u) /\ u \in 0 .. 2 * n_buckets
    BY <1>1, <1>6 DEF Hit
  <2> QED  BY <1>3, <1>6, <2>1
<1>10. \E u \in 0 .. stop : x = At(w, u) /\ flags[At(w, u)] \in {"del", "empty"}
  <2>1. CASE deleted = {}
    BY <1>6, <1>8, <2>1
  <2>2. CASE deleted # {}
    <3>1. deleted \in SUBSET (0 .. stop) /\ stop \in Nat
      BY <1>6
    <3>2. Max(deleted) \in deleted
      <4> HIDE DEF deleted
      <4> QED  BY <2>2, <3>1, MaxIs
    <3>3. x = At(w, Max(deleted))
      BY <1>8, <2>2
    <3>4. Max(deleted) \in 0 .. stop /\ flags[At(w, Max(deleted))] = "del"
      BY <1>6, <3>2
    <3> HIDE DEF deleted, x
    <3> QED  BY <3>3, <3>4
  <2> QED  BY <2>1, <2>2
<1> HIDE DEF x
<1>11. PICK u \in 0 .. stop : x = At(w, u) /\ flags[At(w, u)] \in {"del", "empty"}
  BY <1>10
<1>12. u \in 0 .. n_buckets - 1
  BY <1>1, <1>6
<1>13. \A v \in 0 .. u - 1 : flags[At(w, v)] # "empty"
  BY <1>6, <1>9, <1>11
<1>14. x \in Slots
  BY <1>1, <1>11, <1>12, AtType
<1>15. Reached(w, x, flags, n_buckets)
  BY <1>11, <1>12, <1>13 DEF Reached, At
<1> QED  BY <1>5, <1>11, <1>14, <1>15

\* What was reached stays so as long as no bucket becomes free.
LEMMA StaysReached ==
  ASSUME NEW w \in Keys, NEW n \in Nat \ {0}, NEW s, NEW fl, NEW gl,
         Reached(w, s, fl, n),
         \A u \in 0 .. n - 1 : fl[u] # "empty" => gl[u] # "empty"
  PROVE  Reached(w, s, gl, n)
<1>1. \A t \in Nat : Probe(Hash[w], t, n) \in 0 .. n - 1
  BY HashType, ProbeInTable
<1>2. PICK t \in 0 .. n - 1 :
        /\ Probe(Hash[w], t, n) = s
        /\ \A u \in 0 .. t - 1 : fl[Probe(Hash[w], u, n)] # "empty"
  BY DEF Reached
<1>3. \A u \in 0 .. t - 1 : gl[Probe(Hash[w], u, n)] # "empty"
  BY <1>1, <1>2
<1> QED  BY <1>2, <1>3 DEF Reached

\* The kick-out loop finds a free bucket in the new table.
LEMMA NewSlotIs ==
  ASSUME new_n \in Nat \ {0}, PowerOfTwo(new_n), NEW w \in Keys,
         NEW e \in 0 .. new_n - 1, new_flags[e] = "empty"
  PROVE  /\ NewSlot(w) \in 0 .. new_n - 1 /\ new_flags[NewSlot(w)] = "empty"
         /\ Reached(w, NewSlot(w), new_flags, new_n)
<1> DEFINE P(t) == Probe(Hash[w], t, new_n)
           S == {t \in 0 .. new_n - 1 : new_flags[P(t)] = "empty"}
<1>1. NewSlot(w) = P(Min(S))
  BY DEF NewSlot
<1>2. \E t \in 0 .. new_n - 1 : P(t) = e
  BY HashType, ProbeCovers
<1>3. S \in SUBSET Nat /\ S # {}
  BY <1>2
<1>4. Min(S) \in S /\ \A x \in S : Min(S) <= x
  <2> HIDE DEF S
  <2> QED  BY <1>3, MinIs
<1>5. \A t \in Nat : P(t) \in 0 .. new_n - 1
  BY HashType, ProbeInTable
<1> DEFINE m == Min(S)
<1>6. /\ m \in 0 .. new_n - 1 /\ new_flags[P(m)] = "empty"
      /\ \A u \in 0 .. m - 1 : new_flags[P(u)] # "empty"
  <2>1. m \in 0 .. new_n - 1 /\ new_flags[P(m)] = "empty"
    BY <1>4
  <2>2. \A u \in 0 .. new_n - 1 : new_flags[P(u)] = "empty" => m <= u
    BY <1>4
  <2> HIDE DEF m, P
  <2> QED  BY <2>1, <2>2
<1>7. NewSlot(w) = P(m)
  BY <1>1
<1> HIDE DEF m
<1>8. P(m) \in 0 .. new_n - 1
  BY <1>5, <1>6
<1>9. Reached(w, P(m), new_flags, new_n)
  BY <1>6 DEF Reached
<1> QED  BY <1>6, <1>7, <1>8, <1>9

-----------------------------------------------------------------------------
(* Counting.                                                               *)

Occupied == {s \in Slots : flags[s] # "empty"}

LEMMA FiniteSlots ==
  ASSUME TypeOK
  PROVE  /\ IsFiniteSet(Slots) /\ Cardinality(Slots) = n_buckets
         /\ IsFiniteSet(0 .. new_n - 1) /\ Cardinality(0 .. new_n - 1) = new_n
         /\ IsFiniteSet(OldLive) /\ Cardinality(OldLive) \in Nat
         /\ IsFiniteSet(NewLive) /\ Cardinality(NewLive) \in Nat
         /\ IsFiniteSet(Occupied) /\ Cardinality(Occupied) \in Nat
         /\ OldLive \subseteq Slots /\ Occupied \subseteq Slots
         /\ NewLive \subseteq 0 .. new_n - 1
<1>1. \A n \in Nat : IsFiniteSet(0 .. n - 1) /\ Cardinality(0 .. n - 1) = n
  <2> SUFFICES ASSUME NEW n \in Nat
               PROVE  IsFiniteSet(0 .. n - 1) /\ Cardinality(0 .. n - 1) = n
    OBVIOUS
  <2>1. IsFiniteSet(0 .. n - 1)
    BY FS_Interval
  <2>2. Cardinality(0 .. n - 1) = IF 0 > n - 1 THEN 0 ELSE n - 1 - 0 + 1
    BY FS_Interval
  <2> QED  BY <2>1, <2>2
<1>2. n_buckets \in Nat /\ new_n \in Nat
  BY DEF TypeOK
<1>3. IsFiniteSet(Slots) /\ Cardinality(Slots) = n_buckets
  BY <1>1, <1>2 DEF Slots
<1>4. IsFiniteSet(0 .. new_n - 1) /\ Cardinality(0 .. new_n - 1) = new_n
  BY <1>1, <1>2
<1>5. /\ OldLive \subseteq Slots /\ Occupied \subseteq Slots
      /\ NewLive \subseteq 0 .. new_n - 1
  BY DEF OldLive, NewLive, Occupied, TypeOK
<1>6. IsFiniteSet(OldLive) /\ IsFiniteSet(Occupied) /\ IsFiniteSet(NewLive)
  BY <1>3, <1>4, <1>5, FS_Subset
<1> QED  BY <1>3, <1>4, <1>5, <1>6, FS_CardinalityType

LEMMA FreeSlot ==
  ASSUME IInv, pc = "put"
  PROVE  \E e \in Slots : flags[e] = "empty"
<1>1. n_occupied < n_buckets /\ n_buckets \in Nat
  BY UpperBoundIs DEF IInv, TypeOK, Control, Room
<1>2. n_occupied = Cardinality(Occupied)
  BY DEF IInv, CountersAreRight, Occupied
<1>3. Occupied # Slots
  BY <1>1, <1>2, FiniteSlots DEF IInv
<1> QED  BY <1>3 DEF Occupied

LEMMA FreeNewSlot ==
  ASSUME IInv, pc = "rehash", hand # NoHand
  PROVE  \E e \in 0 .. new_n - 1 : new_flags[e] = "empty"
<1>1. size = Cardinality(OldLive) + Cardinality(NewLive) + 1
  BY DEF IInv, CountersAreRight
<1>2. new_n \in Nat /\ size < UpperBound(new_n) /\ UpperBound(new_n) \in Nat
      /\ UpperBound(new_n) <= new_n
  BY UpperBoundIs DEF IInv, TypeOK, Rehashing
<1>3. NewLive # 0 .. new_n - 1
  BY <1>1, <1>2, FiniteSlots DEF IInv
<1> QED  BY <1>3 DEF NewLive, IInv, TypeOK

\* What kh_put counts is at most what it looks at.
LEMMA SizeBound ==
  ASSUME IInv, pc # "rehash"
  PROVE  size <= n_occupied /\ NewLive = {} /\ hand = NoHand /\ size = Cardinality(OldLive)
<1>1. hand = NoHand /\ NewLive = {}
  BY DEF IInv, Control, NoResize, NewLive, NoArray
<1>2. size = Cardinality(OldLive) /\ n_occupied = Cardinality(Occupied)
  <2>1. Cardinality({}) = 0
    BY FS_EmptySet
  <2>2. size = Cardinality(OldLive) + 0 + 0
    BY <1>1, <2>1 DEF IInv, CountersAreRight
  <2> QED  BY <2>2, FiniteSlots DEF IInv, CountersAreRight, Occupied
<1>3. OldLive \subseteq Occupied
  BY DEF OldLive, Occupied
<1>4. Cardinality(OldLive) <= Cardinality(Occupied)
  BY <1>3, FiniteSlots, FS_Subset DEF IInv
<1> QED  BY <1>1, <1>2, <1>4

-----------------------------------------------------------------------------
(* The steps preserve the invariant.                                       *)

LEMMA InitInv ==
  ASSUME Init
  PROVE  IInv
<1>1. OldLive = {} /\ NewLive = {} /\ Slots = {}
  BY DEF Init, NoTable, NoResize, NoArray, OldLive, NewLive, Slots
<1>2. TypeOK
  <2>1. flags \in [Slots -> Flags] /\ new_flags \in [0 .. new_n - 1 -> {"empty", "live"}]
    <3>1. NoArray \in [{} -> Flags] /\ NoArray \in [{} -> {"empty", "live"}]
      BY DEF NoArray
    <3>2. 0 .. new_n - 1 = {}
      BY DEF Init, NoResize
    <3> QED  BY <1>1, <3>1, <3>2 DEF Init, NoTable, NoResize
  <2>2. DOMAIN keys = {} /\ DOMAIN vals = {}
    BY DEF Init, NoTable, NoArray
  <2>3. /\ made \in BOOLEAN /\ n_buckets = 0 /\ new_n = 0 /\ size = 0 /\ j = 0
        /\ n_occupied = 0 /\ upper_bound = 0 /\ itr = 0 /\ pc = "idle"
        /\ key \in Content /\ hand \in {NoHand}
    BY DEF Init, NoTable, NoResize, Content
  <2>4. TableSize(0) /\ Slots \subseteq DOMAIN keys \cap DOMAIN vals
    BY <1>1 DEF TableSize
  <2> QED  BY <2>1, <2>2, <2>3, <2>4 DEF TypeOK
<1>3. Control
  BY DEF Init, NoTable, NoResize, NoArray, Control, Room, UpperBound
<1>4. CountersAreRight
  <2>1. {s \in Slots : flags[s] # "empty"} = {}
    BY <1>1
  <2>2. Cardinality({}) = 0
    BY FS_EmptySet
  <2> QED  BY <1>1, <2>1, <2>2 DEF Init, NoTable, NoResize, CountersAreRight
<1>5. Pairs
  BY <1>1 DEF Init, NoResize, Pairs, PairsStayTogether
<1>6. Rehashing /\ Reach
  BY <1>1 DEF Init, Rehashing, Reach
<1> QED  BY <1>2, <1>3, <1>4, <1>5, <1>6 DEF IInv

\* The steps that leave the table alone.
LEMMA Quiet ==
  ASSUME IInv, UNCHANGED <<hvars, rvars>>, pc = "idle",
         made' \in BOOLEAN, itr' \in 0 .. n_buckets, key' \in Content,
         pc' \in {"idle", "resize", "put"},
         made' \/ (n_buckets = 0 /\ pc' = "idle"),
         pc' # "idle" => itr' = n_buckets /\ key' \in Keys,
         pc' = "resize" => Crowded, pc' = "put" => ~Crowded
  PROVE  /\ IInv'
         /\ OldLive' = OldLive /\ NewLive' = NewLive /\ TableKeys' = TableKeys
<1> USE DEF hvars, rvars
<1>1. OldLive' = OldLive /\ NewLive' = NewLive /\ Slots' = Slots
  BY DEF OldLive, NewLive, Slots
<1>2. TypeOK'
  BY <1>1 DEF IInv, TypeOK
<1>3. Control'
  BY DEF IInv, TypeOK, Control, Room, Crowded, NoResize
<1>4. CountersAreRight'
  BY <1>1 DEF IInv, CountersAreRight
<1>5. Pairs'
  BY <1>1 DEF IInv, Pairs, PairsStayTogether
<1>6. Rehashing' /\ Reach'
  <2>1. \A w, s : Reached(w, s, flags, n_buckets)' <=> Reached(w, s, flags, n_buckets)
    BY DEF Reached
  <2> QED  BY <1>1, <2>1 DEF IInv, Rehashing, Reach, Reached
<1>7. TableKeys' = TableKeys
  BY <1>1 DEF TableKeys
<1> QED  BY <1>1, <1>2, <1>3, <1>4, <1>5, <1>6, <1>7 DEF IInv

LEMMA Lookup ==
  ASSUME IInv, pc # "rehash", NEW w \in Keys
  PROVE  \/ \E s \in OldLive : keys[s] = w /\ kh_get(w) = s /\ PutSlot(w) = s
         \/ (\A s \in OldLive : keys[s] # w) /\ kh_get(w) = n_buckets
<1>1. CASE \A s \in OldLive : keys[s] # w
  BY <1>1, NotFound DEF IInv
<1>2. ASSUME NEW s \in OldLive, keys[s] = w
      PROVE  kh_get(w) = s /\ PutSlot(w) = s
  BY <1>2, Found DEF IInv, Reach
<1> QED  BY <1>1, <1>2

LEMMA NextIs ==
  ASSUME TypeOK
  PROVE  /\ Min(NextLive \cup {n_buckets}) \in NextLive \cup {n_buckets}
         /\ \A s \in NextLive : Min(NextLive \cup {n_buckets}) <= s /\ s < n_buckets
<1> DEFINE S == NextLive \cup {n_buckets}
<1>1. S \in SUBSET Nat /\ S # {}
  BY DEF TypeOK, NextLive, Slots
<1>2. Min(S) \in S /\ \A x \in S : Min(S) <= x
  <2> HIDE DEF S
  <2> QED  BY <1>1, MinIs
<1>3. \A s \in NextLive : s \in S /\ s < n_buckets
  BY DEF NextLive, Slots, TypeOK
<1>4. Min(S) \in S /\ \A s \in NextLive : Min(S) <= s /\ s < n_buckets
  <2> HIDE DEF S
  <2> QED  BY <1>2, <1>3
<1> QED  BY <1>4

LEMMA QuietSteps ==
  ASSUME IInv, NEW w,
         \/ w \in Keys /\ (insert(w) \/ find(w))
         \/ create_table \/ begin_itr \/ increment_itr
  PROVE  /\ IInv'
         /\ OldLive' = OldLive /\ NewLive' = NewLive /\ TableKeys' = TableKeys
<1>1. /\ made \in BOOLEAN /\ n_buckets \in Nat /\ itr \in 0 .. n_buckets
      /\ key \in Content /\ (pc # "idle" => made) /\ (~made => n_buckets = 0)
  BY DEF IInv, TypeOK, Control
<1>2. CASE create_table
  BY <1>1, <1>2, Quiet DEF create_table
<1>3. CASE w \in Keys /\ insert(w)
  BY <1>1, <1>3, Quiet DEF insert, Idle, Content
<1>4. CASE w \in Keys /\ find(w)
  <2>1. kh_get(w) \in 0 .. n_buckets
    BY <1>1, <1>4, Lookup DEF find, Idle, OldLive, Slots
  <2> QED  BY <1>1, <1>4, <2>1, Quiet DEF find, Idle
<1>5. CASE begin_itr
  BY <1>1, <1>5, Quiet DEF begin_itr, Idle
<1>6. CASE increment_itr
  <2>1. Min(NextLive \cup {n_buckets}) \in 0 .. n_buckets
    BY <1>1, NextIs DEF IInv, NextLive, Slots
  <2> QED  BY <1>1, <1>6, <2>1, Quiet DEF increment_itr, Idle
<1> QED  BY <1>2, <1>3, <1>4, <1>5, <1>6

LEMMA CreateStep ==
  ASSUME IInv, create_table
  PROVE  IInv' /\ TableKeys' = {} /\ itr' = n_buckets'
<1>1. IInv' /\ TableKeys' = TableKeys
  BY QuietSteps
<1>2. n_buckets = 0 /\ itr \in 0 .. n_buckets /\ pc = "idle"
  BY DEF create_table, IInv, TypeOK, Control
<1>3. OldLive = {} /\ NewLive = {} /\ hand = NoHand
  BY <1>2, SizeBound DEF OldLive, Slots
<1>4. itr' = itr /\ n_buckets' = n_buckets
  BY DEF create_table, hvars
<1>5. TableKeys = {}
  BY <1>3 DEF TableKeys
<1> QED  BY <1>1, <1>2, <1>4, <1>5

LEMMA DestroyStep ==
  ASSUME IInv, destroy_table
  PROVE  IInv' /\ TableKeys' = {}
<1>1. pc' = "idle" /\ key' = key /\ rvars' = rvars /\ pc = "idle"
  BY DEF destroy_table, Idle
<1>2. hand' = NoHand /\ new_n' = 0 /\ new_flags' = NoArray /\ j' = 0
  BY <1>1 DEF IInv, Control, NoResize, rvars
<1>3. OldLive' = {} /\ NewLive' = {} /\ Slots' = {}
  BY <1>2 DEF destroy_table, NoArray, OldLive, NewLive, Slots
<1>4. TypeOK'
  <2>1. (flags \in [Slots -> Flags])' /\ (new_flags \in [0 .. new_n - 1 -> {"empty", "live"}])'
    <3>1. NoArray \in [{} -> Flags] /\ NoArray \in [{} -> {"empty", "live"}]
      BY DEF NoArray
    <3>2. 0 .. new_n' - 1 = {}
      BY <1>2
    <3> QED  BY <1>2, <1>3, <3>1, <3>2 DEF destroy_table
  <2>2. (DOMAIN keys)' = {} /\ (DOMAIN vals)' = {}
    BY DEF destroy_table, NoArray
  <2>3. /\ made' \in BOOLEAN /\ n_buckets' = 0 /\ new_n' = 0 /\ size' = 0 /\ j' = 0
        /\ n_occupied' = 0 /\ upper_bound' = 0 /\ itr' = 0 /\ pc' = "idle"
        /\ key' \in Content /\ hand' \in {NoHand}
    BY <1>1, <1>2 DEF destroy_table, IInv, TypeOK
  <2>4. TableSize(0) /\ (Slots \subseteq DOMAIN keys \cap DOMAIN vals)'
    BY <1>3 DEF TableSize
  <2> QED  BY <2>1, <2>2, <2>3, <2>4 DEF TypeOK
<1>5. Control'
  BY <1>1, <1>2 DEF destroy_table, NoResize, NoArray, Control, Room, UpperBound
<1>6. CountersAreRight'
  <2>1. {s \in Slots : flags[s] # "empty"}' = {}
    BY <1>3
  <2>2. Cardinality({}) = 0
    BY FS_EmptySet
  <2> QED  BY <1>2, <1>3, <2>1, <2>2 DEF destroy_table, CountersAreRight
<1>7. Pairs'
  BY <1>2, <1>3 DEF Pairs, PairsStayTogether
<1>8. Rehashing' /\ Reach'
  BY <1>1, <1>3 DEF Rehashing, Reach
<1>9. TableKeys' = {}
  BY <1>2, <1>3 DEF TableKeys
<1> QED  BY <1>4, <1>5, <1>6, <1>7, <1>8, <1>9 DEF IInv

\* An element is taken out.
LEMMA EraseStep ==
  ASSUME IInv, NEW w \in Keys, erase(w)
  PROVE  IInv' /\ TableKeys' = TableKeys \ {w}
<1> DEFINE x == kh_get(w)
<1>1. pc = "idle" /\ pc' = "idle" /\ made /\ made' = made /\ itr' = n_buckets
      /\ UNCHANGED <<n_buckets, n_occupied, upper_bound, keys, vals, pc, key,
                     new_n, new_flags, j, hand>>
  BY DEF erase, Idle, rvars
<1>2. hand = NoHand /\ NewLive = {} /\ Cardinality(OldLive) = size
  BY <1>1, SizeBound
<1>3. NewLive' = {} /\ hand' = NoHand /\ Slots' = Slots
  BY <1>1, <1>2 DEF NewLive, Slots
<1>4. n_buckets \in Nat /\ flags \in [Slots -> Flags]
  BY DEF IInv, TypeOK
<1>5. CASE \A s \in OldLive : keys[s] # w
  <2>1. x = n_buckets
    BY <1>1, <1>5, Lookup
  <2>2. flags' = flags /\ size' = size
    BY <2>1 DEF erase
  <2>3. IInv' /\ TableKeys' = TableKeys
    BY <1>1, <1>4, <2>2, Quiet DEF IInv, TypeOK, hvars, rvars
  <2>4. w \notin TableKeys
    BY <1>2, <1>5 DEF TableKeys
  <2> QED  BY <2>3, <2>4
<1>6. CASE \E s \in OldLive : keys[s] = w
  <2>1. x \in OldLive /\ keys[x] = w
    BY <1>1, <1>6, Lookup
  <2>2. x \in Slots /\ flags[x] = "live" /\ x # n_buckets
    BY <1>4, <2>1 DEF OldLive, Slots
  <2>3. flags' = [flags EXCEPT ![x] = "del"] /\ size' = size - 1
    BY <2>2 DEF erase, Deleted
  <2> HIDE DEF x
  <2>4. OldLive' = OldLive \ {x}
    BY <1>3, <1>4, <2>2, <2>3 DEF OldLive
  <2>5. Cardinality(OldLive') = size - 1 /\ size' \in Nat
    <3>1. Cardinality(OldLive \ {x}) = Cardinality(OldLive) - 1
      BY <2>1, FiniteSlots, FS_RemoveElement DEF IInv
    <3>2. IsFiniteSet(OldLive \ {x})
      BY FiniteSlots, FS_Subset DEF IInv
    <3>3. Cardinality(OldLive \ {x}) \in Nat
      BY <3>2, FS_CardinalityType
    <3> QED  BY <1>2, <2>3, <2>4, <3>1, <3>3
  <2>6. Occupied' = Occupied
    BY <1>3, <1>4, <2>2, <2>3 DEF Occupied
  <2>7. TypeOK'
    <3>1. flags' \in [Slots -> Flags]
      BY <1>4, <2>3 DEF Flags
    <3> QED  BY <1>1, <1>3, <1>4, <2>5, <3>1 DEF IInv, TypeOK
  <2>8. Control' /\ Rehashing'
    BY <1>1 DEF IInv, Control, Rehashing, Room, NoResize
  <2>9. CountersAreRight'
    <3>1. Cardinality({}) = 0
      BY FS_EmptySet
    <3>2. size' = Cardinality(OldLive') + Cardinality(NewLive') + 0
      BY <1>3, <2>3, <2>5, <3>1
    <3>3. n_occupied' = Cardinality(Occupied')
      BY <1>1, <2>6 DEF IInv, CountersAreRight, Occupied
    <3> QED  BY <1>3, <3>2, <3>3 DEF CountersAreRight, Occupied
  <2>10. Pairs'
    BY <1>1, <1>2, <1>3, <2>4 DEF IInv, Pairs, PairsStayTogether
  <2>11. Reach'
    <3> SUFFICES ASSUME NEW s \in OldLive'
                 PROVE  Reached(keys[s], s, flags', n_buckets)
      BY <1>1 DEF Reach, Reached
    <3>1. s \in OldLive /\ keys[s] \in Keys
      BY <1>2, <2>4 DEF IInv, Pairs
    <3>2. Reached(keys[s], s, flags, n_buckets)
      BY <1>1, <3>1 DEF IInv, Reach
    <3>3. \A u \in 0 .. n_buckets - 1 : flags[u] # "empty" => flags'[u] # "empty"
      BY <1>4, <2>3 DEF Slots
    <3>4. n_buckets \in Nat \ {0}
      BY <1>4, <2>2 DEF Slots
    <3> QED  BY <3>1, <3>2, <3>3, <3>4, StaysReached
  <2>12. TableKeys' = TableKeys \ {w}
    <3>1. TableKeys = {keys[s] : s \in OldLive}
      BY <1>2 DEF TableKeys
    <3>2. TableKeys' = {keys[s] : s \in OldLive \ {x}}
      BY <1>1, <1>3, <2>4 DEF TableKeys
    <3>3. \A s \in OldLive : keys[s] = keys[x] => s = x
      BY <2>1 DEF IInv, Pairs, PairsStayTogether
    <3> QED  BY <2>1, <3>1, <3>2, <3>3
  <2> QED  BY <2>7, <2>8, <2>9, <2>10, <2>11, <2>12 DEF IInv
<1> QED  BY <1>5, <1>6

LEMMA ExtendedIs ==
  ASSUME IInv, NEW n \in Nat, n_buckets <= n, NEW a, a = keys \/ a = vals
  PROVE  /\ Extended(a, n) \in [0 .. n - 1 -> Content]
         /\ \A s \in Slots : Extended(a, n)[s] = a[s]
         /\ Slots \subseteq 0 .. n - 1
<1>1. a \in [DOMAIN a -> Content] /\ Slots \subseteq DOMAIN a /\ n_buckets \in Nat
  BY DEF IInv, TypeOK, Control
<1>2. Slots \subseteq 0 .. n - 1
  BY <1>1 DEF Slots
<1>3. Extended(a, n) \in [0 .. n - 1 -> Content]
  BY <1>1 DEF Extended, Content
<1> QED  BY <1>1, <1>2, <1>3 DEF Extended

\* A rehash begins: it is never refused.
LEMMA StartStep ==
  ASSUME IInv, StartResize
  PROVE  IInv' /\ TableKeys' = TableKeys
<1> DEFINE R == RequestedSize
<1>1. pc = "resize" /\ n_buckets \in Nat /\ TableSize(n_buckets) /\ size \in Nat
      /\ made /\ key \in Keys /\ itr = n_buckets
  BY DEF StartResize, IInv, TypeOK, Control
<1>2. size <= UpperBound(n_buckets)
  BY <1>1, SizeBound, UpperBoundIs DEF IInv, TypeOK, Control, Room
<1>3. /\ R \in Nat /\ R >= 4 /\ PowerOfTwo(R) /\ n_buckets <= R
      /\ size < UpperBound(R)
  BY <1>1, <1>2, Requested
<1> HIDE DEF R
<1>4. ~(size >= UpperBound(R))
  BY <1>1, <1>3, UpperBoundIs
<1>5. /\ pc' = "rehash" /\ new_n' = R /\ new_flags' = [s \in 0 .. R - 1 |-> "empty"]
      /\ keys' = Extended(keys, R) /\ vals' = Extended(vals, R)
      /\ j' = 0 /\ hand' = NoHand
      /\ UNCHANGED <<made, n_buckets, size, n_occupied, upper_bound, flags, itr, key>>
  BY <1>4 DEF StartResize, R
<1>6. /\ keys' \in [0 .. R - 1 -> Content] /\ \A s \in Slots : keys'[s] = keys[s]
      /\ vals' \in [0 .. R - 1 -> Content] /\ \A s \in Slots : vals'[s] = vals[s]
      /\ Slots \subseteq 0 .. R - 1
  BY <1>3, <1>5, ExtendedIs
<1>7. hand = NoHand /\ NewLive = {} /\ size = Cardinality(OldLive)
  BY <1>1, SizeBound
<1>8. OldLive' = OldLive /\ NewLive' = {} /\ Slots' = Slots
  BY <1>5 DEF OldLive, NewLive, Slots
<1>9. OldLive \subseteq Slots
  BY DEF OldLive
<1>10. TypeOK'
  <2>1. new_flags' \in [0 .. new_n' - 1 -> {"empty", "live"}] /\ TableSize(new_n')
    BY <1>3, <1>5 DEF TableSize
  <2>2. (Slots \subseteq DOMAIN keys \cap DOMAIN vals)'
    BY <1>6, <1>8
  <2> QED  BY <1>1, <1>3, <1>5, <1>6, <1>8, <2>1, <2>2 DEF IInv, TypeOK
<1>11. Control'
  BY <1>1, <1>5, <1>6 DEF IInv, Control, Room
<1>12. Rehashing'
  BY <1>3, <1>5, <1>6, <1>8, <1>9 DEF Rehashing, Slots
<1>13. CountersAreRight'
  <2>1. Cardinality({}) = 0
    BY FS_EmptySet
  <2> QED  BY <1>1, <1>5, <1>7, <1>8, <2>1 DEF CountersAreRight
<1>14. Pairs'
  <2>1. \A s \in OldLive : keys'[s] = keys[s] /\ vals'[s] = vals[s]
    BY <1>6, <1>9
  <2> QED  BY <1>5, <1>7, <1>8, <2>1 DEF IInv, Pairs, PairsStayTogether
<1>15. Reach'
  BY <1>5, <1>8 DEF Reach
<1>16. TableKeys' = TableKeys
  BY <1>5, <1>6, <1>7, <1>8, <1>9 DEF TableKeys
<1> QED  BY <1>10, <1>11, <1>12, <1>13, <1>14, <1>15, <1>16 DEF IInv

LEMMA FailStep ==
  ASSUME IInv, FailResize
  PROVE  IInv' /\ TableKeys' = TableKeys
<1> DEFINE R == RequestedSize
<1>1. /\ pc = "resize" /\ pc' = "overrun" /\ keys' \in {keys, Extended(keys, R)}
      /\ UNCHANGED <<made, n_buckets, size, n_occupied, upper_bound, flags, vals,
                     itr, key, new_n, new_flags, j, hand>>
  BY DEF FailResize, rvars
<1>2. n_buckets \in Nat /\ TableSize(n_buckets) /\ size \in Nat
  BY DEF IInv, TypeOK
<1>3. size <= UpperBound(n_buckets)
  BY <1>1, <1>2, SizeBound, UpperBoundIs DEF IInv, TypeOK, Control, Room
<1>4. R \in Nat /\ n_buckets <= R
  BY <1>2, <1>3, Requested
<1> HIDE DEF R
<1>5. /\ keys' \in [DOMAIN keys' -> Content] /\ Slots \subseteq DOMAIN keys'
      /\ \A s \in Slots : keys'[s] = keys[s]
  <2>1. CASE keys' = keys
    BY <2>1 DEF IInv, TypeOK, Control
  <2>2. CASE keys' = Extended(keys, R)
    BY <1>4, <2>2, ExtendedIs
  <2> QED  BY <1>1, <2>1, <2>2
<1>6. hand = NoHand /\ NewLive = {}
  BY <1>1, SizeBound
<1>7. OldLive' = OldLive /\ NewLive' = {} /\ Slots' = Slots /\ OldLive \subseteq Slots
  BY <1>1, <1>6 DEF OldLive, NewLive, Slots
<1>8. TypeOK'
  BY <1>1, <1>5, <1>7 DEF IInv, TypeOK
<1>9. Control' /\ Rehashing'
  BY <1>1, <1>5 DEF IInv, Control, Rehashing, Room, NoResize
<1>10. CountersAreRight'
  BY <1>1, <1>6, <1>7 DEF IInv, CountersAreRight
<1>11. Pairs'
  <2>1. \A s \in OldLive : keys'[s] = keys[s] /\ vals'[s] = vals[s]
    BY <1>1, <1>5, <1>7
  <2> QED  BY <1>1, <1>6, <1>7, <2>1 DEF IInv, Pairs, PairsStayTogether
<1>12. Reach'
  <2>1. \A s \in OldLive : keys'[s] = keys[s] /\ Reached(keys[s], s, flags, n_buckets)
    BY <1>1, <1>5, <1>7 DEF IInv, Reach
  <2> QED  BY <1>1, <1>7, <2>1 DEF Reach, Reached
<1>13. TableKeys' = TableKeys
  BY <1>1, <1>5, <1>6, <1>7 DEF TableKeys
<1> QED  BY <1>8, <1>9, <1>10, <1>11, <1>12, <1>13 DEF IInv

-----------------------------------------------------------------------------
(* The steps of a rehash.                                                  *)

\* What holds while it is under way.
LEMMA UnderWay ==
  ASSUME IInv, pc = "rehash"
  PROVE  /\ n_buckets \in Nat /\ new_n \in Nat \ {0} /\ PowerOfTwo(new_n)
         /\ n_buckets <= new_n /\ j \in 0 .. n_buckets
         /\ flags \in [Slots -> Flags]
         /\ new_flags \in [0 .. new_n - 1 -> {"empty", "live"}]
         /\ keys \in [0 .. new_n - 1 -> Content] /\ vals \in [0 .. new_n - 1 -> Content]
         /\ OldLive \subseteq Slots /\ NewLive \subseteq 0 .. new_n - 1
         /\ Slots \subseteq 0 .. new_n - 1
         /\ hand # NoHand => hand \in [key : Keys, val : Keys]
BY DEF IInv, TypeOK, Control, Rehashing, TableSize, OldLive, NewLive, Slots

LEMMA NextStep ==
  ASSUME IInv, RehashNext
  PROVE  IInv' /\ TableKeys' = TableKeys /\ RehashLeft' < RehashLeft
<1>1. /\ pc = "rehash" /\ hand = NoHand /\ j < n_buckets
      /\ UNCHANGED <<made, n_buckets, size, n_occupied, upper_bound, keys, vals,
                     itr, pc, key, new_n, new_flags>>
  BY DEF RehashNext
<1>2. /\ n_buckets \in Nat /\ j \in Slots /\ flags \in [Slots -> Flags]
      /\ OldLive \subseteq Slots
  BY <1>1, UnderWay DEF Slots
<1>3. NewLive' = NewLive /\ Slots' = Slots
  BY <1>1 DEF NewLive, Slots
<1>4. /\ IsFiniteSet(OldLive) /\ Cardinality(OldLive) \in Nat
      /\ size = Cardinality(OldLive) + Cardinality(NewLive)
      /\ Cardinality(NewLive) \in Nat
  BY <1>1, FiniteSlots DEF IInv, CountersAreRight
<1>5. Reach'
  BY <1>1, <1>3 DEF IInv, Reach, Reached
<1>6. \A s \in OldLive : s >= j
  BY <1>1 DEF IInv, Rehashing
<1>7. CASE flags[j] = "live"
  <2>1. /\ hand' = [key |-> keys[j], val |-> vals[j]]
        /\ flags' = [flags EXCEPT ![j] = "del"] /\ j' = j
    BY <1>7 DEF RehashNext
  <2>2. j \in OldLive
    BY <1>2, <1>7 DEF OldLive
  <2>3. keys[j] \in Keys /\ vals[j] = keys[j]
    BY <2>2 DEF IInv, Pairs, PairsStayTogether
  <2>4. /\ hand' \in [key : Keys, val : Keys] /\ hand' # NoHand
        /\ hand'.key = keys[j] /\ hand'.val = keys[j]
    BY <2>1, <2>3, KhashAssumption DEF NoHand
  <2>5. OldLive' = OldLive \ {j}
    BY <1>2, <1>3, <2>1 DEF OldLive
  <2>6. Cardinality(OldLive') = Cardinality(OldLive) - 1
    BY <1>4, <2>2, <2>5, FS_RemoveElement
  <2>7. TypeOK'
    <3>1. flags' \in [Slots -> Flags]
      BY <1>2, <2>1 DEF Flags
    <3> QED  BY <1>1, <1>3, <2>1, <2>4, <3>1 DEF IInv, TypeOK
  <2>8. Control'
    BY <1>1 DEF IInv, Control, Room
  <2>9. Rehashing'
    BY <1>1, <1>6, <2>1, <2>5 DEF IInv, Rehashing
  <2>10. CountersAreRight'
    BY <1>1, <1>3, <1>4, <2>4, <2>6 DEF CountersAreRight
  <2>11. Pairs'
    BY <1>1, <1>3, <2>2, <2>4, <2>5 DEF IInv, Pairs, PairsStayTogether
  <2>12. TableKeys' = TableKeys
    BY <1>1, <1>3, <2>2, <2>4, <2>5 DEF TableKeys
  <2>13. RehashLeft' < RehashLeft
    <3>1. RehashLeft' = 2 * (n_buckets - j) + 2 * (Cardinality(OldLive) - 1) + 1
      BY <1>1, <2>1, <2>4, <2>6 DEF RehashLeft
    <3>2. RehashLeft = 2 * (n_buckets - j) + 2 * Cardinality(OldLive) + 0
      BY <1>1 DEF RehashLeft
    <3> QED  BY <1>2, <1>4, <3>1, <3>2 DEF Slots
  <2> QED  BY <1>5, <2>7, <2>8, <2>9, <2>10, <2>11, <2>12, <2>13 DEF IInv
<1>8. CASE flags[j] # "live"
  <2>1. j' = j + 1 /\ hand' = hand /\ flags' = flags
    BY <1>8 DEF RehashNext, NextSlot
  <2>2. OldLive' = OldLive
    BY <1>3, <2>1 DEF OldLive
  <2>3. j' \in 0 .. n_buckets /\ \A s \in OldLive : s >= j'
    BY <1>2, <1>6, <1>8, <2>1 DEF OldLive, Slots
  <2>4. TypeOK'
    BY <1>1, <1>3, <2>1, <2>3 DEF IInv, TypeOK
  <2>5. Control'
    BY <1>1 DEF IInv, Control, Room
  <2>6. Rehashing'
    BY <1>1, <2>1, <2>2, <2>3 DEF IInv, Rehashing
  <2>7. CountersAreRight'
    BY <1>1, <1>3, <2>1, <2>2 DEF IInv, CountersAreRight
  <2>8. Pairs'
    BY <1>1, <1>3, <2>1, <2>2 DEF IInv, Pairs, PairsStayTogether
  <2>9. TableKeys' = TableKeys
    BY <1>1, <1>3, <2>1, <2>2 DEF TableKeys
  <2>10. RehashLeft' < RehashLeft
    <3>1. RehashLeft' = 2 * (n_buckets - (j + 1)) + 2 * Cardinality(OldLive) + 0
      BY <1>1, <2>1, <2>2 DEF RehashLeft
    <3>2. RehashLeft = 2 * (n_buckets - j) + 2 * Cardinality(OldLive) + 0
      BY <1>1 DEF RehashLeft
    <3> QED  BY <1>2, <1>4, <3>1, <3>2 DEF Slots
  <2> QED  BY <1>5, <2>4, <2>5, <2>6, <2>7, <2>8, <2>9, <2>10 DEF IInv
<1> QED  BY <1>7, <1>8

LEMMA PlaceStep ==
  ASSUME IInv, Place
  PROVE  IInv' /\ TableKeys' = TableKeys /\ RehashLeft' < RehashLeft
<1> DEFINE into == NewSlot(hand.key)
<1>1. /\ pc = "rehash" /\ hand # NoHand
      /\ UNCHANGED <<made, n_buckets, size, n_occupied, upper_bound, itr, pc, key, new_n>>
      /\ new_flags' = [new_flags EXCEPT ![into] = "live"]
      /\ keys' = [keys EXCEPT ![into] = hand.key]
      /\ vals' = [vals EXCEPT ![into] = hand.val]
      /\ \/ /\ into < n_buckets /\ flags[into] = "live"
            /\ hand' = [key |-> keys[into], val |-> vals[into]]
            /\ flags' = [flags EXCEPT ![into] = "del"] /\ j' = j
         \/ /\ ~(into < n_buckets /\ flags[into] = "live")
            /\ hand' = NoHand /\ j' = j + 1 /\ flags' = flags
  BY DEF Place, KickedOut, ClearOld, NextSlot
<1>2. hand.key \in Keys /\ hand.val = hand.key /\ hand \in [key : Keys, val : Keys]
  BY <1>1, UnderWay DEF IInv, Pairs, PairsStayTogether
<1>3. /\ into \in 0 .. new_n - 1 /\ new_flags[into] = "empty"
      /\ Reached(hand.key, into, new_flags, new_n)
  BY <1>1, <1>2, UnderWay, FreeNewSlot, NewSlotIs
<1> HIDE DEF into
<1>4. /\ n_buckets \in Nat /\ new_n \in Nat \ {0} /\ j \in 0 .. n_buckets - 1
      /\ flags \in [Slots -> Flags]
      /\ new_flags \in [0 .. new_n - 1 -> {"empty", "live"}]
      /\ keys \in [0 .. new_n - 1 -> Content] /\ vals \in [0 .. new_n - 1 -> Content]
      /\ OldLive \subseteq Slots /\ NewLive \subseteq 0 .. new_n - 1
      /\ Slots \subseteq 0 .. new_n - 1 /\ hand.key \in Content
  BY <1>1, <1>2, UnderWay DEF IInv, Rehashing, Content
<1>5. /\ IsFiniteSet(OldLive) /\ Cardinality(OldLive) \in Nat
      /\ IsFiniteSet(NewLive) /\ Cardinality(NewLive) \in Nat
      /\ size = Cardinality(OldLive) + Cardinality(NewLive) + 1
  BY <1>1, FiniteSlots DEF IInv, CountersAreRight
<1>6. Slots' = Slots
  BY <1>1 DEF Slots
<1>7. NewLive' = NewLive \cup {into} /\ into \notin NewLive
  BY <1>1, <1>3, <1>4 DEF NewLive
<1>8. Cardinality(NewLive') = Cardinality(NewLive) + 1
  BY <1>5, <1>7, FS_AddElement
<1>9. /\ keys' \in [0 .. new_n - 1 -> Content] /\ vals' \in [0 .. new_n - 1 -> Content]
      /\ keys'[into] = hand.key /\ vals'[into] = hand.key
      /\ \A s \in 0 .. new_n - 1 : s # into => keys'[s] = keys[s] /\ vals'[s] = vals[s]
      /\ new_flags' \in [0 .. new_n - 1 -> {"empty", "live"}]
  BY <1>1, <1>2, <1>3, <1>4
<1>10. Control'
  BY <1>1, <1>4, <1>9 DEF IInv, Control, Room
<1>11. Reach'
  <2> SUFFICES ASSUME NEW s \in NewLive \cup {into}
               PROVE  Reached(keys'[s], s, new_flags', new_n)
    BY <1>1, <1>7 DEF Reach, Reached
  <2>1. \A u \in 0 .. new_n - 1 : new_flags[u] # "empty" => new_flags'[u] # "empty"
    BY <1>1, <1>4
  <2>2. keys'[s] \in Keys /\ Reached(keys'[s], s, new_flags, new_n)
    <3>1. CASE s = into
      BY <1>2, <1>3, <1>9, <3>1
    <3>2. CASE s # into
      <4>1. s \in NewLive /\ keys'[s] = keys[s]
        BY <1>4, <1>9, <3>2
      <4>2. keys[s] \in Keys /\ Reached(keys[s], s, new_flags, new_n)
        BY <1>1, <4>1 DEF IInv, Pairs, Reach
      <4> QED  BY <4>1, <4>2
    <3> QED  BY <3>1, <3>2
  <2> QED  BY <1>4, <2>1, <2>2, StaysReached
<1>12. \A s \in OldLive : s > j
  BY <1>1, <1>4 DEF IInv, Rehashing, Slots
<1>13. /\ OldLive \cap NewLive = {}
       /\ \A s, u \in OldLive \cup NewLive : keys[s] = keys[u] => s = u
       /\ \A s \in OldLive \cup NewLive :
            vals[s] = keys[s] /\ keys[s] \in Keys /\ keys[s] # hand.key
  BY <1>1 DEF IInv, Pairs, PairsStayTogether
<1>14. CASE into \in OldLive
  <2>1. into < n_buckets /\ flags[into] = "live" /\ into \in Slots
    BY <1>4, <1>14 DEF OldLive, Slots
  <2>2. /\ hand' = [key |-> keys[into], val |-> vals[into]]
        /\ flags' = [flags EXCEPT ![into] = "del"] /\ j' = j
    BY <1>1, <2>1
  <2>3. keys[into] \in Keys /\ vals[into] = keys[into]
    BY <1>13, <1>14
  <2>4. /\ hand' \in [key : Keys, val : Keys] /\ hand' # NoHand
        /\ hand'.key = keys[into] /\ hand'.val = keys[into]
    BY <2>2, <2>3, KhashAssumption DEF NoHand
  <2>5. OldLive' = OldLive \ {into}
    BY <1>4, <1>6, <2>1, <2>2 DEF OldLive
  <2>6. Cardinality(OldLive') = Cardinality(OldLive) - 1
    BY <1>5, <1>14, <2>5, FS_RemoveElement
  <2>7. TypeOK'
    <3>1. flags' \in [Slots -> Flags]
      BY <1>4, <2>2 DEF Flags
    <3> QED  BY <1>1, <1>4, <1>6, <1>9, <2>2, <2>4, <3>1 DEF IInv, TypeOK
  <2>8. Rehashing'
    BY <1>1, <1>4, <1>9, <1>12, <2>2, <2>5 DEF IInv, Rehashing, Slots
  <2>9. CountersAreRight'
    BY <1>1, <1>5, <1>8, <2>4, <2>6 DEF CountersAreRight
  <2>10. OldLive' \cup NewLive' = OldLive \cup NewLive
    BY <1>7, <1>14, <2>5
  <2>11. \A s \in OldLive \cup NewLive : s # into => keys'[s] = keys[s] /\ vals'[s] = vals[s]
    BY <1>4, <1>9
  <2>12. Pairs'
    <3>1. (OldLive \cap NewLive)' = {}
      BY <1>7, <1>13, <2>5
    <3>2. \A s, u \in OldLive \cup NewLive : keys'[s] = keys'[u] => s = u
      BY <1>9, <1>13, <2>11
    <3>3. \A s \in OldLive \cup NewLive : vals'[s] = keys'[s] /\ keys'[s] \in Keys
      BY <1>2, <1>9, <1>13, <2>11
    <3>4. \A s \in OldLive \cup NewLive : keys'[s] # hand'.key
      BY <1>9, <1>13, <1>14, <2>4, <2>11
    <3> QED  BY <2>4, <2>10, <3>1, <3>2, <3>3, <3>4 DEF Pairs, PairsStayTogether
  <2>13. TableKeys' = TableKeys
    <3>1. TableKeys = {keys[s] : s \in OldLive \cup NewLive} \cup {hand.key}
      BY <1>1 DEF TableKeys
    <3>2. TableKeys' = {keys'[s] : s \in OldLive \cup NewLive} \cup {keys[into]}
      BY <2>4, <2>10 DEF TableKeys
    <3>3. into \in OldLive \cup NewLive
      BY <1>14
    <3> QED  BY <1>9, <2>11, <3>1, <3>2, <3>3
  <2>14. RehashLeft' < RehashLeft
    <3>1. RehashLeft' = 2 * (n_buckets - j) + 2 * (Cardinality(OldLive) - 1) + 1
      BY <1>1, <2>2, <2>4, <2>6 DEF RehashLeft
    <3>2. RehashLeft = 2 * (n_buckets - j) + 2 * Cardinality(OldLive) + 1
      BY <1>1 DEF RehashLeft
    <3> QED  BY <1>4, <1>5, <3>1, <3>2
  <2> QED  BY <1>10, <1>11, <2>7, <2>8, <2>9, <2>12, <2>13, <2>14 DEF IInv
<1>15. CASE into \notin OldLive
  <2>1. ~(into < n_buckets /\ flags[into] = "live")
    BY <1>3, <1>4, <1>15 DEF OldLive, Slots
  <2>2. hand' = NoHand /\ j' = j + 1 /\ flags' = flags
    BY <1>1, <2>1
  <2>3. OldLive' = OldLive
    BY <1>6, <2>2 DEF OldLive
  <2>4. j' \in 0 .. n_buckets /\ \A s \in OldLive : s >= j'
    BY <1>4, <1>12, <2>2 DEF Slots
  <2>5. TypeOK'
    BY <1>1, <1>4, <1>6, <1>9, <2>2, <2>4 DEF IInv, TypeOK
  <2>6. Rehashing'
    BY <1>1, <1>9, <2>2, <2>3, <2>4 DEF IInv, Rehashing
  <2>7. CountersAreRight'
    BY <1>1, <1>5, <1>8, <2>2, <2>3 DEF CountersAreRight
  <2>8. \A s \in OldLive \cup NewLive : s # into /\ keys'[s] = keys[s] /\ vals'[s] = vals[s]
    BY <1>4, <1>7, <1>9, <1>15
  <2>9. OldLive' \cup NewLive' = (OldLive \cup NewLive) \cup {into}
    BY <1>7, <2>3
  <2>10. Pairs'
    <3>1. (OldLive \cap NewLive)' = {}
      BY <1>7, <1>13, <1>15, <2>3
    <3>2. \A s, u \in (OldLive \cup NewLive) \cup {into} : keys'[s] = keys'[u] => s = u
      BY <1>9, <1>13, <2>8
    <3>3. \A s \in (OldLive \cup NewLive) \cup {into} : vals'[s] = keys'[s] /\ keys'[s] \in Keys
      BY <1>2, <1>9, <1>13, <2>8
    <3> QED  BY <2>2, <2>9, <3>1, <3>2, <3>3 DEF Pairs, PairsStayTogether
  <2>11. TableKeys' = TableKeys
    <3>1. TableKeys = {keys[s] : s \in OldLive \cup NewLive} \cup {hand.key}
      BY <1>1 DEF TableKeys
    <3>2. TableKeys' = {keys'[s] : s \in (OldLive \cup NewLive) \cup {into}}
      BY <2>2, <2>9 DEF TableKeys
    <3> QED  BY <1>9, <2>8, <3>1, <3>2
  <2>12. RehashLeft' < RehashLeft
    <3>1. RehashLeft' = 2 * (n_buckets - (j + 1)) + 2 * Cardinality(OldLive) + 0
      BY <1>1, <2>2, <2>3 DEF RehashLeft
    <3>2. RehashLeft = 2 * (n_buckets - j) + 2 * Cardinality(OldLive) + 1
      BY <1>1 DEF RehashLeft
    <3> QED  BY <1>4, <1>5, <3>1, <3>2
  <2> QED  BY <1>10, <1>11, <2>5, <2>6, <2>7, <2>10, <2>11, <2>12 DEF IInv
<1> QED  BY <1>14, <1>15

LEMMA FinishStep ==
  ASSUME IInv, FinishResize
  PROVE  IInv' /\ TableKeys' = TableKeys
<1>1. /\ pc = "rehash" /\ hand = NoHand /\ j = n_buckets
      /\ flags' = new_flags /\ n_buckets' = new_n /\ n_occupied' = size
      /\ upper_bound' = UpperBound(new_n) /\ itr' = new_n /\ pc' = "put"
      /\ new_n' = 0 /\ new_flags' = NoArray /\ j' = 0 /\ hand' = NoHand
      /\ UNCHANGED <<made, size, keys, vals, key>>
  BY DEF FinishResize, OccupiedAfterResize, EndResize
<1>2. /\ n_buckets \in Nat /\ new_n \in Nat \ {0} /\ PowerOfTwo(new_n) /\ new_n >= 4
      /\ new_flags \in [0 .. new_n - 1 -> {"empty", "live"}]
      /\ keys \in [0 .. new_n - 1 -> Content] /\ vals \in [0 .. new_n - 1 -> Content]
      /\ size \in Nat /\ size < UpperBound(new_n) /\ UpperBound(new_n) \in Nat
      /\ made /\ key \in Keys
  BY <1>1, UnderWay, UpperBoundIs DEF IInv, TypeOK, Rehashing, Control
<1>3. OldLive = {}
  BY <1>1, <1>2 DEF IInv, Rehashing, OldLive, Slots
<1>4. Slots' = 0 .. new_n - 1 /\ OldLive' = NewLive /\ NewLive' = {}
  BY <1>1, <1>2 DEF Slots, OldLive, NewLive, NoArray
<1>5. Occupied' = NewLive
  BY <1>1, <1>2, <1>4 DEF Occupied, NewLive
<1>6. size = Cardinality(NewLive) /\ Cardinality({}) = 0
  <2>1. Cardinality({}) = 0
    BY FS_EmptySet
  <2>2. Cardinality(NewLive) \in Nat
    BY FiniteSlots DEF IInv
  <2> QED  BY <1>1, <1>3, <2>1, <2>2 DEF IInv, CountersAreRight
<1>7. TypeOK'
  <2>1. (flags \in [Slots -> Flags])'
    BY <1>1, <1>2, <1>4 DEF Flags
  <2>2. new_flags' \in [0 .. new_n' - 1 -> {"empty", "live"}] /\ TableSize(0)
    <3>1. NoArray \in [{} -> {"empty", "live"}]
      BY DEF NoArray
    <3>2. 0 .. new_n' - 1 = {}
      BY <1>1
    <3> QED  BY <1>1, <3>1, <3>2 DEF TableSize
  <2>3. (Slots \subseteq DOMAIN keys \cap DOMAIN vals)'
    BY <1>1, <1>2, <1>4
  <2> QED  BY <1>1, <1>2, <2>1, <2>2, <2>3 DEF IInv, TypeOK, TableSize
<1>8. Control' /\ Rehashing'
  BY <1>1, <1>2 DEF Control, Rehashing, Room, NoResize
<1>9. CountersAreRight'
  <2>1. n_occupied' = Cardinality(Occupied')
    BY <1>1, <1>5, <1>6
  <2>2. size' = Cardinality(OldLive') + Cardinality(NewLive') + 0
    BY <1>1, <1>2, <1>4, <1>6
  <2> QED  BY <1>1, <2>1, <2>2 DEF CountersAreRight, Occupied
<1>10. Pairs'
  BY <1>1, <1>4 DEF IInv, Pairs, PairsStayTogether
<1>11. Reach'
  BY <1>1, <1>4 DEF IInv, Reach, Reached
<1>12. TableKeys' = TableKeys
  BY <1>1, <1>3, <1>4 DEF TableKeys
<1> QED  BY <1>7, <1>8, <1>9, <1>10, <1>11, <1>12 DEF IInv

-----------------------------------------------------------------------------
(* The rest of kh_put.                                                     *)

\* Where it puts the key: its own bucket, or one that holds no element.
LEMMA PutsAt ==
  ASSUME IInv, pc = "put"
  PROVE  /\ PutSlot(key) \in Slots /\ key \in Keys
         /\ \/ PutSlot(key) \in OldLive /\ keys[PutSlot(key)] = key
            \/ /\ \A s \in OldLive : keys[s] # key
               /\ flags[PutSlot(key)] # "live"
               /\ Reached(key, PutSlot(key), flags, n_buckets)
<1>1. key \in Keys
  BY DEF IInv, Control
<1>2. CASE \A s \in OldLive : keys[s] # key
  <2>1. PICK e \in Slots : flags[e] = "empty"
    BY FreeSlot
  <2> QED  BY <1>1, <1>2, <2>1, Fresh DEF IInv
<1>3. CASE \E s \in OldLive : keys[s] = key
  <2>1. PutSlot(key) \in OldLive /\ keys[PutSlot(key)] = key
    BY <1>1, <1>3, Lookup
  <2> QED  BY <1>1, <2>1 DEF OldLive
<1> QED  BY <1>2, <1>3

LEMMA PutStep ==
  ASSUME IInv, Put
  PROVE  IInv' /\ TableKeys' = TableKeys \cup {key}
<1> DEFINE x == PutSlot(key)
<1>1. /\ pc = "put" /\ pc' = "idle" /\ key' = Garbage /\ itr' = n_buckets
      /\ UNCHANGED <<made, n_buckets, upper_bound, new_n, new_flags, j, hand>>
      /\ keys' = (IF flags[x] = "live" THEN keys ELSE [keys EXCEPT ![x] = key])
      /\ flags' = [flags EXCEPT ![x] = "live"]
      /\ vals' = [vals EXCEPT ![x] = key]
      /\ size' = (IF flags[x] = "live" THEN size ELSE size + 1)
      /\ n_occupied' = (IF flags[x] = "empty" THEN n_occupied + 1 ELSE n_occupied)
  BY DEF Put, rvars
<1>2. /\ x \in Slots /\ key \in Keys
      /\ \/ x \in OldLive /\ keys[x] = key
         \/ /\ \A s \in OldLive : keys[s] # key
            /\ flags[x] # "live" /\ Reached(key, x, flags, n_buckets)
  BY <1>1, PutsAt
<1> HIDE DEF x
<1>3. /\ hand = NoHand /\ NewLive = {} /\ size = Cardinality(OldLive)
      /\ n_occupied = Cardinality(Occupied)
  BY <1>1, SizeBound DEF IInv, CountersAreRight, Occupied
<1>4. /\ n_buckets \in Nat \ {0} /\ flags \in [Slots -> Flags] /\ made
      /\ keys \in [DOMAIN keys -> Content] /\ vals \in [DOMAIN vals -> Content]
      /\ Slots \subseteq DOMAIN keys /\ Slots \subseteq DOMAIN vals
      /\ n_occupied < Room /\ Room \in Nat /\ n_occupied \in Nat /\ size \in Nat
  BY <1>1, <1>2, UpperBoundIs DEF IInv, TypeOK, Control, Room, Slots
<1>5. Slots' = Slots /\ NewLive' = {} /\ OldLive \subseteq Slots
  BY <1>1, <1>3 DEF Slots, NewLive, OldLive
<1>6. OldLive' = OldLive \cup {x}
  BY <1>1, <1>2, <1>4, <1>5 DEF OldLive
<1>7. Occupied' = Occupied \cup {x}
  BY <1>1, <1>2, <1>4, <1>5 DEF Occupied
<1>8. size' = Cardinality(OldLive') /\ size' \in Nat
  <2>1. IsFiniteSet(OldLive)
    BY FiniteSlots DEF IInv
  <2>2. Cardinality(OldLive \cup {x}) = IF x \in OldLive THEN Cardinality(OldLive)
                                        ELSE Cardinality(OldLive) + 1
    BY <2>1, FS_AddElement
  <2>3. x \in OldLive <=> flags[x] = "live"
    BY <1>2 DEF OldLive
  <2> QED  BY <1>1, <1>3, <1>4, <1>6, <2>2, <2>3
<1>9. n_occupied' = Cardinality(Occupied') /\ n_occupied' \in Nat /\ n_occupied' <= Room
  <2>1. IsFiniteSet(Occupied)
    BY FiniteSlots DEF IInv
  <2>2. Cardinality(Occupied \cup {x}) = IF x \in Occupied THEN Cardinality(Occupied)
                                         ELSE Cardinality(Occupied) + 1
    BY <2>1, FS_AddElement
  <2>3. x \in Occupied <=> flags[x] # "empty"
    BY <1>2 DEF Occupied
  <2> QED  BY <1>1, <1>3, <1>4, <1>7, <2>2, <2>3
<1>10. /\ keys' \in [DOMAIN keys -> Content] /\ vals' \in [DOMAIN vals -> Content]
       /\ keys'[x] = key /\ vals'[x] = key
       /\ \A s \in Slots : s # x => keys'[s] = keys[s] /\ vals'[s] = vals[s]
       /\ flags' \in [Slots -> Flags]
  <2>1. key \in Content
    BY <1>2 DEF Content
  <2>2. flags[x] = "live" => keys[x] = key
    BY <1>2
  <2>3. x \in DOMAIN keys /\ x \in DOMAIN vals
    BY <1>2, <1>4
  <2>4. /\ vals' \in [DOMAIN vals -> Content] /\ vals'[x] = key
        /\ \A s \in Slots : s # x => vals'[s] = vals[s]
    BY <1>1, <1>4, <2>1, <2>3
  <2>5. flags' \in [Slots -> Flags]
    BY <1>1, <1>4 DEF Flags
  <2>6. /\ keys' \in [DOMAIN keys -> Content] /\ keys'[x] = key
        /\ \A s \in Slots : s # x => keys'[s] = keys[s]
    BY <1>1, <1>4, <2>1, <2>2, <2>3
  <2> QED  BY <2>4, <2>5, <2>6
<1>11. TypeOK'
  BY <1>1, <1>4, <1>5, <1>8, <1>9, <1>10 DEF IInv, TypeOK, Content
<1>12. Control'
  BY <1>1, <1>4, <1>9, <1>10 DEF IInv, Control, Room, NoResize
<1>13. Rehashing'
  BY <1>1 DEF Rehashing
<1>14. CountersAreRight'
  <2>1. Cardinality({}) = 0
    BY FS_EmptySet
  <2>2. size' = Cardinality(OldLive') + Cardinality(NewLive') + 0
    BY <1>5, <1>8, <2>1
  <2> QED  BY <1>1, <1>3, <1>9, <2>2 DEF CountersAreRight, Occupied
<1>15. /\ \A s, u \in OldLive : keys[s] = keys[u] => s = u
       /\ \A s \in OldLive : vals[s] = keys[s] /\ keys[s] \in Keys
  BY DEF IInv, Pairs, PairsStayTogether
<1>16. \A s \in OldLive : s # x => keys'[s] = keys[s] /\ vals'[s] = vals[s]
                                  /\ keys[s] # key
  BY <1>2, <1>5, <1>10, <1>15
<1>17. Pairs'
  <2>1. \A s, u \in OldLive \cup {x} : keys'[s] = keys'[u] => s = u
    BY <1>10, <1>15, <1>16
  <2>2. \A s \in OldLive \cup {x} : vals'[s] = keys'[s] /\ keys'[s] \in Keys
    BY <1>2, <1>10, <1>15, <1>16
  <2> QED  BY <1>1, <1>3, <1>5, <1>6, <2>1, <2>2 DEF Pairs, PairsStayTogether
<1>18. Reach'
  <2> SUFFICES ASSUME NEW s \in OldLive \cup {x}
               PROVE  Reached(keys'[s], s, flags', n_buckets)
    BY <1>1, <1>6 DEF Reach, Reached
  <2>1. \A u \in 0 .. n_buckets - 1 : flags[u] # "empty" => flags'[u] # "empty"
    BY <1>1, <1>4 DEF Slots
  <2>2. keys'[s] \in Keys /\ Reached(keys'[s], s, flags, n_buckets)
    <3>1. CASE s \in OldLive
      <4>1. keys'[s] = keys[s]
        BY <1>2, <1>10, <1>16, <3>1 DEF OldLive
      <4> QED  BY <1>1, <1>15, <3>1, <4>1 DEF IInv, Reach
    <3>2. CASE s \notin OldLive
      <4>1. s = x /\ keys'[s] = key
        BY <1>10, <3>2
      <4> QED  BY <1>2, <3>2, <4>1
    <3> QED  BY <3>1, <3>2
  <2> QED  BY <1>4, <2>1, <2>2, StaysReached
<1>19. TableKeys' = TableKeys \cup {key}
  <2>1. TableKeys = {keys[s] : s \in OldLive}
    BY <1>3 DEF TableKeys
  <2>2. TableKeys' = {keys'[s] : s \in OldLive \cup {x}}
    BY <1>1, <1>3, <1>5, <1>6 DEF TableKeys
  <2>3. x \in OldLive => keys[x] = key
    BY <1>2 DEF OldLive
  <2> QED  BY <1>10, <1>16, <2>1, <2>2, <2>3
<1> QED  BY <1>11, <1>12, <1>13, <1>14, <1>17, <1>18, <1>19 DEF IInv

-----------------------------------------------------------------------------
(* Putting the steps together.                                             *)

LEMMA Stutter ==
  ASSUME IInv, UNCHANGED vars
  PROVE  IInv'
<1> USE DEF vars, hvars, rvars
<1>1. OldLive' = OldLive /\ NewLive' = NewLive /\ Slots' = Slots
  BY DEF OldLive, NewLive, Slots
<1>2. TypeOK'
  BY <1>1 DEF IInv, TypeOK
<1>3. Control' /\ Rehashing'
  BY <1>1 DEF IInv, Control, Room, Crowded, NoResize, Rehashing
<1>4. CountersAreRight'
  BY <1>1 DEF IInv, CountersAreRight
<1>5. Pairs' /\ Reach'
  BY <1>1 DEF IInv, Pairs, PairsStayTogether, Reach, Reached
<1> QED  BY <1>2, <1>3, <1>4, <1>5 DEF IInv

LEMMA StepInv ==
  ASSUME IInv, [Next]_vars
  PROVE  IInv'
<1>1. CASE create_table
  BY <1>1, QuietSteps
<1>2. ASSUME NEW w \in Keys, insert(w) \/ erase(w) \/ find(w)
      PROVE  IInv'
  BY <1>2, QuietSteps, EraseStep
<1>3. CASE begin_itr \/ increment_itr
  BY <1>3, QuietSteps
<1>4. CASE UNCHANGED vars \/ Overrun
  BY <1>4, Stutter DEF Overrun
<1> QED  BY <1>1, <1>2, <1>3, <1>4, DestroyStep, StartStep, FailStep, NextStep,
            PlaceStep, FinishStep, PutStep DEF Next

LEMMA Invariance == Spec => []IInv
BY InitInv, StepInv, PTL DEF Spec

\* The table stays well-formed: its size a power of two, every flag and index
\* in range.
THEOREM TypeCorrect == Spec => []TypeOK
<1>1. IInv => TypeOK
  BY DEF IInv
<1> QED  BY <1>1, Invariance, PTL

\* size and n_occupied count what they are meant to count.
THEOREM Counters == Spec => []CountersAreRight
<1>1. IInv => CountersAreRight
  BY DEF IInv
<1> QED  BY <1>1, Invariance, PTL

\* No key is in two buckets, and none is parted from its value.
THEOREM PairsTogether == Spec => []PairsStayTogether
<1>1. IInv => PairsStayTogether
  BY DEF IInv, Pairs
<1> QED  BY <1>1, Invariance, PTL

\* kh_put and the kick-out loop find a free bucket, so that no value of another
\* key is overwritten.
THEOREM RoomIsThere == Spec => []RoomWhenInserting
<1>1. ASSUME IInv
      PROVE  RoomWhenInserting
  <2>1. pc = "put" => \E s \in Slots : flags[s] = "empty"
    BY <1>1, FreeSlot
  <2>2. pc = "put" => LET x == PutSlot(key) IN flags[x] = "live" => keys[x] = key
    BY <1>1, PutsAt
  <2>3. DOMAIN new_flags = 0 .. new_n - 1
    BY <1>1 DEF IInv, TypeOK
  <2>4. pc = "rehash" /\ hand # NoHand =>
          \E s \in DOMAIN new_flags : new_flags[s] = "empty"
    BY <1>1, <2>3, FreeNewSlot
  <2> QED  BY <2>1, <2>2, <2>4 DEF RoomWhenInserting
<1> QED  BY <1>1, Invariance, PTL

\* The kick-out loop comes to an end.
THEOREM Advances == Spec => RehashAdvances
<1>1. ASSUME IInv, [Next]_vars
      PROVE  [pc = "rehash" /\ pc' = "rehash" => RehashLeft' < RehashLeft]_vars
  <2> SUFFICES ASSUME pc = "rehash", pc' = "rehash", Next, ~UNCHANGED vars
               PROVE  RehashLeft' < RehashLeft
    BY <1>1
  <2>1. RehashNext \/ Place
    <3>1. made
      BY <1>1 DEF IInv, Control
    <3> QED  BY <3>1 DEF Next, create_table, destroy_table, insert, erase, find,
                         begin_itr, increment_itr, Idle, StartResize, FailResize,
                         FinishResize, Put, Overrun
  <2> QED  BY <1>1, <2>1, NextStep, PlaceStep
<1> QED  BY <1>1, Invariance, PTL DEF Spec, RehashAdvances

-----------------------------------------------------------------------------
(* The refinement.                                                         *)

LEMMA EraseImplements ==
  ASSUME IInv, NEW w \in Keys, erase(w)
  PROVE  Contract!erase(w)
<1>1. TableKeys' = TableKeys \ {w} /\ made /\ made' = made
      /\ itr' = n_buckets /\ n_buckets' = n_buckets
  BY EraseStep DEF erase, Idle
<1> QED  BY <1>1 DEF Contract!erase, Contract!EndItr, AbstractItr

LEMMA PutImplements ==
  ASSUME IInv, Put
  PROVE  Contract!insert(key)
<1>1. TableKeys' = TableKeys \cup {key} /\ made /\ made' = made
      /\ itr' = n_buckets /\ n_buckets' = n_buckets
  BY PutStep DEF Put, IInv, Control
<1> QED  BY <1>1 DEF Contract!insert, Contract!EndItr, AbstractItr

\* What is in the table between two calls.
LEMMA IdleTable ==
  ASSUME IInv, pc = "idle"
  PROVE  /\ TableKeys = {keys[s] : s \in OldLive}
         /\ \A s, u \in OldLive : keys[s] = keys[u] => s = u
         /\ n_buckets \notin OldLive /\ NextLive \subseteq OldLive
<1>1. NewLive = {} /\ hand = NoHand
  BY SizeBound
<1>2. n_buckets \in Nat /\ itr \in Nat
  BY DEF IInv, TypeOK
<1>3. TableKeys = {keys[s] : s \in OldLive}
  BY <1>1 DEF TableKeys
<1>4. n_buckets \notin OldLive /\ NextLive \subseteq OldLive
  BY <1>2 DEF NextLive, OldLive, Slots
<1> QED  BY <1>3, <1>4 DEF IInv, Pairs, PairsStayTogether

LEMMA FindImplements ==
  ASSUME IInv, NEW w \in Keys, find(w)
  PROVE  Contract!find(w)
<1>1. /\ pc = "idle" /\ made /\ made' = made /\ itr' = kh_get(w)
      /\ UNCHANGED <<n_buckets, flags, keys>> /\ TableKeys' = TableKeys
  BY QuietSteps DEF find, Idle, hvars
<1>2. CASE \E s \in OldLive : keys[s] = w
  <2>1. PICK s \in OldLive : keys[s] = w /\ kh_get(w) = s
    BY <1>1, <1>2, Lookup
  <2> DEFINE later == {keys[u] : u \in NextLive'}
  <2>2. AbstractItr' = [here |-> {w}, rest |-> later]
    BY <1>1, <2>1, IdleTable DEF AbstractItr
  <2>3. \A u \in NextLive' : u \in OldLive /\ u # s
    BY <1>1, <2>1 DEF NextLive, OldLive, Slots, IInv, TypeOK
  <2>4. later \in SUBSET (TableKeys \ {w}) /\ w \in TableKeys
    BY <1>1, <2>1, <2>3, IdleTable
  <2> HIDE DEF later
  <2> QED  BY <1>1, <2>2, <2>4 DEF Contract!find
<1>3. CASE \A s \in OldLive : keys[s] # w
  <2>1. kh_get(w) = n_buckets
    BY <1>1, <1>3, Lookup
  <2>2. w \notin TableKeys
    BY <1>1, <1>3, IdleTable
  <2> QED  BY <1>1, <2>1, <2>2 DEF Contract!find, Contract!EndItr, AbstractItr
<1> QED  BY <1>2, <1>3

LEMMA IncrementImplements ==
  ASSUME IInv, increment_itr
  PROVE  Contract!increment_itr
<1> DEFINE m == Min(NextLive \cup {n_buckets})
<1>1. /\ pc = "idle" /\ made /\ made' = made /\ itr' = m /\ itr # n_buckets
      /\ UNCHANGED <<n_buckets, flags, keys>> /\ TableKeys' = TableKeys
  BY QuietSteps DEF increment_itr, Idle, hvars, is_itr_valid
<1>2. /\ m \in NextLive \cup {n_buckets}
      /\ \A s \in NextLive : m <= s /\ s < n_buckets
  BY NextIs DEF IInv
<1> HIDE DEF m
<1>3. AbstractItr = [here |-> {keys[itr]}, rest |-> {keys[s] : s \in NextLive}]
  BY <1>1 DEF AbstractItr
<1>4. CASE NextLive = {}
  <2>1. m = n_buckets
    BY <1>2, <1>4
  <2>2. AbstractItr.here # {} /\ AbstractItr.rest = {}
    BY <1>3, <1>4
  <2>3. AbstractItr' = [here |-> {}, rest |-> {}]
    BY <1>1, <2>1 DEF AbstractItr
  <2> QED  BY <1>1, <2>2, <2>3
           DEF Contract!increment_itr, Contract!is_itr_valid, Contract!EndItr
<1>5. CASE NextLive # {}
  <2>1. m \in NextLive /\ m # n_buckets
    <3>1. \A s \in NextLive : s \in Int
      BY DEF NextLive, Slots
    <3> QED  BY <1>2, <1>5, <3>1 DEF IInv, TypeOK
  <2>2. NextLive' = NextLive \ {m}
    <3>1. NextLive' = {s \in Slots : s > m /\ flags[s] = "live"}
      BY <1>1 DEF NextLive, Slots
    <3>2. itr \in Int
      BY DEF IInv, TypeOK
    <3> QED  BY <1>2, <2>1, <3>1, <3>2 DEF NextLive, Slots
  <2>3. {keys[s] : s \in NextLive \ {m}} = {keys[s] : s \in NextLive} \ {keys[m]}
    BY <1>1, <2>1, IdleTable
  <2>4. AbstractItr' = [here |-> {keys[m]}, rest |-> {keys[s] : s \in NextLive \ {m}}]
    BY <1>1, <2>1, <2>2 DEF AbstractItr
  <2>5. /\ AbstractItr.here # {} /\ AbstractItr.rest = {keys[s] : s \in NextLive}
        /\ keys[m] \in AbstractItr.rest
    BY <1>3, <2>1
  <2> QED  BY <1>1, <2>3, <2>4, <2>5
           DEF Contract!increment_itr, Contract!is_itr_valid
<1> QED  BY <1>4, <1>5

\* Until insert() returns, nothing has happened yet.
LEMMA InBetweenImplements ==
  ASSUME IInv, InBetween
  PROVE  (pc # "idle" \/ pc' # "idle") /\ Contract!release_itr
<1> DEFINE Silent == /\ TableKeys' = TableKeys /\ made' = made /\ itr' = n_buckets'
                     /\ pc # "idle" \/ pc' # "idle"
<1>1. ASSUME NEW w \in Keys, insert(w)
      PROVE  Silent
  <2>1. TableKeys' = TableKeys
    BY <1>1, QuietSteps
  <2> QED  BY <1>1, <2>1 DEF insert, hvars
<1>2. pc # "idle" => itr = n_buckets
  BY DEF IInv, Control
<1>3. ASSUME StartResize
      PROVE  Silent
  BY <1>2, <1>3, StartStep DEF StartResize
<1>4. ASSUME FailResize
      PROVE  Silent
  BY <1>2, <1>4, FailStep DEF FailResize
<1>5. ASSUME RehashNext
      PROVE  Silent
  BY <1>2, <1>5, NextStep DEF RehashNext
<1>6. ASSUME Place
      PROVE  Silent
  BY <1>2, <1>6, PlaceStep DEF Place
<1>7. ASSUME FinishResize
      PROVE  Silent
  BY <1>7, FinishStep DEF FinishResize
<1>8. Silent
  BY <1>1, <1>3, <1>4, <1>5, <1>6, <1>7 DEF InBetween
<1>9. AbstractItr' = [here |-> {}, rest |-> {}]
  BY <1>8 DEF AbstractItr
<1> QED  BY <1>8, <1>9 DEF Contract!release_itr, Contract!EndItr

\* The khash shim is the table the benchmark expects, except for begin_itr,
\* which starts at a bucket that need not hold an element.
THEOREM Implements == Spec => ImplementsContract
<1>1. ASSUME Init
      PROVE  Contract!TableInit
  <2>1. TableKeys = {}
    <3>1. OldLive = {} /\ NewLive = {} /\ hand = NoHand
      BY <1>1 DEF Init, NoTable, NoResize, NoArray, OldLive, NewLive, Slots
    <3> QED  BY <3>1 DEF TableKeys
  <2> QED  BY <1>1, <2>1
           DEF Init, NoTable, Contract!TableInit, Contract!EndItr, AbstractItr
<1>2. ASSUME IInv, [Next]_vars
      PROVE  [ContractStep]_vars
  <2>1. CASE create_table
    <3>1. TableKeys' = {} /\ itr' = n_buckets'
      BY <1>2, <2>1, CreateStep
    <3> QED  BY <2>1, <3>1 DEF create_table, ContractStep, Contract!create_table,
                             Contract!EndItr, AbstractItr
  <2>2. CASE destroy_table
    <3>1. TableKeys' = {} /\ itr' = n_buckets'
      BY <1>2, <2>2, DestroyStep DEF destroy_table
    <3> QED  BY <2>2, <3>1 DEF destroy_table, Idle, ContractStep,
                Contract!destroy_table, Contract!EndItr, AbstractItr
  <2>3. CASE InBetween
    BY <1>2, <2>3, InBetweenImplements DEF ContractStep
  <2>4. ASSUME NEW w \in Keys, erase(w) \/ find(w)
        PROVE  [ContractStep]_vars
    BY <1>2, <2>4, EraseImplements, FindImplements DEF ContractStep
  <2>5. CASE Put
    BY <1>2, <2>5, PutImplements DEF ContractStep
  <2>6. CASE begin_itr
    BY <2>6 DEF ContractStep
  <2>7. CASE increment_itr
    BY <1>2, <2>7, IncrementImplements DEF ContractStep
  <2>8. CASE UNCHANGED vars \/ Overrun
    BY <2>8 DEF Overrun
  <2> QED  BY <1>2, <2>1, <2>2, <2>3, <2>4, <2>5, <2>6, <2>7, <2>8 DEF Next, InBetween
<1> QED  BY <1>1, <1>2, Invariance, PTL DEF Spec, ImplementsContract
-----------------------------------------------------------------------------
(* EraseOnKhash.  The inductive invariant: which call is under way at      *)
(* which step of the driver, and on which key.                             *)

Driver ==
  /\ i \in 0 .. KEY_COUNT
  /\ step \in {"enter", "insert", "measure", "sweep", "restore", "next"}
  /\ step \in {"insert", "measure", "sweep", "restore"} => made
  /\ step = "enter" => i = 0 /\ since = 0 /\ k = 0
  /\ step \in {"sweep", "restore"} => l \in 0 .. i - 1 /\ begin \in 0 .. i - 1
  /\ pc # "idle" => \/ step = "insert" /\ key = i /\ i < KEY_COUNT
                    \/ step = "restore" /\ key = l
  /\ pc # "overrun"

BlockInv == IInv /\ Driver

LEMMA Constants ==
  ASSUME DriversKeys
  PROVE  /\ KEY_COUNT \in Nat \ {0} /\ INTERVAL \in Nat \ {0} /\ OPS \in Nat \ {0}
         /\ Keys = 0 .. KEY_COUNT - 1 /\ ~AllocMayFail
BY EraseOnKhashAssumption DEF DriversKeys

\* What the shim's calls do, for the driver's steps.
LEMMA Calls ==
  ASSUME IInv
  PROVE  /\ create_table =>
              /\ IInv' /\ TableKeys' = {} /\ ~made /\ made' /\ pc' = "idle"
         /\ destroy_table =>
              /\ IInv' /\ TableKeys' = {} /\ made /\ ~made' /\ pc' = "idle"
         /\ \A x \in Keys :
              /\ insert(x) => /\ IInv' /\ TableKeys' = TableKeys /\ made' = made
                             /\ key' = x /\ pc' \in {"resize", "put"}
              /\ erase(x) => /\ IInv' /\ TableKeys' = TableKeys \ {x}
                            /\ made /\ made' /\ pc' = "idle"
         /\ Put => /\ IInv' /\ TableKeys' = TableKeys \cup {key}
                   /\ made /\ made' /\ pc' = "idle" /\ pc # "idle"
         /\ StartResize \/ RehashNext \/ Place \/ FinishResize =>
              /\ IInv' /\ TableKeys' = TableKeys /\ made' = made /\ key' = key
              /\ pc # "idle" /\ pc' \in {"rehash", "put"}
<1>1. ASSUME create_table
      PROVE  /\ IInv' /\ TableKeys' = {} /\ ~made /\ made' /\ pc' = "idle"
  BY <1>1, CreateStep DEF create_table, IInv, Control
<1>2. ASSUME destroy_table
      PROVE  /\ IInv' /\ TableKeys' = {} /\ made /\ ~made' /\ pc' = "idle"
  BY <1>2, DestroyStep DEF destroy_table, Idle
<1>3. ASSUME NEW x \in Keys, insert(x)
      PROVE  /\ IInv' /\ TableKeys' = TableKeys /\ made' = made
             /\ key' = x /\ pc' \in {"resize", "put"}
  <2>1. IInv' /\ TableKeys' = TableKeys
    BY <1>3, QuietSteps
  <2> QED  BY <1>3, <2>1 DEF insert
<1>4. ASSUME NEW x \in Keys, erase(x)
      PROVE  /\ IInv' /\ TableKeys' = TableKeys \ {x}
             /\ made /\ made' /\ pc' = "idle"
  <2>1. IInv' /\ TableKeys' = TableKeys \ {x}
    BY <1>4, EraseStep
  <2> QED  BY <1>4, <2>1 DEF erase, Idle
<1>5. ASSUME Put
      PROVE  /\ IInv' /\ TableKeys' = TableKeys \cup {key}
             /\ made /\ made' /\ pc' = "idle" /\ pc # "idle"
  BY <1>5, PutStep DEF Put, IInv, Control
<1>6. ASSUME StartResize \/ RehashNext \/ Place \/ FinishResize
      PROVE  /\ IInv' /\ TableKeys' = TableKeys /\ made' = made /\ key' = key
             /\ pc # "idle" /\ pc' \in {"rehash", "put"}
  <2>1. IInv' /\ TableKeys' = TableKeys
    BY <1>6, StartStep, NextStep, PlaceStep, FinishStep
  <2> QED  BY <1>6, <2>1 DEF StartResize, RehashNext, Place, FinishResize
<1> QED  BY <1>1, <1>2, <1>3, <1>4, <1>5, <1>6

LEMMA BlockInit ==
  ASSUME DriversKeys, InitBlock
  PROVE  BlockInv
<1>1. IInv
  BY InitInv DEF InitBlock
<1> QED  BY <1>1, Constants DEF InitBlock, Init, BlockInv, Driver

\* The driver's next key is one that is in the table at the start of a sweep.
LEMMA Following ==
  ASSUME DriversKeys, Driver, step \in {"sweep", "restore"}
  PROVE  /\ l \in Keys /\ begin \in 0 .. i - 1 /\ FollowingKey \in 0 .. i - 1
         /\ i \in Nat
BY Constants DEF Driver, FollowingKey

LEMMA BlockStepInv ==
  ASSUME DriversKeys, BlockInv, [NextInBlock]_allvars
  PROVE  BlockInv'
<1> USE DEF BlockInv
<1>1. CASE EnterBlock
  BY <1>1, Calls DEF EnterBlock, Driver
<1>2. CASE LeaveBlock
  BY <1>2, Calls DEF LeaveBlock, Driver
<1>3. CASE CallGrow
  <2>1. i \in Keys
    BY <1>3, Constants DEF CallGrow, Driver
  <2> QED  BY <1>3, <2>1, Calls DEF CallGrow, Driver, driver, insert, Idle
<1>4. CASE GrowReturns
  <2>1. IInv' /\ made' /\ pc' = "idle" /\ pc # "idle"
    BY <1>4, Calls DEF GrowReturns
  <2>2. i \in 0 .. KEY_COUNT /\ i < KEY_COUNT
    BY <1>4, <2>1 DEF GrowReturns, Driver
  <2>3. i' \in 0 .. KEY_COUNT /\ step' \in {"measure", "insert"}
    BY <1>4, <2>2, Constants DEF GrowReturns
  <2> QED  BY <2>1, <2>3 DEF Driver
<1>5. CASE StartErase
  <2>1. IInv' /\ pc' = pc /\ made' = made /\ key' = key
    BY <1>5, Stutter DEF StartErase, vars
  <2> QED  BY <1>5, <2>1 DEF StartErase, Driver
<1>6. CASE EraseExisting
  <2>1. /\ l \in Keys /\ begin \in 0 .. i - 1 /\ FollowingKey \in 0 .. i - 1
        /\ l \in 0 .. i - 1
    BY <1>6, Following DEF EraseExisting, Driver
  <2>2. IInv' /\ made' /\ pc' = "idle"
    BY <1>6, <2>1, Calls DEF EraseExisting
  <2>3. /\ step' \in {"sweep", "restore"} /\ i' = i /\ begin' = begin
        /\ l' \in 0 .. i - 1
    BY <1>6, <2>1 DEF EraseExisting
  <2> QED  BY <2>1, <2>2, <2>3 DEF Driver
<1>7. CASE CallRestore
  <2>1. l \in Keys
    BY <1>7, Following DEF CallRestore
  <2> QED  BY <1>7, <2>1, Calls DEF CallRestore, Driver, driver, insert, Idle
<1>8. CASE RestoreReturns
  <2>1. IInv' /\ made' /\ pc' = "idle"
    BY <1>8, Calls DEF RestoreReturns
  <2>2. begin \in 0 .. i - 1 /\ FollowingKey \in 0 .. i - 1
    BY <1>8, Following DEF RestoreReturns
  <2>3. /\ i' = i
        /\ \/ step' = "insert"
           \/ step' = "restore" /\ begin' = begin /\ l' \in 0 .. i - 1
    BY <1>8, <2>2 DEF RestoreReturns
  <2> QED  BY <2>1, <2>2, <2>3 DEF Driver
<1>9. CASE Rehash
  BY <1>9, Calls DEF Rehash, Driver, driver
<1>10. CASE UNCHANGED allvars \/ Left
  <2>1. UNCHANGED driver /\ UNCHANGED vars
    BY <1>10 DEF allvars, Left
  <2>2. IInv' /\ pc' = pc /\ made' = made /\ key' = key
    BY <2>1, Stutter DEF vars
  <2> QED  BY <2>1, <2>2 DEF Driver, driver
<1> QED  BY <1>1, <1>2, <1>3, <1>4, <1>5, <1>6, <1>7, <1>8, <1>9, <1>10 DEF NextInBlock

-----------------------------------------------------------------------------
(* The refinement.                                                         *)

\* A cell of the results of the only run.
LEMMA OneRun ==
  ASSUME DriversKeys, NEW c
  PROVE  /\ B!Cell("erase_existing", c) = <<1, 1, "erase_existing", 0 * B!Points + c>>
         /\ c \in Int => B!Cell("erase_existing", c) = <<1, 1, "erase_existing", c>>
<1>1. B!Points \in Int
  BY Constants DEF B!Points
<1>2. B!Cell("erase_existing", c) = <<1, 1, "erase_existing", 0 * B!Points + c>>
  BY DEF B!Cell
<1>3. c \in Int => 0 * B!Points + c = c
  <2> HIDE DEF B!Points
  <2> QED  BY <1>1
<1> QED  BY <1>2, <1>3

LEMMA Recorded ==
  ASSUME DriversKeys, results' = results \cup {i \div INTERVAL - 1}, i \in Nat
  PROVE  B!Record("erase_existing", B!result_index)
<1>1. i \div INTERVAL - 1 \in Int
  BY Constants
<1>2. B!Cell("erase_existing", B!result_index) = <<1, 1, "erase_existing", i \div INTERVAL - 1>>
  BY <1>1, OneRun DEF B!result_index
<1> QED  BY <1>2 DEF B!Record

LEMMA SameTable ==
  ASSUME UNCHANGED vars
  PROVE  TableKeys' = TableKeys
BY DEF vars, hvars, rvars, TableKeys, OldLive, NewLive, Slots

\* The erase_existing block running on khash is the one running on an ideal
\* table: no rehash in its middle loses a key or brings one back.
THEOREM BlockImplements ==
  ASSUME DriversKeys
  PROVE  SpecBlock => ImplementsBlock
<1>1. ASSUME BlockInv, [NextInBlock]_allvars
      PROVE  [BlockStep]_(B!vars)
  <2> DEFINE Same == UNCHANGED <<step, i, since, k, l, begin, results, made, TableKeys>>
  <2>1. ASSUME Same
        PROVE  UNCHANGED B!vars
    BY <2>1 DEF B!vars
  <2>2. IInv /\ Driver
    BY <1>1 DEF BlockInv
  <2>3. CASE EnterBlock
    <3>1. TableKeys' = {} /\ ~made /\ made'
      BY <2>2, <2>3, Calls DEF EnterBlock
    <3>2. B!EnterBlock
      BY <2>2, <2>3, <3>1 DEF EnterBlock, Driver, B!EnterBlock, B!T!create_table,
                              B!T!EndItr, B!Defined, B!slot
    <3> QED  BY <3>2 DEF BlockStep
  <2>4. CASE LeaveBlock
    <3>1. TableKeys' = {} /\ made /\ ~made'
      BY <2>2, <2>4, Calls DEF LeaveBlock
    <3>2. made' = FALSE
      BY <2>4 DEF LeaveBlock, destroy_table
    <3>3. B!LeaveBlock
      BY <2>4, <3>1, <3>2 DEF LeaveBlock, B!LeaveBlock, B!T!destroy_table,
                              B!T!EndItr, B!slot
    <3> QED  BY <3>3 DEF BlockStep
  <2>5. CASE CallGrow
    <3>1. i \in Keys
      BY <2>2, <2>5, Constants DEF CallGrow, Driver
    <3>2. Same
      BY <2>2, <2>5, <3>1, Calls DEF CallGrow, driver
    <3> QED  BY <2>1, <3>2
  <2>6. CASE GrowReturns
    <3>1. /\ TableKeys' = TableKeys \cup {i} /\ made /\ made' = made /\ i < KEY_COUNT
      BY <2>2, <2>6, Calls DEF GrowReturns, Driver, Put
    <3>2. B!GrowTable
      BY <2>6, <3>1 DEF GrowReturns, B!GrowTable, B!T!insert, B!T!EndItr, B!slot
    <3> QED  BY <3>2 DEF BlockStep
  <2>7. CASE StartErase
    <3>1. TableKeys' = TableKeys /\ made' = made
      BY <2>7, SameTable DEF StartErase, vars
    <3>2. B!StartErase
      BY <2>7, <3>1 DEF StartErase, B!StartErase, B!Existing, B!slot, B!tvars
    <3> QED  BY <3>2 DEF BlockStep
  <2>8. CASE EraseExisting
    <3>1. l \in Keys /\ i \in Nat /\ l \in 0 .. i - 1
      BY <2>2, <2>8, Following DEF EraseExisting, Driver
    <3>2. TableKeys' = TableKeys \ {l} /\ made /\ made' = made
      BY <2>2, <2>8, <3>1, Calls DEF EraseExisting, erase
    <3>3. FollowingKey = B!Wrap(l, 0, i)
      BY DEF FollowingKey, B!Wrap
    <3>4. B!T!erase(l)
      BY <3>2 DEF B!T!erase, B!T!EndItr
    <3>5. k + 1 = OPS => B!Record("erase_existing", B!result_index)
      BY <2>8, <3>1, Recorded DEF EraseExisting
    <3>6. B!EraseExisting
      BY <2>8, <3>3, <3>4, <3>5 DEF EraseExisting, RestoreStart, B!EraseExisting,
                                    B!RestoreFrom, B!slot
    <3> QED  BY <3>6 DEF BlockStep
  <2>9. CASE CallRestore
    <3>1. l \in Keys
      BY <2>2, <2>9, Following DEF CallRestore
    <3>2. Same
      BY <2>2, <2>9, <3>1, Calls DEF CallRestore, driver
    <3> QED  BY <2>1, <3>2
  <2>10. CASE RestoreReturns
    <3>1. TableKeys' = TableKeys \cup {l} /\ made /\ made' = made
      BY <2>2, <2>10, Calls DEF RestoreReturns, Driver, Put
    <3>2. FollowingKey = B!Wrap(l, 0, i)
      BY DEF FollowingKey, B!Wrap
    <3>3. B!RestoreErased
      BY <2>10, <3>1, <3>2 DEF RestoreReturns, B!RestoreErased, B!T!insert,
                               B!T!EndItr, B!slot
    <3> QED  BY <3>3 DEF BlockStep
  <2>11. CASE Rehash
    <3>1. Same
      BY <2>2, <2>11, Calls DEF Rehash, driver
    <3> QED  BY <2>1, <3>1
  <2>12. CASE UNCHANGED allvars \/ Left
    <3>1. UNCHANGED driver /\ UNCHANGED vars
      BY <2>12 DEF allvars, Left
    <3>2. Same
      BY <3>1, SameTable DEF driver, vars
    <3> QED  BY <2>1, <3>2
  <2> QED  BY <1>1, <2>3, <2>4, <2>5, <2>6, <2>7, <2>8, <2>9, <2>10, <2>11, <2>12
           DEF NextInBlock
<1>2. InitBlock => BlockInv
  BY BlockInit
<1>3. BlockInv /\ [NextInBlock]_allvars => BlockInv'
  BY BlockStepInv
<1>4. SpecBlock => []BlockInv
  BY <1>2, <1>3, PTL DEF SpecBlock
<1> QED  BY <1>1, <1>4, PTL DEF SpecBlock, ImplementsBlock
=============================================================================
