---------------------------- MODULE TommyDSProofs ----------------------------
(***************************************************************************)
(* Theorems about TommyDS, for every set of keys, every hash function and  *)
(* every initial number of buckets.                                        *)
(***************************************************************************)
EXTENDS TommyDS, Arithmetic

-----------------------------------------------------------------------------
(* The inductive invariant.                                                *)

\* The buckets that can be in use: all of the lower half, or all there are.
Bounds(t) ==
  /\ DOMAIN t = {"bucket_max", "low_max", "split", "state", "count", "bucket"}
  /\ t.low_max \in Nat \ {0} /\ t.split \in 0 .. t.low_max
  /\ t.bucket_max = 2 * t.low_max \/ (t.bucket_max = t.low_max /\ t.split = 0)
  /\ DOMAIN t.bucket = 0 .. t.bucket_max - 1

\* Bucket pos of t holds keys that a lookup goes to it for, each once.
InPlace(t, pos) ==
  /\ t.bucket[pos] \in Seq(Keys) /\ IsInjective(t.bucket[pos])
  /\ \A k \in Range(t.bucket[pos]) : bucket_ref(t, k) = pos

Placed(t) ==
  /\ Bounds(t)
  /\ \A pos \in 0 .. t.bucket_max - 1 :
       IF pos \in Active(t) THEN InPlace(t, pos) ELSE t.bucket[pos] = Unset
  /\ IsFiniteSet(Stored(t)) /\ t.count = Cardinality(Stored(t))

\* How far a table of c keys has been split or merged, after an operation.
Pace(t, kd, c) ==
  /\ BUCKET_MIN[kd] <= t.low_max /\ PowerOfTwo(t.low_max)
  /\ t.state = "stable" => t.bucket_max = t.low_max /\ t.split = 0
  /\ t.state # "stable" =>
       /\ kd = "lin" /\ t.bucket_max = 2 * t.low_max
       /\ t.split \in 1 .. t.low_max - 1
       /\ \/ t.state = "grow" /\ 2 * c <= t.low_max + t.split
          \/ t.state = "shrink" /\ 8 * c >= t.low_max + t.split

\* A table with its keys in their buckets, resized in time.
Kempt(t) == Placed(t) /\ Pace(t, kind, t.count)

\* An iterator is at the end, or at a key with the bucket behind it to go on
\* with; "dyn" may be left at the bucket of the key.
ItrRight(t, it) ==
  /\ DOMAIN it = {"bucket_idx", "node"}
  /\ \/ it.node = {} /\ it.bucket_idx \in 0 .. t.low_max + t.split
     \/ \E k \in Stored(t) :
          /\ it.node = {k}
          /\ \/ it.bucket_idx = bucket_ref(t, k) + 1
             \/ kind = "dyn" /\ it.bucket_idx = bucket_ref(t, k)

Control ==
  /\ kind \in Kinds /\ caller \in Callers /\ made \in BOOLEAN
  /\ pc \in {"idle", "find", "insert", "erase"}
  /\ \/ pc = "idle" /\ key = NoKey
     \/ pc # "idle" /\ key \in Keys /\ itr = EndItr
  /\ ~made => pc = "idle" /\ hashtable = NoTable /\ itr = EndItr

IInv ==
  /\ Control
  /\ made => Kempt(hashtable) /\ ItrRight(hashtable, itr)

-----------------------------------------------------------------------------
(* Chains.                                                                 *)

\* The recursive function of Kept exists.
LEMMA KeptExists ==
  ASSUME NEW chain \in Seq(Keys), NEW S
  PROVE  \E f : /\ f[0] = <<>>
                /\ \A i \in 1 .. Len(chain) :
                     f[i] = IF chain[i] \in S THEN Append(f[i - 1], chain[i])
                                              ELSE f[i - 1]
                /\ Kept(chain, S) = f[Len(chain)]
<1> DEFINE Step(f, i) == IF i = 0 THEN <<>>
                         ELSE IF chain[i] \in S THEN Append(f[i - 1], chain[i])
                         ELSE f[i - 1]
           Fills(f, c) == f = [i \in 0 .. c |-> Step(f, i)]
           Exists == {c \in Nat : \E f : Fills(f, c)}
           kept == CHOOSE f : Fills(f, Len(chain))
<1>1. Kept(chain, S) = kept[Len(chain)]
  BY DEF Kept
<1>2. Len(chain) \in Exists
  <2>1. 0 \in Exists
    <3>1. Fills([i \in 0 .. 0 |-> <<>>], 0)
      OBVIOUS
    <3> QED  BY <3>1
  <2>2. ASSUME NEW c \in Nat, c \in Exists
        PROVE  c + 1 \in Exists
    <3>1. PICK f : Fills(f, c)
      BY <2>2
    <3> DEFINE g == [i \in 0 .. c + 1 |-> IF i = c + 1 THEN Step(f, i) ELSE f[i]]
    <3>2. \A i \in 0 .. c + 1 : Step(g, i) = Step(f, i)
      <4> SUFFICES ASSUME NEW i \in 1 .. c + 1
                   PROVE  g[i - 1] = f[i - 1]
        OBVIOUS
      <4> QED  OBVIOUS
    <3>3. \A i \in 0 .. c : f[i] = Step(f, i)
      BY <3>1
    <3>4. \A i \in 0 .. c + 1 : g[i] = Step(g, i)
      <4> SUFFICES ASSUME NEW i \in 0 .. c + 1
                   PROVE  g[i] = Step(g, i)
        OBVIOUS
      <4>1. g[i] = Step(f, i)
        <5> HIDE DEF Step
        <5> QED  BY <3>3
      <4> HIDE DEF g, Step
      <4> QED  BY <3>2, <4>1
    <3>5. Fills(g, c + 1)
      <4>1. g = [i \in 0 .. c + 1 |-> g[i]]
        OBVIOUS
      <4> HIDE DEF g, Step
      <4> QED  BY <3>4, <4>1
    <3> HIDE DEF Fills, g
    <3> QED  BY <3>5
  <2> HIDE DEF Exists
  <2>3. Nat \subseteq Exists
    BY <2>1, <2>2, NatSetInduction
  <2> QED  BY <2>3
<1>3. Fills(kept, Len(chain))
  <2>1. \E f : Fills(f, Len(chain))
    BY <1>2
  <2> HIDE DEF Fills
  <2> QED  BY <2>1
<1> HIDE DEF kept
<1>4. \A i \in 0 .. Len(chain) : kept[i] = Step(kept, i)
  BY <1>3
<1>5. kept[0] = <<>>
  BY <1>4
<1>6. \A i \in 1 .. Len(chain) :
        kept[i] = IF chain[i] \in S THEN Append(kept[i - 1], chain[i]) ELSE kept[i - 1]
  BY <1>4
<1> QED  BY <1>1, <1>5, <1>6, Zenon

\* A chain with one more key.
LEMMA AppendIs ==
  ASSUME NEW chain \in Seq(Keys), IsInjective(chain),
         NEW k \in Keys, k \notin Range(chain)
  PROVE  /\ Append(chain, k) \in Seq(Keys) /\ IsInjective(Append(chain, k))
         /\ Range(Append(chain, k)) = Range(chain) \cup {k}
<1> DEFINE new == Append(chain, k)
           n == Len(chain)
<1>1. /\ new \in Seq(Keys) /\ n \in Nat /\ DOMAIN new = 1 .. n + 1
      /\ DOMAIN chain = 1 .. n /\ new[n + 1] = k
      /\ \A i \in 1 .. n : new[i] = chain[i]
  OBVIOUS
<1> HIDE DEF new, n
<1>2. \A i \in 1 .. n + 1 : i \in 1 .. n \/ i = n + 1
  BY <1>1
<1>3. n + 1 \in 1 .. n + 1 /\ \A i \in 1 .. n : i \in 1 .. n + 1
  BY <1>1
<1>4. Range(new) = Range(chain) \cup {k}
  BY <1>1, <1>2, <1>3 DEF Range
<1>5. \A i \in 1 .. n : chain[i] # k
  BY <1>1 DEF Range
<1>6. IsInjective(new)
  BY <1>1, <1>2, <1>5 DEF IsInjective
<1> QED  BY <1>1, <1>4, <1>6 DEF new

\* Two chains joined.
LEMMA JoinedIs ==
  ASSUME NEW a \in Seq(Keys), IsInjective(a), NEW b \in Seq(Keys), IsInjective(b),
         Range(a) \cap Range(b) = {}
  PROVE  /\ a \o b \in Seq(Keys) /\ IsInjective(a \o b)
         /\ Range(a \o b) = Range(a) \cup Range(b)
<1> DEFINE new == a \o b
           m == Len(a)
           n == Len(b)
<1>1. /\ new \in Seq(Keys) /\ m \in Nat /\ n \in Nat /\ DOMAIN new = 1 .. m + n
      /\ DOMAIN a = 1 .. m /\ DOMAIN b = 1 .. n
      /\ \A i \in 1 .. m + n : new[i] = IF i <= m THEN a[i] ELSE b[i - m]
  OBVIOUS
<1> HIDE DEF new, m, n
<1>2. \A i \in 1 .. m + n :
        \/ i \in 1 .. m /\ new[i] = a[i]
        \/ i - m \in 1 .. n /\ new[i] = b[i - m]
  BY <1>1
<1>3. /\ \A i \in 1 .. m : i \in 1 .. m + n /\ new[i] = a[i]
      /\ \A i \in 1 .. n : i + m \in 1 .. m + n /\ new[i + m] = b[i]
  <2>1. \A i \in 1 .. n : i + m \in 1 .. m + n /\ ~(i + m <= m) /\ (i + m) - m = i
    BY <1>1
  <2>2. \A i \in 1 .. m : i \in 1 .. m + n /\ i <= m
    BY <1>1
  <2> QED  BY <1>1, <2>1, <2>2
<1>4. Range(new) = Range(a) \cup Range(b)
  <2>1. Range(new) \subseteq Range(a) \cup Range(b)
    BY <1>1, <1>2 DEF Range
  <2>2. ASSUME NEW i \in 1 .. m
        PROVE  a[i] \in Range(new)
    BY <1>1, <1>3 DEF Range
  <2>3. ASSUME NEW i \in 1 .. n
        PROVE  b[i] \in Range(new)
    <3>1. i + m \in DOMAIN new /\ new[i + m] = b[i]
      BY <1>1, <1>3
    <3> QED  BY <3>1 DEF Range
  <2>4. Range(a) = {a[i] : i \in 1 .. m} /\ Range(b) = {b[i] : i \in 1 .. n}
    BY <1>1 DEF Range
  <2> QED  BY <2>1, <2>2, <2>3, <2>4
<1>5. IsInjective(new)
  <2> SUFFICES ASSUME NEW i \in 1 .. m + n, NEW j \in 1 .. m + n, new[i] = new[j]
               PROVE  i = j
    BY <1>1 DEF IsInjective
  <2>1. CASE i \in 1 .. m /\ new[i] = a[i] /\ j \in 1 .. m /\ new[j] = a[j]
    BY <1>1, <2>1 DEF IsInjective
  <2>2. CASE i - m \in 1 .. n /\ new[i] = b[i - m] /\ j - m \in 1 .. n /\ new[j] = b[j - m]
    <3>1. i - m = j - m
      BY <1>1, <2>2 DEF IsInjective
    <3> QED  BY <1>1, <3>1
  <2>3. ASSUME NEW x \in 1 .. m, NEW y \in 1 .. n
        PROVE  a[x] # b[y]
    BY <1>1 DEF Range
  <2> QED  BY <1>2, <2>1, <2>2, <2>3
<1> QED  BY <1>1, <1>4, <1>5 DEF new

\* Kept keeps the keys that are in S, each once if it was there once.
LEMMA KeptIs ==
  ASSUME NEW chain \in Seq(Keys), IsInjective(chain), NEW S
  PROVE  /\ Kept(chain, S) \in Seq(Keys) /\ IsInjective(Kept(chain, S))
         /\ Range(Kept(chain, S)) = Range(chain) \cap S
<1> DEFINE n == Len(chain)
<1>1. PICK f : /\ f[0] = <<>>
               /\ \A i \in 1 .. n :
                    f[i] = IF chain[i] \in S THEN Append(f[i - 1], chain[i])
                                             ELSE f[i - 1]
               /\ Kept(chain, S) = f[n]
  BY KeptExists
<1>2. n \in Nat /\ DOMAIN chain = 1 .. n /\ \A i \in 1 .. n : chain[i] \in Keys
  OBVIOUS
<1> HIDE DEF n
<1> DEFINE First(c) == {chain[i] : i \in 1 .. c}
           Right(c) == /\ f[c] \in Seq(Keys) /\ IsInjective(f[c])
                       /\ Range(f[c]) = First(c) \cap S
           Done == {c \in Nat : c <= n => Right(c)}
<1>3. 0 \in Done
  <2>1. First(0) = {}
    OBVIOUS
  <2>2. <<>> \in Seq(Keys) /\ DOMAIN <<>> = {}
    OBVIOUS
  <2>3. IsInjective(<<>>) /\ Range(<<>>) = {}
    BY <2>2 DEF IsInjective, Range
  <2> QED  BY <1>1, <2>1, <2>2, <2>3
<1>4. ASSUME NEW c \in Nat, c \in Done
      PROVE  c + 1 \in Done
  <2> SUFFICES ASSUME c + 1 <= n
               PROVE  Right(c + 1)
    OBVIOUS
  <2>1. Right(c) /\ c + 1 \in 1 .. n /\ (c + 1) - 1 = c
    BY <1>2, <1>4
  <2>2. First(c + 1) = First(c) \cup {chain[c + 1]}
    <3>1. 1 .. c + 1 = (1 .. c) \cup {c + 1}
      BY <1>4
    <3> QED  BY <3>1
  <2>3. f[c + 1] = IF chain[c + 1] \in S THEN Append(f[c], chain[c + 1]) ELSE f[c]
    BY <1>1, <2>1
  <2>4. chain[c + 1] \in Keys
    BY <1>2, <2>1
  <2>5. chain[c + 1] \notin First(c)
    <3>1. \A i \in 1 .. c : i \in 1 .. n /\ i # c + 1
      BY <1>2, <2>1
    <3> QED  BY <1>2, <2>1, <3>1 DEF IsInjective
  <2> HIDE DEF First
  <2>6. CASE chain[c + 1] \in S
    <3>1. chain[c + 1] \notin Range(f[c])
      BY <2>1, <2>5
    <3>2. /\ Append(f[c], chain[c + 1]) \in Seq(Keys)
          /\ IsInjective(Append(f[c], chain[c + 1]))
          /\ Range(Append(f[c], chain[c + 1])) = Range(f[c]) \cup {chain[c + 1]}
      BY <2>1, <2>4, <3>1, AppendIs
    <3> QED  BY <2>1, <2>2, <2>3, <2>6, <3>2
  <2>7. CASE chain[c + 1] \notin S
    BY <2>1, <2>2, <2>3, <2>7
  <2> QED  BY <2>6, <2>7
<1>5. Right(n)
  <2> HIDE DEF Right
  <2>1. Nat \subseteq Done
    <3> HIDE DEF Done
    <3> QED  BY <1>3, <1>4, NatSetInduction
  <2> QED  BY <1>2, <2>1
<1>6. First(n) = Range(chain)
  BY <1>2 DEF Range
<1> QED  BY <1>1, <1>5, <1>6

-----------------------------------------------------------------------------
(* Buckets.                                                                *)

\* The bits of a hash code that select a bucket, and the one above.
Low(k, n) == Hash[k] % n
High(k, n) == (Hash[k] \div n) % 2

LEMMA LowHigh ==
  ASSUME NEW k \in Keys, NEW n \in Nat \ {0}
  PROVE  /\ Low(k, n) \in 0 .. n - 1 /\ High(k, n) \in {0, 1}
         /\ Hash[k] % (2 * n) = IF High(k, n) = 0 THEN Low(k, n) ELSE Low(k, n) + n
<1> DEFINE h == Hash[k]
           q == h \div n
           r == h % n
<1>1. h \in Nat
  BY TommyAssumption
<1> HIDE DEF h
<1>2. q \in Nat /\ r \in 0 .. n - 1 /\ h = n * q + r
  BY <1>1, DivMod
<1> DEFINE p == q \div 2
           s == q % 2
<1>3. s \in {0, 1} /\ q = 2 * p + s /\ p \in Nat
  <2> HIDE DEF q
  <2> QED  BY <1>2
<1> DEFINE low == IF s = 0 THEN r ELSE r + n
           N == 2 * n
           P == h \div N
           L == h % N
<1>4. P \in Nat /\ L \in 0 .. N - 1 /\ h = N * P + L
  <2>1. N \in Nat \ {0}
    OBVIOUS
  <2> HIDE DEF N
  <2> QED  BY <1>1, <2>1, DivMod
<1>5. low \in 0 .. N - 1
  <2> HIDE DEF r, s
  <2> QED  BY <1>2
<1>6. h = N * p + low
  <2>1. p \in Nat /\ ((q = 2 * p /\ s = 0) \/ (q = 2 * p + 1 /\ s = 1))
    <3> HIDE DEF p, q, s
    <3> QED  BY <1>3
  <2>2. h = n * q + r /\ r \in Nat
    BY <1>2
  <2> HIDE DEF p, q, r, s
  <2>3. CASE q = 2 * p /\ s = 0
    <3>1. n * (2 * p) = (2 * n) * p
      BY <2>1
    <3> QED  BY <2>2, <2>3, <3>1
  <2>4. CASE q = 2 * p + 1 /\ s = 1
    <3>1. n * (2 * p + 1) = (2 * n) * p + n
      BY <2>1
    <3>2. (2 * n) * p \in Nat
      BY <2>1
    <3> QED  BY <2>2, <2>4, <3>1, <3>2
  <2> QED  BY <2>1, <2>3, <2>4
<1>7. L = low
  <2>1. p \in Nat /\ N \in Nat
    BY <1>3
  <2> HIDE DEF N, P, L, p, low
  <2> QED  BY <1>4, <1>5, <1>6, <2>1, DivModUnique
<1> HIDE DEF h, L, low, q, r
<1>8. Low(k, n) = r /\ High(k, n) = s
  BY DEF Low, High, h, q, r
<1>9. Hash[k] % (2 * n) = L
  BY DEF h, L
<1> QED  BY <1>2, <1>3, <1>7, <1>8, <1>9 DEF low

LEMMA RefIs ==
  ASSUME NEW t, Bounds(t), NEW k \in Keys
  PROVE  /\ Low(k, t.low_max) \in 0 .. t.low_max - 1
         /\ High(k, t.low_max) \in {0, 1}
         /\ bucket_ref(t, k) = IF Low(k, t.low_max) < t.split /\ High(k, t.low_max) = 1
                               THEN Low(k, t.low_max) + t.low_max
                               ELSE Low(k, t.low_max)
         /\ bucket_ref(t, k) \in Active(t)
<1> DEFINE n == t.low_max
           r == Low(k, n)
           q == High(k, n)
<1>1. n \in Nat \ {0} /\ t.split \in 0 .. n /\ (t.split > 0 => t.bucket_max = 2 * n)
  BY DEF Bounds
<1>2. r \in 0 .. n - 1 /\ q \in {0, 1}
      /\ Hash[k] % (2 * n) = IF q = 0 THEN r ELSE r + n
  BY <1>1, LowHigh
<1>3. bucket_ref(t, k) = IF r < t.split THEN Hash[k] % t.bucket_max ELSE r
  BY DEF bucket_ref, Low
<1> HIDE DEF n, r, q
<1>4. bucket_ref(t, k) = IF r < t.split /\ q = 1 THEN r + n ELSE r
  <2>1. CASE r < t.split
    <3>1. t.bucket_max = 2 * n
      BY <1>1, <1>2, <2>1
    <3> QED  BY <1>2, <1>3, <2>1, <3>1
  <2>2. CASE ~(r < t.split)
    BY <1>3, <2>2
  <2> QED  BY <2>1, <2>2
<1>5. bucket_ref(t, k) \in 0 .. n + t.split - 1
  BY <1>1, <1>2, <1>4
<1> QED  BY <1>2, <1>4, <1>5 DEF Active, n, r, q

LEMMA ActiveUpTo ==
  ASSUME NEW t, t.low_max \in Nat, t.split \in Nat,
         NEW m \in Nat, t.low_max + t.split = m
  PROVE  Active(t) = 0 .. m - 1
<1> DEFINE a == t.low_max
           b == t.split
<1>1. a \in Nat /\ b \in Nat /\ a + b = m
  OBVIOUS
<1>2. a + b - 1 = m - 1
  <2> HIDE DEF a, b
  <2> QED  BY <1>1
<1> QED  BY <1>2, Zenon DEF Active, a, b

\* The buckets in use are among those there are.
LEMMA ActiveIs ==
  ASSUME NEW t, Bounds(t)
  PROVE  /\ Active(t) \subseteq 0 .. t.bucket_max - 1
         /\ Active(t) \subseteq Nat /\ IsFiniteSet(Active(t))
         /\ Cardinality(Active(t)) = t.low_max + t.split
<1>1. t.low_max \in Nat /\ t.split \in Nat /\ t.bucket_max \in Nat
      /\ t.low_max + t.split <= t.bucket_max /\ t.low_max + t.split > 0
  BY DEF Bounds
<1>2. Active(t) = 0 .. t.low_max + t.split - 1
  BY DEF Active
<1> DEFINE m == t.low_max + t.split
<1>3. m \in Int /\ 0 \in Int /\ m - 1 \in Int /\ m > 0
  BY <1>1
<1>4. IsFiniteSet(0 .. m - 1) /\ Cardinality(0 .. m - 1) = m
  <2> HIDE DEF m
  <2>1. 0 <= m - 1 /\ ((m - 1) - 0) + 1 = m
    BY <1>3
  <2> QED  BY <1>3, <2>1, FS_Interval
<1> QED  BY <1>1, <1>2, <1>4

\* A key is stored if and only if it is in the bucket that a lookup goes to.
LEMMA StoredIs ==
  ASSUME NEW t, Placed(t)
  PROVE  /\ Stored(t) \subseteq Keys
         /\ \A k \in Keys : k \in Stored(t) <=> Has(t, k)
<1>1. /\ Bounds(t) /\ \A pos \in Active(t) : InPlace(t, pos)
  BY ActiveIs DEF Placed
<1>2. Stored(t) \subseteq Keys
  <2> SUFFICES ASSUME NEW pos \in Active(t)
               PROVE  Range(t.bucket[pos]) \subseteq Keys
    BY DEF Stored
  <2>1. t.bucket[pos] \in Seq(Keys)
    BY <1>1 DEF InPlace
  <2> QED  BY <2>1 DEF Range
<1>3. ASSUME NEW k \in Keys
      PROVE  k \in Stored(t) <=> Has(t, k)
  <2>1. bucket_ref(t, k) \in Active(t)
    BY <1>1, RefIs
  <2>2. \A pos \in Active(t) : k \in Range(t.bucket[pos]) => bucket_ref(t, k) = pos
    BY <1>1 DEF InPlace
  <2>3. k \in Stored(t) <=> \E pos \in Active(t) : k \in Range(t.bucket[pos])
    BY DEF Stored
  <2> QED  BY <2>1, <2>2, <2>3 DEF Has, Chain
<1> QED  BY <1>2, <1>3

\* A table with the same keys in other buckets.
LEMMA Moved ==
  ASSUME NEW t, Placed(t), NEW u, Bounds(u), u.count = t.count,
         \A pos \in 0 .. u.bucket_max - 1 :
           IF pos \in Active(u)
           THEN InPlace(u, pos) /\ Range(u.bucket[pos]) \subseteq Stored(t)
           ELSE u.bucket[pos] = Unset,
         \A k \in Stored(t) : Has(u, k)
  PROVE  Placed(u) /\ Stored(u) = Stored(t)
<1>1. Active(u) \subseteq 0 .. u.bucket_max - 1
  BY ActiveIs
<1>2. Stored(u) \subseteq Stored(t)
  BY <1>1 DEF Stored
<1>3. Stored(t) \subseteq Stored(u)
  <2> SUFFICES ASSUME NEW k \in Stored(t)
               PROVE  k \in Stored(u)
    OBVIOUS
  <2>1. k \in Keys
    BY StoredIs
  <2>2. bucket_ref(u, k) \in Active(u) /\ Has(u, k)
    BY <2>1, RefIs
  <2> QED  BY <2>2 DEF Stored, Has, Chain
<1>4. Stored(u) = Stored(t)
  BY <1>2, <1>3
<1> QED  BY <1>4 DEF Placed

\* Where the keys of a table are, in numbers.
LEMMA RefsOf ==
  ASSUME NEW t, Bounds(t)
  PROVE  /\ t.low_max \in Nat \ {0} /\ t.split \in 0 .. t.low_max
         /\ Active(t) = 0 .. t.low_max + t.split - 1
         /\ \A k \in Keys :
              /\ Low(k, t.low_max) \in 0 .. t.low_max - 1
              /\ High(k, t.low_max) \in {0, 1}
              /\ bucket_ref(t, k) =
                   IF Low(k, t.low_max) < t.split /\ High(k, t.low_max) = 1
                   THEN Low(k, t.low_max) + t.low_max
                   ELSE Low(k, t.low_max)
<1>1. t.low_max \in Nat \ {0} /\ t.split \in 0 .. t.low_max
  BY DEF Bounds
<1>2. Active(t) = 0 .. t.low_max + t.split - 1
  BY DEF Active
<1> QED  BY <1>1, <1>2, RefIs, Zenon

LEMMA InPlaceIs ==
  ASSUME NEW t, Placed(t), NEW pos \in Active(t)
  PROVE  /\ t.bucket[pos] \in Seq(Keys) /\ IsInjective(t.bucket[pos])
         /\ \A k \in Range(t.bucket[pos]) : bucket_ref(t, k) = pos /\ k \in Keys
         /\ Range(t.bucket[pos]) \subseteq Stored(t)
<1>1. InPlace(t, pos)
  BY ActiveIs DEF Placed
<1>2. \A k \in Range(t.bucket[pos]) : k \in Keys
  BY <1>1 DEF InPlace, Range
<1>3. Range(t.bucket[pos]) \subseteq Stored(t)
  BY DEF Stored
<1> QED  BY <1>1, <1>2, <1>3 DEF InPlace

\* A table that only counts its buckets in another way.
LEMMA SameUse ==
  ASSUME NEW t, Placed(t), NEW u, Bounds(u), u.count = t.count,
         Active(u) = Active(t),
         \A pos \in Active(t) : u.bucket[pos] = t.bucket[pos],
         \A pos \in 0 .. u.bucket_max - 1 :
           pos \notin Active(t) => u.bucket[pos] = Unset,
         \A k \in Keys : bucket_ref(u, k) = bucket_ref(t, k)
  PROVE  Placed(u) /\ Stored(u) = Stored(t)
<1>1. ASSUME NEW pos \in Active(u)
      PROVE  InPlace(u, pos) /\ Range(u.bucket[pos]) \subseteq Stored(t)
  <2>1. /\ u.bucket[pos] = t.bucket[pos]
        /\ t.bucket[pos] \in Seq(Keys) /\ IsInjective(t.bucket[pos])
        /\ \A k \in Range(t.bucket[pos]) : bucket_ref(t, k) = pos /\ k \in Keys
        /\ Range(t.bucket[pos]) \subseteq Stored(t)
    BY InPlaceIs
  <2> QED  BY <2>1 DEF InPlace
<1>2. ASSUME NEW k \in Stored(t)
      PROVE  Has(u, k)
  <2>1. k \in Keys /\ k \in Range(t.bucket[bucket_ref(t, k)])
    BY StoredIs DEF Has, Chain
  <2>2. bucket_ref(t, k) \in Active(t)
    BY <2>1, RefIs DEF Placed
  <2> QED  BY <2>1, <2>2 DEF Has, Chain
<1> QED  BY <1>1, <1>2, Moved

\* When all buckets are in use, they are selected by the whole size.
LEMMA FullIs ==
  ASSUME NEW t, Bounds(t), t.low_max + t.split = t.bucket_max
  PROVE  /\ Active(t) = 0 .. t.bucket_max - 1
         /\ \A k \in Keys : bucket_ref(t, k) = Hash[k] % t.bucket_max
<1> DEFINE n == t.low_max
           s == t.split
<1>1. n \in Nat \ {0} /\ s \in 0 .. n /\ t.bucket_max \in Nat
      /\ \/ s = 0 /\ t.bucket_max = n
         \/ s = n /\ t.bucket_max = 2 * n
  BY DEF Bounds
<1>2. Active(t) = 0 .. t.bucket_max - 1
  BY <1>1, ActiveUpTo
<1>3. ASSUME NEW k \in Keys
      PROVE  bucket_ref(t, k) = Hash[k] % t.bucket_max
  <2> DEFINE r == Low(k, n)
             q == High(k, n)
             p == Hash[k] % (2 * n)
             b == bucket_ref(t, k)
  <2>1. r \in 0 .. n - 1 /\ q \in {0, 1} /\ b = IF r < s /\ q = 1 THEN r + n ELSE r
    BY RefsOf, Zenon
  <2>2. p = IF q = 0 THEN r ELSE r + n
    BY <1>1, LowHigh, Zenon
  <2>3. r = Hash[k] % n
    BY DEF Low
  <2> HIDE DEF b, r, q, p, n, s
  <2>4. CASE s = 0 /\ t.bucket_max = n
    <3>1. b = r
      BY <1>1, <2>1, <2>4
    <3> QED  BY <2>3, <2>4, <3>1 DEF b
  <2>5. CASE s = n /\ t.bucket_max = 2 * n
    <3>1. b = p
      BY <1>1, <2>1, <2>2, <2>5
    <3> QED  BY <2>5, <3>1 DEF b, p
  <2> QED  BY <1>1, <2>4, <2>5
<1> QED  BY <1>2, <1>3

\* When as many buckets are in use before and after, and all of them, nothing
\* moves.
LEMMA RelabelledIs ==
  ASSUME NEW t, Placed(t), t.low_max + t.split = t.bucket_max,
         NEW u, Bounds(u), u.low_max + u.split = u.bucket_max,
         u.bucket_max = t.bucket_max, u.bucket = t.bucket, u.count = t.count
  PROVE  Placed(u) /\ Stored(u) = Stored(t)
<1>1. /\ Active(t) = 0 .. t.bucket_max - 1 /\ Active(u) = 0 .. t.bucket_max - 1
      /\ \A k \in Keys : bucket_ref(u, k) = bucket_ref(t, k)
  BY FullIs DEF Placed
<1> QED  BY <1>1, SameUse

\* The two halves become one: the size of the table is its new lower size.
LEMMA StableIs ==
  ASSUME NEW t, Placed(t), t.low_max + t.split = t.bucket_max
  PROVE  LET u == Stable(t)
         IN  /\ Placed(u) /\ Stored(u) = Stored(t) /\ u.count = t.count
             /\ u.state = "stable" /\ u.split = 0
             /\ u.bucket_max = t.bucket_max /\ u.low_max = t.bucket_max
<1> DEFINE u == Stable(t)
<1>1. Bounds(t)
  BY DEF Placed
<1>2. /\ DOMAIN u = DOMAIN t /\ u.state = "stable" /\ u.low_max = t.bucket_max
      /\ u.split = 0 /\ u.bucket_max = t.bucket_max /\ u.count = t.count
      /\ u.bucket = t.bucket
  BY <1>1 DEF Stable, Bounds
<1> HIDE DEF u
<1>3. Bounds(u) /\ u.low_max + u.split = u.bucket_max
  BY <1>1, <1>2 DEF Bounds
<1> QED  BY <1>2, <1>3, RelabelledIs DEF u

\* One half becomes two.
LEMMA HalvedIs ==
  ASSUME NEW t, Placed(t), t.split = 0, t.bucket_max = t.low_max,
         NEW h \in Nat \ {0}, t.bucket_max = 2 * h,
         NEW u, DOMAIN u = DOMAIN t, u.low_max = h, u.split = h,
         u.bucket_max = t.bucket_max, u.bucket = t.bucket, u.count = t.count
  PROVE  Placed(u) /\ Stored(u) = Stored(t)
<1>1. Bounds(t) /\ t.low_max + t.split = t.bucket_max
  BY DEF Placed, Bounds
<1>2. Bounds(u) /\ u.low_max + u.split = u.bucket_max
  BY <1>1 DEF Bounds
<1> QED  BY <1>1, <1>2, RelabelledIs

\* Buckets for growth, none of which is in use yet.
LEMMA DoubledIs ==
  ASSUME NEW t, Placed(t), t.split = 0, t.bucket_max = t.low_max
  PROVE  LET u == Doubled(t)
         IN  /\ Placed(u) /\ Stored(u) = Stored(t) /\ u.count = t.count
             /\ u.state = t.state /\ u.split = 0
             /\ u.bucket_max = 2 * t.bucket_max /\ u.low_max = t.bucket_max
<1> DEFINE u == Doubled(t)
           n == t.bucket_max
<1>1. Bounds(t) /\ n \in Nat \ {0} /\ n = t.low_max
  BY DEF Placed, Bounds
<1>2. /\ DOMAIN u = DOMAIN t /\ u.state = t.state /\ u.low_max = n
      /\ u.split = 0 /\ u.bucket_max = 2 * n /\ u.count = t.count
      /\ u.bucket = [pos \in 0 .. 2 * n - 1 |->
                       IF pos < n THEN t.bucket[pos] ELSE Unset]
  BY <1>1 DEF Doubled, Bounds
<1> HIDE DEF u, n
<1>3. Bounds(u)
  BY <1>1, <1>2 DEF Bounds
<1>4. Active(u) = 0 .. n - 1 /\ Active(t) = 0 .. n - 1
  <2>1. n + 0 = n
    BY <1>1
  <2> QED  BY <1>1, <1>2, <2>1 DEF Active
<1>5. ASSUME NEW k \in Keys
      PROVE  bucket_ref(u, k) = bucket_ref(t, k)
  <2>1. Low(k, n) \in 0 .. n - 1
    BY <1>1, LowHigh
  <2>2. ~(Low(k, n) < 0)
    BY <1>1, <2>1
  <2> QED  BY <1>1, <1>2, <2>2 DEF bucket_ref, Low
<1>6. /\ \A pos \in Active(t) : u.bucket[pos] = t.bucket[pos]
      /\ \A pos \in 0 .. u.bucket_max - 1 :
           pos \notin Active(t) => u.bucket[pos] = Unset
  BY <1>1, <1>2, <1>4
<1>7. Placed(u) /\ Stored(u) = Stored(t)
  BY <1>2, <1>3, <1>4, <1>5, <1>6, SameUse
<1> QED  BY <1>2, <1>7 DEF u, n

\* The upper half given up, when none of it is in use.
LEMMA LowerHalfIs ==
  ASSUME NEW t, Placed(t), t.split = 0, t.bucket_max = 2 * t.low_max
  PROVE  LET u == Stable([t EXCEPT
                    !.bucket_max = t.low_max,
                    !.bucket = [pos \in 0 .. t.low_max - 1 |-> t.bucket[pos]]])
         IN  /\ Placed(u) /\ Stored(u) = Stored(t) /\ u.count = t.count
             /\ u.state = "stable" /\ u.split = 0
             /\ u.bucket_max = t.low_max /\ u.low_max = t.low_max
<1> DEFINE n == t.low_max
           v == [t EXCEPT !.bucket_max = t.low_max,
                          !.bucket = [pos \in 0 .. t.low_max - 1 |-> t.bucket[pos]]]
<1>1. Bounds(t) /\ n \in Nat \ {0}
  BY DEF Placed, Bounds
<1>2. /\ DOMAIN v = DOMAIN t /\ v.low_max = n
      /\ v.split = 0 /\ v.bucket_max = n /\ v.count = t.count
      /\ v.bucket = [pos \in 0 .. n - 1 |-> t.bucket[pos]]
  BY <1>1 DEF Bounds
<1> HIDE DEF v
<1>3. Bounds(v) /\ v.low_max + v.split = v.bucket_max
  <2> HIDE DEF n
  <2> QED  BY <1>1, <1>2 DEF Bounds
<1>4. Active(v) = 0 .. n - 1 /\ Active(t) = 0 .. n - 1
  <2>1. n + 0 = n
    BY <1>1
  <2> QED  BY <1>1, <1>2, <2>1 DEF Active
<1>5. ASSUME NEW k \in Keys
      PROVE  bucket_ref(v, k) = bucket_ref(t, k)
  <2>1. Low(k, n) \in 0 .. n - 1
    BY <1>1, LowHigh
  <2>2. ~(Low(k, n) < 0)
    <3> DEFINE r == Low(k, n)
    <3> HIDE DEF r, n
    <3> QED  BY <1>1, <2>1 DEF r
  <2> QED  BY <1>1, <1>2, <2>2 DEF bucket_ref, Low
<1>6. Placed(v) /\ Stored(v) = Stored(t)
  <2>1. \A pos \in Active(t) : v.bucket[pos] = t.bucket[pos]
    BY <1>2, <1>4
  <2>2. 0 .. v.bucket_max - 1 = Active(t)
    BY <1>2, <1>4
  <2> QED  BY <1>2, <1>3, <1>4, <1>5, <2>1, <2>2, SameUse
<1> DEFINE u == Stable(v)
<1>7. /\ Placed(u) /\ Stored(u) = Stored(v) /\ u.count = v.count
      /\ u.state = "stable" /\ u.split = 0
      /\ u.bucket_max = v.bucket_max /\ u.low_max = v.bucket_max
  BY <1>3, <1>6, StableIs, Zenon
<1> HIDE DEF u
<1>8. u = Stable([t EXCEPT
                    !.bucket_max = t.low_max,
                    !.bucket = [pos \in 0 .. t.low_max - 1 |-> t.bucket[pos]]])
  BY DEF u, v
<1> QED  BY <1>2, <1>6, <1>7, <1>8

\* Where a key goes when the low buckets s to n - 1 of m are split or, the other
\* way round, merged: l and h are the bits of its hash code that select a bucket.
LEMMA RefsMove ==
  ASSUME NEW m \in Nat \ {0}, NEW s \in 0 .. m, NEW n \in s .. m,
         NEW l \in 0 .. m - 1, NEW h \in {0, 1}, NEW r, NEW q,
         r = IF l < s /\ h = 1 THEN l + m ELSE l,
         q = IF l < n /\ h = 1 THEN l + m ELSE l
  PROVE  /\ r \in 0 .. 2 * m - 1 /\ q \in 0 .. 2 * m - 1
         /\ r \in s .. n - 1 => q = IF h = 1 THEN r + m ELSE r
         /\ r \notin s .. n - 1 => /\ r - m \notin s .. n - 1 /\ q = r
                                   /\ q \notin s .. n - 1
         /\ q \in s .. n - 1 => r = q /\ h = 0
         /\ q - m \in s .. n - 1 => r = q - m /\ h = 1
<1>1. CASE l < s /\ h = 1
  BY <1>1
<1>2. CASE ~(l < s /\ h = 1) /\ l < n /\ h = 1
  BY <1>2
<1>3. CASE h = 0
  BY <1>3
<1>4. CASE ~(l < n)
  BY <1>4
<1> QED  BY <1>1, <1>2, <1>3, <1>4

\* Where the buckets that a split or a merge of s to n - 1 touches are.
LEMMA PlacesMove ==
  ASSUME NEW m \in Nat \ {0}, NEW s \in 0 .. m, NEW n \in s .. m
  PROVE  /\ \A pos \in s .. n - 1 :
              /\ pos \in 0 .. m + s - 1 /\ pos \in 0 .. m + n - 1
              /\ pos \in 0 .. 2 * m - 1 /\ pos - m \notin s .. n - 1
              /\ pos + m \in 0 .. 2 * m - 1 /\ pos + m \notin s .. n - 1
              /\ pos + m \in 0 .. m + n - 1 /\ pos + m \notin 0 .. m + s - 1
              /\ (pos + m) - m = pos
         /\ \A pos \in 0 .. 2 * m - 1 :
              /\ pos - m \in s .. n - 1 => /\ pos \in 0 .. m + n - 1
                                           /\ pos \notin 0 .. m + s - 1
                                           /\ pos \notin s .. n - 1
              /\ pos - m \notin s .. n - 1 =>
                   (pos \in 0 .. m + n - 1 <=> pos \in 0 .. m + s - 1)
         /\ \A pos \in 0 .. m + n - 1 : pos \in 0 .. 2 * m - 1
  OBVIOUS

\* Buckets up to n - 1 split.
SplitUpTo(t, n) ==
  [t EXCEPT
    !.split = n,
    !.bucket = [pos \in DOMAIN t.bucket |->
      IF pos \in t.split .. n - 1 THEN Half(t, pos, 0)
      ELSE IF pos - t.low_max \in t.split .. n - 1
      THEN Half(t, pos - t.low_max, 1)
      ELSE t.bucket[pos]]]

LEMMA SplitIs ==
  ASSUME NEW t, Placed(t), t.bucket_max = 2 * t.low_max,
         NEW n \in t.split .. t.low_max
  PROVE  LET v == SplitUpTo(t, n)
         IN  /\ Placed(v) /\ Stored(v) = Stored(t) /\ v.count = t.count
             /\ v.state = t.state /\ v.split = n
             /\ v.bucket_max = t.bucket_max /\ v.low_max = t.low_max
<1> DEFINE v == SplitUpTo(t, n)
           m == t.low_max
           s == t.split
           L(k) == Low(k, m)
           H(k) == High(k, m)
           Moves == s .. n - 1
           All == 0 .. 2 * m - 1
<1>1. Bounds(t)
  BY DEF Placed
<1>2. /\ DOMAIN v = DOMAIN t /\ v.state = t.state /\ v.low_max = m
      /\ v.split = n /\ v.bucket_max = 2 * m /\ v.count = t.count
      /\ v.bucket = [pos \in All |->
                       IF pos \in Moves THEN Half(t, pos, 0)
                       ELSE IF pos - m \in Moves THEN Half(t, pos - m, 1)
                       ELSE t.bucket[pos]]
  BY <1>1 DEF Bounds, SplitUpTo
<1> HIDE DEF v
<1>3. Bounds(v)
  BY <1>1, <1>2 DEF Bounds
<1>4. /\ m \in Nat \ {0} /\ s \in 0 .. m /\ n \in s .. m
      /\ Active(t) = 0 .. m + s - 1 /\ Active(v) = 0 .. m + n - 1
      /\ t.bucket_max = 2 * m
  <2>1. m \in Nat \ {0} /\ s \in 0 .. m /\ Active(t) = 0 .. m + s - 1
    BY <1>1, RefsOf, Zenon
  <2>2. Active(v) = 0 .. m + n - 1
    BY <1>2, <1>3, RefsOf, Zenon
  <2> QED  BY <2>1, <2>2
<1>5. ASSUME NEW k \in Keys
      PROVE  LET r == bucket_ref(t, k)
                 q == bucket_ref(v, k)
             IN  /\ H(k) \in {0, 1} /\ r \in All /\ q \in All
                 /\ r \in Moves => q = IF H(k) = 1 THEN r + m ELSE r
                 /\ r \notin Moves => /\ r - m \notin Moves /\ q = r
                                      /\ q \notin Moves
  <2> DEFINE l == L(k)
             h == H(k)
             rt == bucket_ref(t, k)
             rv == bucket_ref(v, k)
  <2>1. /\ l \in 0 .. m - 1 /\ h \in {0, 1}
        /\ rt = IF l < s /\ h = 1 THEN l + m ELSE l
    BY <1>1, RefsOf, Zenon
  <2>2. rv = IF Low(k, v.low_max) < v.split /\ High(k, v.low_max) = 1
             THEN Low(k, v.low_max) + v.low_max ELSE Low(k, v.low_max)
    BY <1>3, RefsOf, Zenon
  <2>3. rv = IF l < n /\ h = 1 THEN l + m ELSE l
    BY <1>2, <2>2, Zenon
  <2> HIDE DEF l, h, rt, rv, m, s
  <2>4. /\ rt \in All /\ rv \in All
        /\ rt \in Moves => rv = IF h = 1 THEN rt + m ELSE rt
        /\ rt \notin Moves => /\ rt - m \notin Moves /\ rv = rt
                              /\ rv \notin Moves
    BY <1>4, <2>1, <2>3, RefsMove
  <2> QED  BY <2>1, <2>4 DEF h, rt, rv
<1>6. \A pos \in Active(t) :
        /\ t.bucket[pos] \in Seq(Keys) /\ IsInjective(t.bucket[pos])
        /\ \A k \in Range(t.bucket[pos]) : bucket_ref(t, k) = pos /\ k \in Keys
        /\ Range(t.bucket[pos]) \subseteq Stored(t)
  BY InPlaceIs
<1>7. ASSUME NEW pos \in Active(t), NEW bit
      PROVE  /\ Half(t, pos, bit) \in Seq(Keys) /\ IsInjective(Half(t, pos, bit))
             /\ Range(Half(t, pos, bit)) = {k \in Range(t.bucket[pos]) : H(k) = bit}
  <2> DEFINE S == {k \in Keys : (Hash[k] \div t.low_max) % 2 = bit}
             c == t.bucket[pos]
  <2>1. /\ Kept(c, S) \in Seq(Keys) /\ IsInjective(Kept(c, S))
        /\ Range(Kept(c, S)) = Range(c) \cap S
    <3> HIDE DEF S, c
    <3>1. c \in Seq(Keys) /\ IsInjective(c)
      BY <1>6 DEF c
    <3> QED  BY <3>1, KeptIs
  <2>2. Half(t, pos, bit) = Kept(c, S)
    BY Zenon DEF Half
  <2>3. S = {k \in Keys : H(k) = bit} /\ \A k \in Range(c) : k \in Keys
    BY <1>6 DEF High
  <2> HIDE DEF S, c, H
  <2>4. Range(c) \cap S = {k \in Range(c) : H(k) = bit}
    BY <2>3
  <2> QED  BY <2>1, <2>2, <2>4 DEF c
<1> HIDE DEF m, s, L, H
<1>8. /\ \A pos \in Moves :
           /\ pos \in Active(t) /\ pos \in Active(v) /\ v.bucket[pos] = Half(t, pos, 0)
           /\ pos + m \in Active(v) /\ v.bucket[pos + m] = Half(t, pos, 1)
           /\ (pos + m) - m = pos
      /\ \A pos \in All : pos \notin Moves /\ pos - m \notin Moves =>
           /\ v.bucket[pos] = t.bucket[pos]
           /\ pos \in Active(v) <=> pos \in Active(t)
      /\ \A pos \in All : pos - m \in Moves => pos \in Active(v)
      /\ Active(v) \subseteq All
  <2>1. /\ \A pos \in Moves :
              /\ pos \in Active(t) /\ pos \in Active(v)
              /\ pos \in All /\ pos - m \notin Moves
              /\ pos + m \in All /\ pos + m \notin Moves
              /\ pos + m \in Active(v)
              /\ (pos + m) - m = pos
        /\ \A pos \in All :
              /\ pos - m \in Moves => pos \in Active(v)
              /\ pos - m \notin Moves =>
                   (pos \in Active(v) <=> pos \in Active(t))
        /\ Active(v) \subseteq All
    <3> DEFINE A == Active(t)
               B == Active(v)
    <3>1. A = 0 .. m + s - 1 /\ B = 0 .. m + n - 1
      BY <1>4
    <3> HIDE DEF A, B
    <3>2. /\ \A pos \in Moves :
                /\ pos \in A /\ pos \in B
                /\ pos \in All /\ pos - m \notin Moves
                /\ pos + m \in All /\ pos + m \notin Moves
                /\ pos + m \in B
                /\ (pos + m) - m = pos
      <4> SUFFICES ASSUME NEW pos \in Moves
                   PROVE  /\ pos \in 0 .. m + s - 1 /\ pos \in 0 .. m + n - 1
                          /\ pos \in All /\ pos - m \notin Moves
                          /\ pos + m \in All /\ pos + m \notin Moves
                          /\ pos + m \in 0 .. m + n - 1
                          /\ (pos + m) - m = pos
        BY <3>1
      <4> HIDE DEF A, B
      <4>1. m \in Nat \ {0} /\ s \in 0 .. m /\ n \in s .. m
        BY <1>4
      <4> QED  BY <4>1
    <3>3. \A pos \in All :
            /\ pos - m \in Moves => pos \in B
            /\ pos - m \notin Moves => (pos \in B <=> pos \in A)
      BY <1>4, <3>1, PlacesMove, Zenon
    <3>4. B \subseteq All
      BY <1>4, <3>1, PlacesMove, Zenon
    <3> QED  BY <3>2, <3>3, <3>4 DEF A, B
  <2> HIDE DEF Moves, All
  <2>2. \A pos \in Moves : v.bucket[pos] = Half(t, pos, 0)
    BY <1>2, <2>1
  <2>3. ASSUME NEW pos \in Moves
        PROVE  v.bucket[pos + m] = Half(t, pos, 1)
    <3> DEFINE up == pos + m
    <3>1. up \in All /\ up \notin Moves /\ up - m = pos
      BY <2>1
    <3> HIDE DEF up
    <3>2. v.bucket[up] = Half(t, pos, 1)
      BY <1>2, <3>1
    <3> QED  BY <3>2 DEF up
  <2>4. \A pos \in All : pos \notin Moves /\ pos - m \notin Moves =>
          v.bucket[pos] = t.bucket[pos]
    BY <1>2
  <2> QED  BY <2>1, <2>2, <2>3, <2>4
<1> HIDE DEF Moves, All
<1>9. ASSUME NEW pos \in Moves, NEW k \in Keys, bucket_ref(t, k) = pos
      PROVE  bucket_ref(v, k) = IF H(k) = 1 THEN pos + m ELSE pos
  BY <1>5, <1>9
<1>10. ASSUME NEW pos \in Moves, NEW bit \in {0, 1}, NEW up,
              up = IF bit = 1 THEN pos + m ELSE pos
       PROVE  InPlace(v, up) /\ Range(v.bucket[up]) \subseteq Stored(t)
  <2>1. /\ v.bucket[up] = Half(t, pos, bit) /\ pos \in Active(t)
    BY <1>8, <1>10
  <2>2. ASSUME NEW k \in Range(v.bucket[up])
        PROVE  bucket_ref(v, k) = up /\ k \in Stored(t)
    <3>1. k \in Range(t.bucket[pos]) /\ H(k) = bit
      BY <1>7, <2>1
    <3>2. k \in Keys /\ bucket_ref(t, k) = pos /\ k \in Stored(t)
      BY <1>6, <2>1, <3>1
    <3> QED  BY <1>9, <1>10, <3>1, <3>2
  <2> QED  BY <1>7, <2>1, <2>2 DEF InPlace
<1>11. ASSUME NEW pos \in Active(v)
       PROVE  InPlace(v, pos) /\ Range(v.bucket[pos]) \subseteq Stored(t)
  <2>1. CASE pos \in Moves
    <3>1. 0 \in {0, 1} /\ pos = IF 0 = 1 THEN pos + m ELSE pos
      OBVIOUS
    <3> QED  BY <1>10, <2>1, <3>1, Zenon
  <2>2. CASE pos - m \in Moves
    <3>1. (pos - m) + m = pos
      BY <1>4
    <3> QED  BY <1>10, <2>2, <3>1
  <2>3. CASE pos \notin Moves /\ pos - m \notin Moves
    <3>1. pos \in Active(t) /\ v.bucket[pos] = t.bucket[pos]
      BY <1>8, <2>3
    <3>2. ASSUME NEW k \in Range(v.bucket[pos])
          PROVE  bucket_ref(v, k) = pos /\ k \in Stored(t)
      <4>1. k \in Keys /\ bucket_ref(t, k) = pos /\ k \in Stored(t)
        BY <1>6, <3>1
      <4> QED  BY <1>5, <2>3, <4>1
    <3> QED  BY <1>6, <3>1, <3>2 DEF InPlace
  <2> QED  BY <2>1, <2>2, <2>3
<1>12. ASSUME NEW pos \in All, pos \notin Active(v)
       PROVE  v.bucket[pos] = Unset
  <2>1. pos \notin Moves /\ pos - m \notin Moves
    BY <1>8, <1>12
  <2>2. pos \notin Active(t) /\ v.bucket[pos] = t.bucket[pos]
    BY <1>8, <1>12, <2>1
  <2>3. pos \in 0 .. t.bucket_max - 1
    BY <1>4 DEF All
  <2> QED  BY <2>2, <2>3 DEF Placed
<1>13. ASSUME NEW k \in Stored(t)
       PROVE  Has(v, k)
  <2> DEFINE r == bucket_ref(t, k)
             q == bucket_ref(v, k)
  <2>1. k \in Keys /\ k \in Range(t.bucket[r]) /\ r \in Active(t)
    <3>1. k \in Keys /\ Has(t, k)
      BY StoredIs
    <3> QED  BY <1>1, <3>1, RefIs DEF Has, Chain
  <2>2. /\ H(k) \in {0, 1} /\ r \in All
        /\ r \in Moves => q = IF H(k) = 1 THEN r + m ELSE r
        /\ r \notin Moves => r - m \notin Moves /\ q = r
    BY <1>5, <2>1
  <2> HIDE DEF r, q
  <2>3. CASE r \in Moves
    <3>1. v.bucket[q] = Half(t, r, H(k))
      BY <1>8, <2>2, <2>3
    <3>2. k \in Range(v.bucket[q])
      BY <1>7, <2>1, <3>1
    <3> QED  BY <3>2 DEF Has, Chain, q
  <2>4. CASE r \notin Moves
    <3>1. v.bucket[q] = t.bucket[r]
      BY <1>8, <2>2, <2>4
    <3> QED  BY <2>1, <3>1 DEF Has, Chain, q
  <2> QED  BY <2>3, <2>4
<1>14. Placed(v) /\ Stored(v) = Stored(t)
  <2>1. 0 .. v.bucket_max - 1 = All
    BY <1>2 DEF All
  <2> QED  BY <1>2, <1>3, <1>11, <1>12, <1>13, <2>1, Moved
<1> QED  BY <1>2, <1>4, <1>14 DEF m, v

\* Buckets from n on merged.
MergedDownTo(t, n) ==
  [t EXCEPT
    !.split = n,
    !.bucket = [pos \in DOMAIN t.bucket |->
      IF pos \in n .. t.split - 1
      THEN t.bucket[pos] \o t.bucket[pos + t.low_max]
      ELSE IF pos - t.low_max \in n .. t.split - 1 THEN Unset
      ELSE t.bucket[pos]]]

LEMMA MergeIs ==
  ASSUME NEW t, Placed(t), t.bucket_max = 2 * t.low_max,
         NEW n \in 0 .. t.split
  PROVE  LET v == MergedDownTo(t, n)
         IN  /\ Placed(v) /\ Stored(v) = Stored(t) /\ v.count = t.count
             /\ v.state = t.state /\ v.split = n
             /\ v.bucket_max = t.bucket_max /\ v.low_max = t.low_max
<1> DEFINE v == MergedDownTo(t, n)
           m == t.low_max
           s == t.split
           Moves == n .. s - 1
           All == 0 .. 2 * m - 1
<1>1. Bounds(t)
  BY DEF Placed
<1>2. /\ DOMAIN v = DOMAIN t /\ v.state = t.state /\ v.low_max = m
      /\ v.split = n /\ v.bucket_max = 2 * m /\ v.count = t.count
      /\ v.bucket = [pos \in All |->
                       IF pos \in Moves THEN t.bucket[pos] \o t.bucket[pos + m]
                       ELSE IF pos - m \in Moves THEN Unset
                       ELSE t.bucket[pos]]
  BY <1>1 DEF Bounds, MergedDownTo
<1> HIDE DEF v
<1>3. Bounds(v)
  BY <1>1, <1>2 DEF Bounds
<1>4. /\ m \in Nat \ {0} /\ s \in 0 .. m /\ n \in 0 .. m /\ s \in n .. m
      /\ Active(t) = 0 .. m + s - 1 /\ Active(v) = 0 .. m + n - 1
      /\ t.bucket_max = 2 * m
  <2>1. m \in Nat \ {0} /\ s \in 0 .. m /\ Active(t) = 0 .. m + s - 1
    BY <1>1, RefsOf, Zenon
  <2>2. Active(v) = 0 .. m + n - 1
    BY <1>2, <1>3, RefsOf, Zenon
  <2> QED  BY <2>1, <2>2
<1>5. ASSUME NEW k \in Keys
      PROVE  LET r == bucket_ref(v, k)
                 q == bucket_ref(t, k)
             IN  /\ r \in All /\ q \in All
                 /\ q \in Moves => r = q
                 /\ q - m \in Moves => r = q - m
                 /\ q \notin Moves /\ q - m \notin Moves => r = q
  <2> DEFINE l == Low(k, m)
             h == High(k, m)
             q == bucket_ref(t, k)
             r == bucket_ref(v, k)
  <2>1. /\ l \in 0 .. m - 1 /\ h \in {0, 1}
        /\ q = IF l < s /\ h = 1 THEN l + m ELSE l
    BY <1>1, RefsOf, Zenon
  <2>2. r = IF Low(k, v.low_max) < v.split /\ High(k, v.low_max) = 1
            THEN Low(k, v.low_max) + v.low_max ELSE Low(k, v.low_max)
    BY <1>3, RefsOf, Zenon
  <2>3. r = IF l < n /\ h = 1 THEN l + m ELSE l
    BY <1>2, <2>2, Zenon
  <2> HIDE DEF l, h, q, r, m, s
  <2>4. /\ r \in All /\ q \in All
        /\ r \in Moves => q = IF h = 1 THEN r + m ELSE r
        /\ r \notin Moves => /\ r - m \notin Moves /\ q = r
                             /\ q \notin Moves
        /\ q \in Moves => r = q
        /\ q - m \in Moves => r = q - m
    BY <1>4, <2>1, <2>3, RefsMove
  <2>5. r \in Moves /\ q = r + m => q - m \in Moves
    BY <1>4
  <2> HIDE DEF Moves
  <2>6. q \notin Moves /\ q - m \notin Moves => r = q
    BY <2>4, <2>5
  <2> QED  BY <2>4, <2>6 DEF q, r
<1>6. \A pos \in Active(t) :
        /\ t.bucket[pos] \in Seq(Keys) /\ IsInjective(t.bucket[pos])
        /\ \A k \in Range(t.bucket[pos]) : bucket_ref(t, k) = pos /\ k \in Keys
        /\ Range(t.bucket[pos]) \subseteq Stored(t)
  BY InPlaceIs
<1> HIDE DEF m, s
<1>7. /\ \A pos \in Moves :
           /\ pos \in Active(t) /\ pos \in Active(v) /\ pos + m \in Active(t)
           /\ pos # pos + m /\ pos - m \notin Moves
           /\ v.bucket[pos] = t.bucket[pos] \o t.bucket[pos + m]
           /\ (pos + m) - m = pos
      /\ \A pos \in All : pos \notin Moves /\ pos - m \notin Moves =>
           /\ v.bucket[pos] = t.bucket[pos]
           /\ pos \in Active(v) <=> pos \in Active(t)
      /\ \A pos \in All : pos - m \in Moves =>
           /\ pos \notin Active(v) /\ v.bucket[pos] = Unset
           /\ (pos - m) + m = pos
      /\ Active(v) \subseteq All
  <2> DEFINE A == Active(t)
             B == Active(v)
  <2>1. A = 0 .. m + s - 1 /\ B = 0 .. m + n - 1
    BY <1>4
  <2> HIDE DEF A, B
  <2>2. ASSUME NEW pos \in Moves
        PROVE  /\ pos \in A /\ pos \in B /\ pos + m \in A
               /\ pos # pos + m /\ pos - m \notin Moves /\ pos \in All
               /\ (pos + m) - m = pos
    <3>1. m \in Nat \ {0} /\ s \in 0 .. m /\ n \in 0 .. m /\ s \in n .. m
      BY <1>4
    <3> QED  BY <2>1, <3>1
  <2>3. ASSUME NEW pos \in All
        PROVE  /\ pos - m \in Moves => pos \notin B /\ pos \notin Moves
               /\ (pos - m) + m = pos
               /\ pos - m \notin Moves => (pos \in B <=> pos \in A)
    <3>1. m \in Nat \ {0} /\ s \in 0 .. m /\ n \in 0 .. m /\ s \in n .. m
      BY <1>4
    <3> QED  BY <2>1, <3>1
  <2>4. B \subseteq All
    BY <1>4, <2>1
  <2> HIDE DEF Moves, All
  <2>5. \A pos \in Moves : v.bucket[pos] = t.bucket[pos] \o t.bucket[pos + m]
    BY <1>2, <2>2
  <2>6. \A pos \in All : pos \notin Moves /\ pos - m \notin Moves =>
          v.bucket[pos] = t.bucket[pos]
    BY <1>2
  <2>7. \A pos \in All : pos - m \in Moves => v.bucket[pos] = Unset
    BY <1>2, <2>3
  <2> QED  BY <2>2, <2>3, <2>4, <2>5, <2>6, <2>7 DEF A, B
<1> HIDE DEF Moves, All
<1>8. ASSUME NEW pos \in Moves
      PROVE  /\ InPlace(v, pos)
             /\ Range(v.bucket[pos]) = Range(t.bucket[pos]) \cup Range(t.bucket[pos + m])
             /\ Range(v.bucket[pos]) \subseteq Stored(t)
  <2> DEFINE a == t.bucket[pos]
             b == t.bucket[pos + m]
  <2>1. /\ a \in Seq(Keys) /\ IsInjective(a) /\ Range(a) \subseteq Stored(t)
        /\ \A k \in Range(a) : bucket_ref(t, k) = pos /\ k \in Keys
        /\ b \in Seq(Keys) /\ IsInjective(b) /\ Range(b) \subseteq Stored(t)
        /\ \A k \in Range(b) : bucket_ref(t, k) = pos + m /\ k \in Keys
    BY <1>6, <1>7
  <2>2. Range(a) \cap Range(b) = {}
    BY <1>7, <2>1
  <2>3. v.bucket[pos] = a \o b
    BY <1>7
  <2> HIDE DEF a, b
  <2>4. /\ v.bucket[pos] \in Seq(Keys) /\ IsInjective(v.bucket[pos])
        /\ Range(v.bucket[pos]) = Range(a) \cup Range(b)
    BY <2>1, <2>2, <2>3, JoinedIs
  <2>5. ASSUME NEW k \in Range(a) \cup Range(b)
        PROVE  bucket_ref(v, k) = pos
    BY <1>5, <1>7, <2>1
  <2> QED  BY <2>1, <2>4, <2>5 DEF InPlace, a, b
<1>9. ASSUME NEW pos \in Active(v)
      PROVE  InPlace(v, pos) /\ Range(v.bucket[pos]) \subseteq Stored(t)
  <2>1. CASE pos \in Moves
    BY <1>8, <2>1
  <2>2. CASE pos \notin Moves
    <3>1. pos \in All /\ pos - m \notin Moves
      BY <1>7
    <3>2. pos \in Active(t) /\ v.bucket[pos] = t.bucket[pos]
      BY <1>7, <2>2, <3>1
    <3>3. ASSUME NEW k \in Range(v.bucket[pos])
          PROVE  bucket_ref(v, k) = pos /\ k \in Stored(t)
      <4>1. k \in Keys /\ bucket_ref(t, k) = pos /\ k \in Stored(t)
        BY <1>6, <3>2
      <4> QED  BY <1>5, <2>2, <3>1, <4>1
    <3> QED  BY <1>6, <3>2, <3>3 DEF InPlace
  <2> QED  BY <2>1, <2>2
<1>10. ASSUME NEW pos \in All, pos \notin Active(v)
       PROVE  v.bucket[pos] = Unset
  <2>1. CASE pos - m \in Moves
    BY <1>7, <2>1
  <2>2. CASE pos - m \notin Moves
    <3>1. pos \notin Moves
      BY <1>7, <1>10
    <3>2. pos \notin Active(t) /\ v.bucket[pos] = t.bucket[pos]
      BY <1>7, <1>10, <2>2, <3>1
    <3>3. pos \in 0 .. t.bucket_max - 1
      BY <1>4 DEF All
    <3> QED  BY <3>2, <3>3 DEF Placed
  <2> QED  BY <2>1, <2>2
<1>11. ASSUME NEW k \in Stored(t)
       PROVE  Has(v, k)
  <2> DEFINE q == bucket_ref(t, k)
             r == bucket_ref(v, k)
  <2>1. k \in Keys /\ k \in Range(t.bucket[q]) /\ q \in Active(t)
    <3>1. k \in Keys /\ Has(t, k)
      BY StoredIs
    <3> QED  BY <1>1, <3>1, RefIs DEF Has, Chain
  <2>2. /\ q \in All
        /\ q \in Moves => r = q
        /\ q - m \in Moves => r = q - m
        /\ q \notin Moves /\ q - m \notin Moves => r = q
    BY <1>5, <2>1
  <2> HIDE DEF r, q
  <2>3. CASE q \in Moves
    <3>1. k \in Range(v.bucket[r])
      BY <1>8, <2>1, <2>2, <2>3
    <3> QED  BY <3>1 DEF Has, Chain, r
  <2>4. CASE q - m \in Moves
    <3>1. r \in Moves /\ r + m = q
      BY <1>7, <2>2, <2>4
    <3>2. k \in Range(v.bucket[r])
      BY <1>8, <2>1, <3>1
    <3> QED  BY <3>2 DEF Has, Chain, r
  <2>5. CASE q \notin Moves /\ q - m \notin Moves
    <3>1. v.bucket[r] = t.bucket[q]
      BY <1>7, <2>2, <2>5
    <3> QED  BY <2>1, <3>1 DEF Has, Chain, r
  <2> QED  BY <2>3, <2>4, <2>5
<1>12. Placed(v) /\ Stored(v) = Stored(t)
  <2>1. 0 .. v.bucket_max - 1 = All
    BY <1>2 DEF All
  <2> QED  BY <1>2, <1>3, <1>9, <1>10, <1>11, <2>1, Moved
<1> QED  BY <1>2, <1>4, <1>12 DEF m, v

-----------------------------------------------------------------------------
(* A step of the reallocation.                                             *)

LEMMA SplitToIs ==
  ASSUME NEW t, Placed(t), t.bucket_max = 2 * t.low_max,
         NEW n \in t.split .. t.low_max
  PROVE  /\ Placed(SplitTo(t, n)) /\ Stored(SplitTo(t, n)) = Stored(t)
         /\ SplitTo(t, n).count = t.count
         /\ SplitTo(t, n).bucket_max = t.bucket_max
         /\ n < t.low_max => /\ SplitTo(t, n).state = t.state
                             /\ SplitTo(t, n).low_max = t.low_max
                             /\ SplitTo(t, n).split = n
         /\ n = t.low_max => /\ SplitTo(t, n).state = "stable"
                             /\ SplitTo(t, n).low_max = t.bucket_max
                             /\ SplitTo(t, n).split = 0
<1> DEFINE v == SplitUpTo(t, n)
<1>1. /\ Placed(v) /\ Stored(v) = Stored(t) /\ v.count = t.count
      /\ v.state = t.state /\ v.split = n
      /\ v.bucket_max = t.bucket_max /\ v.low_max = t.low_max
  BY SplitIs, Zenon
<1>2. SplitTo(t, n) = IF n = t.low_max THEN Stable(v) ELSE v
  BY Zenon DEF SplitTo, SplitUpTo
<1> HIDE DEF v
<1>3. t.low_max \in Nat /\ n \in Nat
  BY DEF Placed, Bounds
<1>4. CASE n = t.low_max
  <2>1. v.low_max + v.split = v.bucket_max
    BY <1>1, <1>3, <1>4
  <2>2. LET u == Stable(v)
        IN  /\ Placed(u) /\ Stored(u) = Stored(v) /\ u.count = v.count
            /\ u.state = "stable" /\ u.split = 0
            /\ u.bucket_max = v.bucket_max /\ u.low_max = v.bucket_max
    BY <1>1, <2>1, StableIs, Zenon
  <2>3. ~(n < t.low_max)
    BY <1>3, <1>4
  <2> QED  BY <1>1, <1>2, <1>4, <2>2, <2>3, Zenon
<1>5. CASE n # t.low_max
  BY <1>1, <1>2, <1>5, Zenon
<1> QED  BY <1>4, <1>5

LEMMA MergeToIs ==
  ASSUME NEW t, Placed(t), t.bucket_max = 2 * t.low_max,
         NEW n \in 0 .. t.split
  PROVE  /\ Placed(MergeTo(t, n)) /\ Stored(MergeTo(t, n)) = Stored(t)
         /\ MergeTo(t, n).count = t.count
         /\ MergeTo(t, n).low_max = t.low_max
         /\ MergeTo(t, n).split = n
         /\ n > 0 => /\ MergeTo(t, n).state = t.state
                     /\ MergeTo(t, n).bucket_max = t.bucket_max
         /\ n = 0 => /\ MergeTo(t, n).state = "stable"
                     /\ MergeTo(t, n).bucket_max = t.low_max
<1> DEFINE v == MergedDownTo(t, n)
           w(x) == Stable([v EXCEPT
                     !.bucket_max = x,
                     !.bucket = [pos \in 0 .. x - 1 |-> v.bucket[pos]]])
<1>1. /\ Placed(v) /\ Stored(v) = Stored(t) /\ v.count = t.count
      /\ v.state = t.state /\ v.split = n
      /\ v.bucket_max = t.bucket_max /\ v.low_max = t.low_max
  BY MergeIs, Zenon
<1>2. MergeTo(t, n) = IF n > 0 THEN v ELSE w(t.low_max)
  BY Zenon DEF MergeTo, MergedDownTo
<1> HIDE DEF v
<1>3. n \in Nat
  BY DEF Placed, Bounds
<1>4. CASE n = 0
  <2> DEFINE u == w(v.low_max)
  <2>1. /\ Placed(u) /\ Stored(u) = Stored(v) /\ u.count = v.count
        /\ u.state = "stable" /\ u.split = 0
        /\ u.bucket_max = v.low_max /\ u.low_max = v.low_max
    BY <1>1, <1>4, LowerHalfIs, Zenon
  <2>2. MergeTo(t, n) = u
    <3>1. MergeTo(t, n) = w(t.low_max)
      BY <1>2, <1>4
    <3> QED  BY <1>1, <3>1
  <2> HIDE DEF u
  <2> QED  BY <1>1, <1>4, <2>1, <2>2
<1>5. CASE n > 0
  <2>1. MergeTo(t, n) = v
    BY <1>2, <1>5
  <2> QED  BY <1>1, <1>5, <2>1
<1> QED  BY <1>3, <1>4, <1>5

-----------------------------------------------------------------------------
(* Growing and shrinking.                                                  *)

LEMMA MinMaxIs ==
  ASSUME NEW a \in Int, NEW b \in Int
  PROVE  /\ Min({a, b}) = IF a <= b THEN a ELSE b
         /\ Max({a, b}) = IF a >= b THEN a ELSE b
<1>1. Min({a, b}) = IF a <= b THEN a ELSE b
  <2> DEFINE P(x) == x \in {a, b} /\ \A y \in {a, b} : x <= y
  <2>1. Min({a, b}) = CHOOSE x : P(x)
    BY Zenon DEF Min
  <2>2. P(IF a <= b THEN a ELSE b)
    OBVIOUS
  <2>3. \A x, y : P(x) /\ P(y) => x = y
    OBVIOUS
  <2> HIDE DEF P
  <2> QED  BY <2>1, <2>2, <2>3
<1>2. Max({a, b}) = IF a >= b THEN a ELSE b
  <2> DEFINE P(x) == x \in {a, b} /\ \A y \in {a, b} : x >= y
  <2>1. Max({a, b}) = CHOOSE x : P(x)
    BY Zenon DEF Max
  <2>2. P(IF a >= b THEN a ELSE b)
    OBVIOUS
  <2>3. \A x, y : P(x) /\ P(y) => x = y
    OBVIOUS
  <2> HIDE DEF P
  <2> QED  BY <2>1, <2>2, <2>3
<1> QED  BY <1>1, <1>2

\* A table in another state.
LEMMA StateIs ==
  ASSUME NEW t, Placed(t), NEW x
  PROVE  LET u == [t EXCEPT !.state = x]
         IN  /\ Placed(u) /\ Stored(u) = Stored(t) /\ u.count = t.count
             /\ u.state = x /\ u.split = t.split
             /\ u.bucket_max = t.bucket_max /\ u.low_max = t.low_max
<1> DEFINE u == [t EXCEPT !.state = x]
<1>1. Bounds(t)
  BY DEF Placed
<1>2. /\ DOMAIN u = DOMAIN t /\ u.state = x /\ u.low_max = t.low_max
      /\ u.split = t.split /\ u.bucket_max = t.bucket_max /\ u.count = t.count
      /\ u.bucket = t.bucket
  BY <1>1 DEF Bounds
<1> HIDE DEF u
<1>3. Bounds(u)
  BY <1>1, <1>2 DEF Bounds
<1>4. Active(u) = Active(t) /\ \A k \in Keys : bucket_ref(u, k) = bucket_ref(t, k)
  BY <1>2 DEF Active, bucket_ref
<1>5. \A pos \in 0 .. u.bucket_max - 1 : pos \notin Active(t) => u.bucket[pos] = Unset
  BY <1>2 DEF Placed
<1>6. Placed(u) /\ Stored(u) = Stored(t)
  BY <1>2, <1>3, <1>4, <1>5, SameUse
<1> QED  BY <1>2, <1>6 DEF u

\* What a step of the reallocation makes of a table of c keys.
Resized(t, kd, u) ==
  /\ Placed(u) /\ Stored(u) = Stored(t) /\ u.count = t.count
  /\ Pace(u, kd, u.count)

LEMMA SizeOfPlaced ==
  ASSUME NEW t, Placed(t)
  PROVE  /\ t.count \in Nat /\ t.low_max \in Nat \ {0} /\ t.split \in 0 .. t.low_max
         /\ t.bucket_max \in Nat
  BY FS_CardinalityType DEF Placed, Bounds

LEMMA dyn_grow_stepIs ==
  ASSUME "dyn" \in Kinds, NEW t, Placed(t), NEW c, Pace(t, "dyn", c)
  PROVE  Resized(t, "dyn", dyn_grow_step(t))
<1>1. /\ t.state = "stable" /\ t.bucket_max = t.low_max /\ t.split = 0
      /\ BUCKET_MIN["dyn"] <= t.low_max /\ PowerOfTwo(t.low_max)
      /\ t.count \in Nat /\ t.low_max \in Nat \ {0} /\ BUCKET_MIN["dyn"] \in Nat
  BY SizeOfPlaced, TommyAssumption DEF Pace
<1>2. CASE ~(t.count >= t.bucket_max \div 2)
  <2>1. dyn_grow_step(t) = t
    BY <1>2 DEF dyn_grow_step
  <2> QED  BY <1>1, <2>1 DEF Resized, Pace
<1>3. CASE t.count >= t.bucket_max \div 2
  <2> DEFINE d == Doubled(t)
             n == t.bucket_max
             u == SplitTo(d, n)
  <2>1. dyn_grow_step(t) = u
    BY <1>3 DEF dyn_grow_step
  <2>2. /\ Placed(d) /\ Stored(d) = Stored(t) /\ d.count = t.count
        /\ d.split = 0 /\ d.bucket_max = 2 * n /\ d.low_max = n
    BY <1>1, DoubledIs, Zenon
  <2>3. n \in d.split .. d.low_max
    BY <1>1, <2>2
  <2> HIDE DEF d
  <2>4. d.bucket_max = 2 * d.low_max /\ n = d.low_max
    BY <2>2
  <2>5. /\ Placed(u) /\ Stored(u) = Stored(d) /\ u.count = d.count
        /\ u.bucket_max = d.bucket_max /\ u.state = "stable"
        /\ u.low_max = d.bucket_max /\ u.split = 0
    BY <2>2, <2>3, <2>4, SplitToIs, Zenon
  <2> HIDE DEF u
  <2>6. PowerOfTwo(2 * n)
    BY <1>1, DoublePower
  <2>7. BUCKET_MIN["dyn"] <= 2 * n
    BY <1>1
  <2> QED  BY <2>1, <2>2, <2>5, <2>6, <2>7 DEF Resized, Pace
<1> QED  BY <1>2, <1>3

\* A table larger than the smallest one can be halved.
LEMMA Halves ==
  ASSUME NEW kd \in Kinds, NEW n \in Nat, PowerOfTwo(n), n > BUCKET_MIN[kd]
  PROVE  /\ n \div 2 \in Nat \ {0} /\ n = 2 * (n \div 2) /\ PowerOfTwo(n \div 2)
         /\ BUCKET_MIN[kd] <= n \div 2
<1>1. BUCKET_MIN[kd] \in Nat /\ PowerOfTwo(BUCKET_MIN[kd])
  BY TommyAssumption
<1>2. BUCKET_MIN[kd] > 0
  BY <1>1 DEF PowerOfTwo
<1>3. PICK m \in Nat \ {0} : n = 2 * m /\ PowerOfTwo(m)
  BY <1>1, <1>2, HalfPower
<1>4. n \div 2 = m
  BY <1>3
<1>5. 2 * BUCKET_MIN[kd] <= n
  BY <1>1, NextPower
<1> QED  BY <1>1, <1>3, <1>4, <1>5

\* A stable table as two halves, of which all is in use.
LEMMA TwoHalves ==
  ASSUME NEW t, Placed(t), t.split = 0, t.bucket_max = t.low_max,
         NEW h \in Nat \ {0}, t.bucket_max = 2 * h
  PROVE  LET u == [t EXCEPT !.low_max = h, !.split = h]
         IN  /\ Placed(u) /\ Stored(u) = Stored(t) /\ u.count = t.count
             /\ u.state = t.state /\ u.split = h
             /\ u.bucket_max = t.bucket_max /\ u.low_max = h
<1> DEFINE u == [t EXCEPT !.low_max = h, !.split = h]
<1>1. /\ DOMAIN u = DOMAIN t /\ u.state = t.state /\ u.low_max = h
      /\ u.split = h /\ u.bucket_max = t.bucket_max /\ u.count = t.count
      /\ u.bucket = t.bucket
  BY DEF Placed, Bounds
<1> HIDE DEF u
<1>2. Placed(u) /\ Stored(u) = Stored(t)
  BY <1>1, HalvedIs
<1> QED  BY <1>1, <1>2 DEF u

LEMMA dyn_shrink_stepIs ==
  ASSUME "dyn" \in Kinds, NEW t, Placed(t), NEW c, Pace(t, "dyn", c)
  PROVE  Resized(t, "dyn", dyn_shrink_step(t))
<1> DEFINE n == t.bucket_max
           h == t.bucket_max \div 2
           Few == t.count <= t.bucket_max \div 8 /\ t.bucket_max > BUCKET_MIN["dyn"]
<1>1. /\ t.state = "stable" /\ n = t.low_max /\ t.split = 0
      /\ BUCKET_MIN["dyn"] <= t.low_max /\ PowerOfTwo(t.low_max) /\ n \in Nat
  BY SizeOfPlaced DEF Pace
<1>2. CASE ~Few
  <2>1. dyn_shrink_step(t) = t
    BY <1>2 DEF dyn_shrink_step
  <2> QED  BY <1>1, <2>1 DEF Resized, Pace
<1>3. CASE Few
  <2> DEFINE d == [t EXCEPT !.low_max = h, !.split = h]
             u == MergeTo(d, 0)
  <2>1. dyn_shrink_step(t) = u
    BY <1>3 DEF dyn_shrink_step
  <2>2. h \in Nat \ {0} /\ n = 2 * h /\ PowerOfTwo(h) /\ BUCKET_MIN["dyn"] <= h
    BY <1>1, <1>3, Halves
  <2> HIDE DEF h, n
  <2>3. /\ Placed(d) /\ Stored(d) = Stored(t) /\ d.count = t.count
        /\ d.split = h /\ d.bucket_max = n /\ d.low_max = h
    BY <1>1, <2>2, TwoHalves, Zenon DEF n
  <2> HIDE DEF d
  <2>4. 0 \in 0 .. d.split /\ d.bucket_max = 2 * d.low_max
    BY <2>2, <2>3
  <2>5. /\ Placed(u) /\ Stored(u) = Stored(d) /\ u.count = d.count
        /\ u.low_max = d.low_max /\ u.split = 0 /\ u.state = "stable"
        /\ u.bucket_max = d.low_max
    BY <2>3, <2>4, MergeToIs, Zenon
  <2> HIDE DEF u
  <2> QED  BY <2>1, <2>2, <2>3, <2>5 DEF Resized, Pace
<1> QED  BY <1>2, <1>3

\* A table that has just been told to grow, or already does.
LEMMA GrowingIs ==
  ASSUME "lin" \in Kinds, NEW t, Placed(t), NEW c \in Nat, c <= t.count, Pace(t, "lin", c)
  PROVE  /\ Placed(Growing(t)) /\ Stored(Growing(t)) = Stored(t)
         /\ Growing(t).count = t.count
         /\ BUCKET_MIN["lin"] <= Growing(t).low_max /\ PowerOfTwo(Growing(t).low_max)
         /\ \/ Growing(t).state # "grow" /\ Pace(Growing(t), "lin", t.count)
            \/ /\ Growing(t).state = "grow"
               /\ Growing(t).bucket_max = 2 * Growing(t).low_max
               /\ Growing(t).split \in 0 .. Growing(t).low_max - 1
               /\ Growing(t).split = 0 => 2 * t.count > Growing(t).low_max
<1> DEFINE n == t.bucket_max
           Many == t.state # "grow" /\ t.count > t.bucket_max \div 2
           g == Growing(t)
           x == t.count
           m == t.low_max
           b == t.split
<1>1. x \in Nat /\ m \in Nat \ {0} /\ b \in 0 .. m /\ n \in Nat
  BY SizeOfPlaced
<1>2. BUCKET_MIN["lin"] <= m /\ PowerOfTwo(m)
  BY DEF Pace
<1>3. CASE ~Many
  <2>1. g = t
    BY <1>3 DEF Growing
  <2>2. CASE t.state = "stable"
    BY <1>2, <2>1, <2>2 DEF Pace
  <2>3. CASE t.state = "shrink"
    <3>1. 8 * c >= m + b /\ c <= x /\ n = 2 * m /\ b \in 1 .. m - 1
      BY <2>3 DEF Pace
    <3>2. 8 * x >= m + b
      <4> HIDE DEF x, m, b
      <4> QED  BY <1>1, <3>1
    <3>3. Pace(t, "lin", x)
      BY <1>2, <2>3, <3>1, <3>2 DEF Pace
    <3> QED  BY <1>2, <2>1, <2>3, <3>3
  <2>4. CASE t.state = "grow"
    <3>1. n = 2 * m /\ b \in 1 .. m - 1
      BY <2>4 DEF Pace
    <3>2. b \in 0 .. m - 1 /\ b # 0
      BY <3>1
    <3> QED  BY <1>2, <2>1, <2>4, <3>1, <3>2
  <2>5. t.state \in {"stable", "grow", "shrink"}
    BY DEF Pace
  <2> QED  BY <2>2, <2>3, <2>4, <2>5
<1>4. CASE Many /\ t.state = "stable"
  <2> DEFINE d == Doubled(t)
             u == [d EXCEPT !.state = "grow"]
  <2>1. g = u
    BY <1>4 DEF Growing
  <2>2. b = 0 /\ n = m
    BY <1>4 DEF Pace
  <2>3. /\ Placed(d) /\ Stored(d) = Stored(t) /\ d.count = x
        /\ d.split = 0 /\ d.bucket_max = 2 * n /\ d.low_max = n
    BY <2>2, DoubledIs, Zenon
  <2> HIDE DEF d
  <2>4. /\ Placed(u) /\ Stored(u) = Stored(d) /\ u.count = d.count
        /\ u.state = "grow" /\ u.split = d.split
        /\ u.bucket_max = d.bucket_max /\ u.low_max = d.low_max
    BY <2>3, StateIs, Zenon
  <2> HIDE DEF u
  <2>5. 2 * x > m /\ 0 \in 0 .. m - 1
    <3>1. x > n \div 2
      BY <1>4
    <3> HIDE DEF x, n, m, b
    <3> QED  BY <1>1, <2>2, <3>1
  <2> QED  BY <1>2, <2>1, <2>2, <2>3, <2>4, <2>5
<1>5. CASE Many /\ t.state # "stable"
  <2> DEFINE u == [t EXCEPT !.state = "grow"]
  <2>1. g = u
    BY <1>5 DEF Growing
  <2>2. /\ Placed(u) /\ Stored(u) = Stored(t) /\ u.count = t.count
        /\ u.state = "grow" /\ u.split = b
        /\ u.bucket_max = n /\ u.low_max = m
    BY StateIs, Zenon
  <2>3. n = 2 * m /\ b \in 1 .. m - 1
    BY <1>5 DEF Pace
  <2>4. b \in 0 .. m - 1 /\ b # 0
    BY <2>3
  <2> HIDE DEF u
  <2> QED  BY <1>2, <2>1, <2>2, <2>3, <2>4
<1> QED  BY <1>3, <1>4, <1>5

LEMMA lin_grow_stepIs ==
  ASSUME "lin" \in Kinds, NEW t, Placed(t), NEW c \in Nat, c <= t.count, Pace(t, "lin", c)
  PROVE  Resized(t, "lin", lin_grow_step(t))
<1> DEFINE g == Growing(t)
           m == g.low_max
           b == g.split
           x == g.count
           target == SplitTarget(g)
           More == g.state = "grow" /\ g.split < SplitTarget(g)
           n == Min({m, target})
           u == SplitTo(g, n)
<1>1. /\ Placed(g) /\ Stored(g) = Stored(t) /\ x = t.count
      /\ BUCKET_MIN["lin"] <= m /\ PowerOfTwo(m)
      /\ \/ g.state # "grow" /\ Pace(g, "lin", x)
         \/ /\ g.state = "grow" /\ g.bucket_max = 2 * m
            /\ b \in 0 .. m - 1 /\ (b = 0 => 2 * x > m)
  <2> HIDE DEF g
  <2> QED  BY GrowingIs, Zenon DEF g
<1>2. lin_grow_step(t) = IF More THEN u ELSE g
  BY Zenon DEF lin_grow_step
<1> HIDE DEF g
<1>3. x \in Nat /\ m \in Nat \ {0} /\ b \in 0 .. m
  BY <1>1, SizeOfPlaced
<1>4. target = 2 * x - m
  BY DEF SplitTarget
<1>5. CASE ~More
  <2>1. lin_grow_step(t) = g
    BY <1>2, <1>5
  <2>2. CASE g.state # "grow"
    BY <1>1, <2>1, <2>2 DEF Resized
  <2>3. CASE g.state = "grow"
    <3>1. ~(b < target) /\ b \in 0 .. m - 1 /\ (b = 0 => 2 * x > m)
      BY <1>1, <1>5, <2>3
    <3>2. 2 * x <= m + b /\ b \in 1 .. m - 1
      <4> HIDE DEF b, m, x, target
      <4> QED  BY <1>3, <1>4, <3>1
    <3> QED  BY <1>1, <2>1, <2>3, <3>2 DEF Resized, Pace
  <2> QED  BY <2>2, <2>3
<1>6. CASE More
  <2>1. /\ lin_grow_step(t) = u /\ b < target /\ g.state = "grow"
        /\ g.bucket_max = 2 * m /\ b \in 0 .. m - 1
    BY <1>1, <1>2, <1>6
  <2>2. n = IF m <= target THEN m ELSE target
    <3> HIDE DEF m, target
    <3>1. m \in Int /\ target \in Int
      BY <1>3, <1>4
    <3> QED  BY <3>1, MinMaxIs
  <2>3. n \in b .. m /\ (n # m => n \in 1 .. m - 1 /\ 2 * x <= m + n)
    <3> HIDE DEF b, m, x, target, n
    <3> QED  BY <1>3, <1>4, <2>1, <2>2
  <2> HIDE DEF n
  <2>4. /\ Placed(u) /\ Stored(u) = Stored(g) /\ u.count = x
        /\ u.bucket_max = g.bucket_max
        /\ n < m => /\ u.state = g.state /\ u.low_max = m /\ u.split = n
        /\ n = m => /\ u.state = "stable" /\ u.low_max = g.bucket_max
                    /\ u.split = 0
    BY <1>1, <2>1, <2>3, SplitToIs, Zenon
  <2> HIDE DEF u
  <2>5. CASE n = m
    <3>1. PowerOfTwo(2 * m) /\ BUCKET_MIN["lin"] <= 2 * m
      <4>1. BUCKET_MIN["lin"] \in Nat
        BY TommyAssumption
      <4> HIDE DEF m
      <4> QED  BY <1>1, <1>3, <4>1, DoublePower
    <3>2. Pace(u, "lin", x)
      BY <2>1, <2>4, <2>5, <3>1 DEF Pace
    <3> QED  BY <1>1, <2>1, <2>4, <3>2 DEF Resized
  <2>6. CASE n # m
    <3>1. n < m
      BY <1>3, <2>3, <2>6
    <3>2. Pace(u, "lin", x)
      BY <1>1, <2>1, <2>3, <2>4, <2>6, <3>1 DEF Pace
    <3> QED  BY <1>1, <2>1, <2>4, <3>2 DEF Resized
  <2> QED  BY <2>5, <2>6
<1> QED  BY <1>5, <1>6

\* A table that has just been told to shrink, or already does.
LEMMA ShrinkingIs ==
  ASSUME "lin" \in Kinds, NEW t, Placed(t),
         NEW c \in Nat, t.count <= c, Pace(t, "lin", c)
  PROVE  /\ Placed(Shrinking(t)) /\ Stored(Shrinking(t)) = Stored(t)
         /\ Shrinking(t).count = t.count
         /\ BUCKET_MIN["lin"] <= Shrinking(t).low_max
         /\ PowerOfTwo(Shrinking(t).low_max)
         /\ \/ Shrinking(t).state # "shrink" /\ Pace(Shrinking(t), "lin", t.count)
            \/ /\ Shrinking(t).state = "shrink"
               /\ Shrinking(t).bucket_max = 2 * Shrinking(t).low_max
               /\ Shrinking(t).split \in 1 .. Shrinking(t).low_max
               /\ Shrinking(t).split = Shrinking(t).low_max =>
                    8 * t.count < 2 * Shrinking(t).low_max
<1> DEFINE n == t.bucket_max
           Few == /\ t.state # "shrink" /\ t.count < t.bucket_max \div 8
                  /\ t.bucket_max > BUCKET_MIN["lin"]
           x == t.count
           m == t.low_max
           b == t.split
           h == t.bucket_max \div 2
<1>1. x \in Nat /\ m \in Nat \ {0} /\ b \in 0 .. m /\ n \in Nat
  BY SizeOfPlaced
<1>2. BUCKET_MIN["lin"] <= m /\ PowerOfTwo(m)
  BY DEF Pace
<1>3. CASE ~Few
  <2>1. Shrinking(t) = t
    BY <1>3 DEF Shrinking
  <2>2. CASE t.state = "stable"
    BY <1>2, <2>1, <2>2 DEF Pace
  <2>3. CASE t.state = "grow"
    <3>1. 2 * c <= m + b /\ x <= c /\ n = 2 * m /\ b \in 1 .. m - 1
      BY <2>3 DEF Pace
    <3>2. 2 * x <= m + b
      <4> HIDE DEF x, m, b
      <4> QED  BY <1>1, <3>1
    <3>3. Pace(t, "lin", x)
      BY <1>2, <2>3, <3>1, <3>2 DEF Pace
    <3> QED  BY <1>2, <2>1, <2>3, <3>3
  <2>4. CASE t.state = "shrink"
    <3>1. n = 2 * m /\ b \in 1 .. m - 1
      BY <2>4 DEF Pace
    <3>2. b \in 1 .. m /\ b # m
      BY <1>1, <3>1
    <3> QED  BY <1>2, <2>1, <2>4, <3>1, <3>2
  <2>5. t.state \in {"stable", "grow", "shrink"}
    BY DEF Pace
  <2> QED  BY <2>2, <2>3, <2>4, <2>5
<1>4. CASE Few /\ t.state = "stable"
  <2> DEFINE d == [t EXCEPT !.low_max = h, !.split = h]
             u == [d EXCEPT !.state = "shrink"]
  <2>1. Shrinking(t) = u
    BY <1>4 DEF Shrinking
  <2>2. b = 0 /\ n = m
    BY <1>4 DEF Pace
  <2>3. h \in Nat \ {0} /\ n = 2 * h /\ PowerOfTwo(h) /\ BUCKET_MIN["lin"] <= h
    BY <1>1, <1>2, <1>4, <2>2, Halves
  <2>4. /\ Placed(d) /\ Stored(d) = Stored(t) /\ d.count = x
        /\ d.split = h /\ d.bucket_max = n /\ d.low_max = h
    <3> HIDE DEF h
    <3> QED  BY <2>2, <2>3, TwoHalves, Zenon
  <2> HIDE DEF d
  <2>5. /\ Placed(u) /\ Stored(u) = Stored(d) /\ u.count = d.count
        /\ u.state = "shrink" /\ u.split = d.split
        /\ u.bucket_max = d.bucket_max /\ u.low_max = d.low_max
    BY <2>4, StateIs, Zenon
  <2> HIDE DEF u
  <2>6. 8 * x < 2 * h
    <3>1. x < n \div 8
      BY <1>4
    <3> HIDE DEF x, n, h
    <3> QED  BY <1>1, <2>3, <3>1
  <2>7. h \in 1 .. h
    BY <2>3
  <2> HIDE DEF h
  <2> QED  BY <2>1, <2>3, <2>4, <2>5, <2>6, <2>7
<1>5. CASE Few /\ t.state # "stable"
  <2> DEFINE u == [t EXCEPT !.state = "shrink"]
  <2>1. Shrinking(t) = u
    BY <1>5 DEF Shrinking
  <2>2. /\ Placed(u) /\ Stored(u) = Stored(t) /\ u.count = t.count
        /\ u.state = "shrink" /\ u.split = b
        /\ u.bucket_max = n /\ u.low_max = m
    BY StateIs, Zenon
  <2>3. n = 2 * m /\ b \in 1 .. m - 1
    BY <1>5 DEF Pace
  <2>4. b \in 1 .. m /\ b # m
    BY <1>1, <2>3
  <2> HIDE DEF u
  <2> QED  BY <1>2, <2>1, <2>2, <2>3, <2>4
<1> QED  BY <1>3, <1>4, <1>5

LEMMA lin_shrink_stepIs ==
  ASSUME "lin" \in Kinds, NEW t, Placed(t),
         NEW c \in Nat, t.count <= c, Pace(t, "lin", c)
  PROVE  Resized(t, "lin", lin_shrink_step(t))
<1> DEFINE g == Shrinking(t)
           m == g.low_max
           b == g.split
           x == g.count
           target == MergeTarget(g)
           More == g.state = "shrink" /\ g.split > MergeTarget(g)
           n == Max({0, target})
           u == MergeTo(g, n)
<1>1. /\ Placed(g) /\ Stored(g) = Stored(t) /\ x = t.count
      /\ BUCKET_MIN["lin"] <= m /\ PowerOfTwo(m)
      /\ \/ g.state # "shrink" /\ Pace(g, "lin", x)
         \/ /\ g.state = "shrink" /\ g.bucket_max = 2 * m
            /\ b \in 1 .. m /\ (b = m => 8 * x < 2 * m)
  <2> HIDE DEF g
  <2> QED  BY ShrinkingIs, Zenon DEF g
<1>2. lin_shrink_step(t) = IF More THEN u ELSE g
  BY Zenon DEF lin_shrink_step
<1> HIDE DEF g
<1>3. x \in Nat /\ m \in Nat \ {0} /\ b \in 0 .. m
  BY <1>1, SizeOfPlaced
<1>4. target = 8 * x - m
  BY DEF MergeTarget
<1>5. CASE ~More
  <2>1. lin_shrink_step(t) = g
    BY <1>2, <1>5
  <2>2. CASE g.state # "shrink"
    BY <1>1, <2>1, <2>2 DEF Resized
  <2>3. CASE g.state = "shrink"
    <3>1. ~(b > target) /\ b \in 1 .. m /\ (b = m => 8 * x < 2 * m)
      BY <1>1, <1>5, <2>3
    <3>2. 8 * x >= m + b /\ b \in 1 .. m - 1
      <4> HIDE DEF b, m, x, target
      <4> QED  BY <1>3, <1>4, <3>1
    <3> QED  BY <1>1, <2>1, <2>3, <3>2 DEF Resized, Pace
  <2> QED  BY <2>2, <2>3
<1>6. CASE More
  <2>1. /\ lin_shrink_step(t) = u /\ b > target /\ g.state = "shrink"
        /\ g.bucket_max = 2 * m /\ b \in 1 .. m
    BY <1>1, <1>2, <1>6
  <2>2. n = IF 0 >= target THEN 0 ELSE target
    <3> HIDE DEF m, target
    <3>1. 0 \in Int /\ target \in Int
      BY <1>3, <1>4
    <3> QED  BY <3>1, MinMaxIs, Zenon
  <2>3. n \in 0 .. b /\ (n # 0 => n > 0 /\ n \in 1 .. m - 1 /\ 8 * x >= m + n)
    <3> HIDE DEF b, m, x, target, n
    <3> QED  BY <1>3, <1>4, <2>1, <2>2
  <2> HIDE DEF n
  <2>4. /\ Placed(u) /\ Stored(u) = Stored(g) /\ u.count = x
        /\ u.low_max = m /\ u.split = n
        /\ n > 0 => u.state = g.state /\ u.bucket_max = g.bucket_max
        /\ n = 0 => u.state = "stable" /\ u.bucket_max = m
    BY <1>1, <2>1, <2>3, MergeToIs, Zenon
  <2> HIDE DEF u
  <2>5. CASE n = 0
    <3>1. Pace(u, "lin", x)
      BY <1>1, <2>1, <2>4, <2>5 DEF Pace
    <3> QED  BY <1>1, <2>1, <2>4, <3>1 DEF Resized
  <2>6. CASE n # 0
    <3>1. Pace(u, "lin", x)
      BY <1>1, <2>1, <2>3, <2>4, <2>6 DEF Pace
    <3> QED  BY <1>1, <2>1, <2>4, <3>1 DEF Resized
  <2> QED  BY <2>5, <2>6
<1> QED  BY <1>5, <1>6

\* The reallocation that an insertion or a removal ends with.
LEMMA grow_stepIs ==
  ASSUME kind \in Kinds, NEW t, Placed(t), NEW c \in Nat, c <= t.count,
         Pace(t, kind, c)
  PROVE  Resized(t, kind, grow_step(t))
<1>1. CASE kind = "dyn"
  BY <1>1, dyn_grow_stepIs DEF grow_step
<1>2. CASE kind = "lin"
  BY <1>2, lin_grow_stepIs DEF grow_step
<1>3. CASE kind = "hash"
  <2>1. grow_step(t) = t
    BY <1>3 DEF grow_step
  <2> QED  BY <1>3, <2>1 DEF Resized, Pace
<1> QED  BY <1>1, <1>2, <1>3, TommyAssumption

LEMMA shrink_stepIs ==
  ASSUME kind \in Kinds, NEW t, Placed(t), NEW c \in Nat, t.count <= c,
         Pace(t, kind, c)
  PROVE  Resized(t, kind, shrink_step(t))
<1>1. CASE kind = "dyn"
  BY <1>1, dyn_shrink_stepIs DEF shrink_step
<1>2. CASE kind = "lin"
  BY <1>2, lin_shrink_stepIs DEF shrink_step
<1>3. CASE kind = "hash"
  <2>1. shrink_step(t) = t
    BY <1>3 DEF shrink_step
  <2> QED  BY <1>3, <2>1 DEF Resized, Pace
<1> QED  BY <1>1, <1>2, <1>3, TommyAssumption

-----------------------------------------------------------------------------
(* A key comes or goes.                                                    *)

\* A chain with other keys, which a lookup goes to it for.
WithChain(t, p, c, x) == [t EXCEPT !.bucket[p] = c, !.count = x]

LEMMA ChainIs ==
  ASSUME NEW t, Placed(t), NEW p \in Active(t), NEW c, NEW x \in Nat,
         c \in Seq(Keys), IsInjective(c),
         \A k \in Range(c) : bucket_ref(t, k) = p,
         NEW S, Stored(t) \ Range(t.bucket[p]) \subseteq S, Range(c) \subseteq S,
         S \subseteq (Stored(t) \ Range(t.bucket[p])) \cup Range(c),
         IsFiniteSet(S), x = Cardinality(S)
  PROVE  /\ Placed(WithChain(t, p, c, x)) /\ Stored(WithChain(t, p, c, x)) = S
         /\ WithChain(t, p, c, x).count = x
         /\ Pace(t, kind, t.count) => Pace(WithChain(t, p, c, x), kind, t.count)
<1> DEFINE u == WithChain(t, p, c, x)
           n == t.bucket_max
<1>1. Bounds(t) /\ p \in 0 .. n - 1 /\ Active(t) \subseteq 0 .. n - 1
  BY ActiveIs DEF Placed
<1>2. /\ DOMAIN u = DOMAIN t /\ u.state = t.state /\ u.low_max = t.low_max
      /\ u.split = t.split /\ u.bucket_max = n /\ u.count = x
      /\ u.bucket = [t.bucket EXCEPT ![p] = c]
  BY <1>1 DEF Bounds, WithChain
<1> HIDE DEF u
<1>3. /\ DOMAIN u.bucket = 0 .. n - 1 /\ u.bucket[p] = c
      /\ \A pos \in 0 .. n - 1 : pos # p => u.bucket[pos] = t.bucket[pos]
  BY <1>1, <1>2 DEF Bounds
<1>4. Bounds(u)
  BY <1>1, <1>2, <1>3 DEF Bounds
<1>5. Active(u) = Active(t) /\ \A k \in Keys : bucket_ref(u, k) = bucket_ref(t, k)
  BY <1>2 DEF Active, bucket_ref
<1>6. \A k \in Range(c) : k \in Keys
  BY DEF Range
<1>7. ASSUME NEW pos \in Active(t)
      PROVE  InPlace(u, pos)
  <2>1. CASE pos = p
    BY <1>3, <1>5, <1>6, <2>1 DEF InPlace
  <2>2. CASE pos # p
    <3>1. u.bucket[pos] = t.bucket[pos]
      BY <1>1, <1>3, <2>2
    <3> QED  BY <1>5, <3>1, InPlaceIs DEF InPlace
  <2> QED  BY <2>1, <2>2
<1>8. \A pos \in 0 .. n - 1 : pos \notin Active(t) => u.bucket[pos] = Unset
  BY <1>3 DEF Placed
<1>9. Stored(u) = S
  <2>1. ASSUME NEW k \in Stored(u)
        PROVE  k \in S
    <3>1. PICK pos \in Active(t) : k \in Range(u.bucket[pos])
      BY <1>5 DEF Stored
    <3>2. CASE pos = p
      BY <1>3, <3>1, <3>2
    <3>3. CASE pos # p
      <4>1. k \in Range(t.bucket[pos])
        BY <1>1, <1>3, <3>1, <3>3
      <4>2. k \in Stored(t) /\ bucket_ref(t, k) = pos
        BY <4>1, InPlaceIs
      <4>3. k \notin Range(t.bucket[p])
        BY <3>3, <4>2, InPlaceIs
      <4> QED  BY <4>2, <4>3
    <3> QED  BY <3>2, <3>3
  <2>2. ASSUME NEW k \in S
        PROVE  k \in Stored(u)
    <3>1. CASE k \in Range(c)
      BY <1>3, <1>5, <3>1 DEF Stored
    <3>2. CASE k \in Stored(t) \ Range(t.bucket[p])
      <4>1. PICK pos \in Active(t) : k \in Range(t.bucket[pos])
        BY <3>2 DEF Stored
      <4>2. pos # p
        BY <3>2, <4>1
      <4>3. k \in Range(u.bucket[pos])
        BY <1>1, <1>3, <4>1, <4>2
      <4> QED  BY <1>5, <4>3 DEF Stored
    <3> QED  BY <3>1, <3>2
  <2> QED  BY <2>1, <2>2
<1>10. Placed(u)
  BY <1>2, <1>4, <1>5, <1>7, <1>8, <1>9 DEF Placed
<1>11. Pace(t, kind, t.count) => Pace(u, kind, t.count)
  BY <1>2 DEF Pace
<1> QED  BY <1>2, <1>9, <1>10, <1>11 DEF u

LEMMA ResizedIs ==
  ASSUME NEW t, NEW u, Resized(t, kind, u)
  PROVE  Kempt(u) /\ Stored(u) = Stored(t)
BY DEF Resized, Kempt

LEMMA InsertedIs ==
  ASSUME kind \in Kinds, NEW t, Kempt(t), NEW k \in Keys, ~Has(t, k)
  PROVE  LET u == grow_step([t EXCEPT !.bucket[bucket_ref(t, k)] = Append(@, k),
                                      !.count = @ + 1])
         IN  Kempt(u) /\ Stored(u) = Stored(t) \cup {k}
<1> DEFINE p == bucket_ref(t, k)
           c == Append(t.bucket[p], k)
           x == t.count + 1
           v == WithChain(t, p, c, x)
           S == Stored(t) \cup {k}
<1>1. /\ Placed(t) /\ Pace(t, kind, t.count) /\ Bounds(t) /\ p \in Active(t)
      /\ t.count \in Nat
  BY RefIs, SizeOfPlaced DEF Kempt, Placed
<1>2. k \notin Range(t.bucket[p]) /\ k \notin Stored(t)
  BY <1>1, StoredIs DEF Has, Chain
<1>3. /\ t.bucket[p] \in Seq(Keys) /\ IsInjective(t.bucket[p])
      /\ \A j \in Range(t.bucket[p]) : bucket_ref(t, j) = p
      /\ Range(t.bucket[p]) \subseteq Stored(t)
  BY <1>1, InPlaceIs
<1>4. v = [t EXCEPT !.bucket[bucket_ref(t, k)] = Append(@, k), !.count = @ + 1]
  BY <1>1 DEF Bounds, WithChain
<1> HIDE DEF p
<1>5. c \in Seq(Keys) /\ IsInjective(c) /\ Range(c) = Range(t.bucket[p]) \cup {k}
  BY <1>2, <1>3, AppendIs
<1>6. x \in Nat /\ t.count <= x /\ IsFiniteSet(S) /\ x = Cardinality(S)
  <2>1. IsFiniteSet(Stored(t)) /\ t.count = Cardinality(Stored(t))
    BY <1>1 DEF Placed
  <2> QED  BY <1>1, <1>2, <2>1, FS_AddElement
<1>7. /\ Stored(t) \ Range(t.bucket[p]) \subseteq S /\ Range(c) \subseteq S
      /\ S \subseteq (Stored(t) \ Range(t.bucket[p])) \cup Range(c)
  BY <1>3, <1>5
<1>8. \A j \in Range(c) : bucket_ref(t, j) = p
  BY <1>3, <1>5 DEF p
<1> HIDE DEF c, x, S
<1>9. /\ Placed(v) /\ Stored(v) = S /\ v.count = x
      /\ Pace(v, kind, t.count)
  BY <1>1, <1>5, <1>6, <1>7, <1>8, ChainIs
<1> HIDE DEF v
<1>10. Resized(v, kind, grow_step(v))
  BY <1>1, <1>6, <1>9, grow_stepIs
<1> QED  BY <1>4, <1>9, <1>10, ResizedIs DEF S

LEMMA ErasedIs ==
  ASSUME kind \in Kinds, NEW t, Kempt(t), NEW k \in Keys, Has(t, k)
  PROVE  LET u == shrink_step([t EXCEPT
                    !.bucket[bucket_ref(t, k)] = Kept(@, Keys \ {k}),
                    !.count = @ - 1])
         IN  Kempt(u) /\ Stored(u) = Stored(t) \ {k}
<1> DEFINE p == bucket_ref(t, k)
           c == Kept(t.bucket[p], Keys \ {k})
           x == t.count - 1
           v == WithChain(t, p, c, x)
           S == Stored(t) \ {k}
<1>1. /\ Placed(t) /\ Pace(t, kind, t.count) /\ Bounds(t) /\ p \in Active(t)
      /\ t.count \in Nat
  BY RefIs, SizeOfPlaced DEF Kempt, Placed
<1>2. k \in Range(t.bucket[p]) /\ k \in Stored(t)
  BY <1>1, StoredIs DEF Has, Chain
<1>3. /\ t.bucket[p] \in Seq(Keys) /\ IsInjective(t.bucket[p])
      /\ \A j \in Range(t.bucket[p]) : bucket_ref(t, j) = p /\ j \in Keys
      /\ Range(t.bucket[p]) \subseteq Stored(t)
  BY <1>1, InPlaceIs
<1>4. v = [t EXCEPT !.bucket[bucket_ref(t, k)] = Kept(@, Keys \ {k}),
                    !.count = @ - 1]
  BY <1>1 DEF Bounds, WithChain
<1> HIDE DEF p
<1>5. c \in Seq(Keys) /\ IsInjective(c) /\ Range(c) = Range(t.bucket[p]) \ {k}
  <2>1. /\ c \in Seq(Keys) /\ IsInjective(c)
        /\ Range(c) = Range(t.bucket[p]) \cap (Keys \ {k})
    BY <1>3, KeptIs
  <2> HIDE DEF c
  <2> QED  BY <1>3, <2>1
<1>6. x \in Nat /\ x <= t.count /\ IsFiniteSet(S) /\ x = Cardinality(S)
  <2>1. IsFiniteSet(Stored(t)) /\ t.count = Cardinality(Stored(t))
    BY <1>1 DEF Placed
  <2>2. IsFiniteSet(S) /\ Cardinality(S) = t.count - 1
    BY <1>2, <2>1, FS_RemoveElement
  <2>3. Cardinality(S) \in Nat
    BY <2>2, FS_CardinalityType
  <2> QED  BY <1>1, <2>2, <2>3
<1>7. /\ Stored(t) \ Range(t.bucket[p]) \subseteq S /\ Range(c) \subseteq S
      /\ S \subseteq (Stored(t) \ Range(t.bucket[p])) \cup Range(c)
  BY <1>2, <1>3, <1>5
<1>8. \A j \in Range(c) : bucket_ref(t, j) = p
  BY <1>3, <1>5
<1> HIDE DEF c, x, S
<1>9. /\ Placed(v) /\ Stored(v) = S /\ v.count = x
      /\ Pace(v, kind, t.count)
  BY <1>1, <1>5, <1>6, <1>7, <1>8, ChainIs
<1> HIDE DEF v
<1>10. Resized(v, kind, shrink_step(v))
  BY <1>1, <1>6, <1>9, shrink_stepIs
<1> QED  BY <1>4, <1>9, <1>10, ResizedIs DEF S

\* The tables that are there before the first key, and when none is.
LEMMA NewTableIs ==
  ASSUME NEW n \in Nat
  PROVE  LET u == NewTable(n)
         IN  /\ DOMAIN u = {"bucket_max", "low_max", "split", "state", "count",
                            "bucket"}
             /\ u.bucket_max = n /\ u.low_max = n /\ u.split = 0
             /\ u.state = "stable" /\ u.count = 0
             /\ u.bucket = [pos \in 0 .. n - 1 |-> <<>>]
             /\ Active(u) = 0 .. n - 1 /\ Stored(u) = {}
<1> DEFINE u == NewTable(n)
<1>1. /\ DOMAIN u = {"bucket_max", "low_max", "split", "state", "count", "bucket"}
      /\ u.bucket_max = n /\ u.low_max = n /\ u.split = 0
      /\ u.state = "stable" /\ u.count = 0
      /\ u.bucket = [pos \in 0 .. n - 1 |-> <<>>]
  BY DEF NewTable, Stable
<1> HIDE DEF u
<1>2. Active(u) = 0 .. n - 1
  BY <1>1, ActiveUpTo
<1>3. Stored(u) = {}
  <2>1. \A pos \in Active(u) : u.bucket[pos] = <<>>
    BY <1>1, <1>2
  <2>2. Range(<<>>) = {}
    BY DEF Range
  <2> QED  BY <2>1, <2>2 DEF Stored
<1> QED  BY <1>1, <1>2, <1>3 DEF u

LEMMA InitialIs ==
  ASSUME kind \in Kinds
  PROVE  Kempt(InitialTable(kind)) /\ Stored(InitialTable(kind)) = {}
<1> DEFINE n == BUCKET_MIN[kind]
           u == NewTable(n)
<1>1. n \in Nat /\ PowerOfTwo(n)
  BY TommyAssumption
<1>2. n # 0
  BY <1>1 DEF PowerOfTwo
<1>3. /\ DOMAIN u = {"bucket_max", "low_max", "split", "state", "count", "bucket"}
      /\ u.bucket_max = n /\ u.low_max = n /\ u.split = 0
      /\ u.state = "stable" /\ u.count = 0
      /\ u.bucket = [pos \in 0 .. n - 1 |-> <<>>]
      /\ Active(u) = 0 .. n - 1 /\ Stored(u) = {}
  BY <1>1, NewTableIs, Zenon
<1>4. InitialTable(kind) = u
  BY DEF InitialTable
<1>5. n <= u.low_max
  BY <1>1, <1>3
<1> HIDE DEF u
<1>6. Bounds(u)
  BY <1>1, <1>2, <1>3 DEF Bounds
<1>7. \A pos \in 0 .. u.bucket_max - 1 : pos \in Active(u) /\ u.bucket[pos] = <<>>
  BY <1>3
<1>8. <<>> \in Seq(Keys) /\ Range(<<>>) = {} /\ IsInjective(<<>>)
  BY DEF Range, IsInjective
<1>9. IsFiniteSet({}) /\ Cardinality({}) = 0
  BY FS_EmptySet
<1>10. Placed(u)
  BY <1>3, <1>6, <1>7, <1>8, <1>9 DEF Placed, InPlace
<1>11. Pace(u, kind, u.count)
  BY <1>1, <1>3, <1>5 DEF Pace
<1> QED  BY <1>3, <1>4, <1>10, <1>11 DEF Kempt

-----------------------------------------------------------------------------
(* Iterators.                                                              *)

LEMMA MinOfOne ==
  ASSUME NEW k \in Keys
  PROVE  Min({k}) = k
<1>1. k \in Int
  BY TommyAssumption
<1>2. Min({k, k}) = k
  BY <1>1, MinMaxIs
<1>3. {k, k} = {k}
  OBVIOUS
<1> QED  BY <1>2, <1>3

\* The part of a chain behind place i.
LEMMA SuffixIs ==
  ASSUME NEW c \in Seq(Keys), IsInjective(c), NEW i \in DOMAIN c
  PROVE  LET b == SubSeq(c, i + 1, Len(c))
         IN  /\ Range(b) = {c[j] : j \in i + 1 .. Len(c)}
             /\ c[i] \notin Range(b)
             /\ b # <<>> => /\ i + 1 \in DOMAIN c /\ Head(b) = c[i + 1]
                            /\ Range(b) = {c[i + 1]}
                                 \cup Range(SubSeq(c, (i + 1) + 1, Len(c)))
                            /\ c[i + 1] \notin Range(SubSeq(c, (i + 1) + 1, Len(c)))
<1> DEFINE n == Len(c)
           B(x) == SubSeq(c, x + 1, n)
           Keep(x) == {c[j] : j \in x + 1 .. n}
<1>1. n \in Nat /\ DOMAIN c = 1 .. n /\ i \in 1 .. n
  OBVIOUS
<1> HIDE DEF n
<1>2. ASSUME NEW x \in 1 .. n
      PROVE  /\ B(x) \in Seq(Keys) /\ Len(B(x)) = n - x
             /\ \A j \in 1 .. n - x : B(x)[j] = c[j + x]
             /\ Range(B(x)) = Keep(x) /\ c[x] \notin Keep(x)
  <2>1. /\ B(x) \in Seq(Keys) /\ Len(B(x)) = n - x
        /\ \A j \in 1 .. n - x : B(x)[j] = c[j + x]
    <3> DEFINE b == B(x)
               y == x + 1
    <3>1. b = SubSeq(c, y, n) /\ n = Len(c) /\ y \in 1 .. n + 1
      BY <1>1 DEF n
    <3> HIDE DEF b, y
    <3>2. b \in Seq(Keys) /\ Len(b) = IF y <= n THEN (n - y) + 1 ELSE 0
      BY <1>1, <3>1
    <3>3. \A j \in 1 .. (n - y) + 1 : b[j] = c[j + y - 1]
      BY <1>1, <3>1
    <3>4. y = x + 1
      BY DEF y
    <3>5. Len(b) = n - x /\ \A j \in 1 .. n - x : b[j] = c[j + x]
      <4>1. (n - y) + 1 = n - x /\ y <= n + 1
        BY <1>1, <3>4
      <4>2. \A j \in 1 .. n - x : j + y - 1 = j + x
        BY <1>1, <3>4
      <4> QED  BY <1>1, <3>2, <3>3, <3>4, <4>1, <4>2
    <3> QED  BY <3>2, <3>5 DEF b
  <2>2. /\ \A j \in 1 .. n - x : j + x \in x + 1 .. n
        /\ \A j \in x + 1 .. n : j - x \in 1 .. n - x /\ (j - x) + x = j
        /\ \A j \in x + 1 .. n : j \in 1 .. n /\ j # x
    BY <1>1
  <2>3. Range(B(x)) = {B(x)[j] : j \in 1 .. n - x}
    <3> HIDE DEF B
    <3>1. DOMAIN B(x) = 1 .. n - x
      BY <2>1
    <3> QED  BY <3>1 DEF Range
  <2>4. Range(B(x)) = Keep(x)
    <3> HIDE DEF B
    <3> QED  BY <2>1, <2>2, <2>3
  <2>5. c[x] \notin Keep(x)
    BY <1>1, <2>2 DEF IsInjective
  <2> QED  BY <2>1, <2>4, <2>5
<1>3. ASSUME B(i) # <<>>
      PROVE  i + 1 \in 1 .. n /\ Head(B(i)) = c[i + 1]
  <2>1. /\ B(i) \in Seq(Keys) /\ Len(B(i)) = n - i
        /\ \A j \in 1 .. n - i : B(i)[j] = c[j + i]
    BY <1>1, <1>2, Zenon
  <2> HIDE DEF B
  <2>2. Len(B(i)) # 0 /\ Head(B(i)) = B(i)[1]
    BY <1>3, <2>1
  <2>3. i + 1 \in 1 .. n /\ 1 \in 1 .. n - i /\ 1 + i = i + 1
    BY <1>1, <2>1, <2>2
  <2>4. B(i)[1] = c[1 + i]
    BY <2>1, <2>3
  <2> QED  BY <2>2, <2>3, <2>4
<1>4. ASSUME i + 1 \in 1 .. n
      PROVE  Keep(i) = {c[i + 1]} \cup Keep(i + 1)
  <2>1. i + 1 .. n = {i + 1} \cup ((i + 1) + 1 .. n)
    BY <1>1, <1>4
  <2> QED  BY <2>1
<1> HIDE DEF B, Keep
<1>5. /\ Range(B(i)) = Keep(i) /\ c[i] \notin Range(B(i))
      /\ B(i) # <<>> => /\ i + 1 \in DOMAIN c /\ Head(B(i)) = c[i + 1]
                        /\ Range(B(i)) = {c[i + 1]} \cup Range(B(i + 1))
                        /\ c[i + 1] \notin Range(B(i + 1))
  BY <1>1, <1>2, <1>3, <1>4
<1> QED  BY <1>5 DEF B, Keep, n

\* The keys behind one in a chain: what is left of it.
LEMMA BehindIs ==
  ASSUME NEW t, Placed(t), NEW p \in Active(t), NEW i \in DOMAIN t.bucket[p]
  PROVE  /\ t.bucket[p][i] \in Stored(t) /\ bucket_ref(t, t.bucket[p][i]) = p
         /\ Behind(t, t.bucket[p][i])
              = SubSeq(t.bucket[p], i + 1, Len(t.bucket[p]))
<1> DEFINE c == t.bucket[p]
           k == c[i]
           place == CHOOSE j \in DOMAIN c : c[j] = k
<1>1. /\ c \in Seq(Keys) /\ IsInjective(c) /\ Range(c) \subseteq Stored(t)
      /\ \A j \in Range(c) : bucket_ref(t, j) = p /\ j \in Keys
  BY InPlaceIs
<1>2. k \in Range(c)
  BY DEF Range
<1>3. Chain(t, k) = c
  BY <1>1, <1>2 DEF Chain
<1>4. place = i
  <2>1. place \in DOMAIN c /\ c[place] = k
    OBVIOUS
  <2> HIDE DEF place
  <2> QED  BY <1>1, <2>1 DEF IsInjective
<1>5. Behind(t, k) = SubSeq(c, place + 1, Len(c))
  BY <1>3, Zenon DEF Behind
<1> QED  BY <1>1, <1>2, <1>4, <1>5

\* What an iteration still has before it: the rest of a chain, and the chains
\* from a bucket on.
Left(t, k) == Range(Behind(t, k))
RestOf(t, it) == (IF it.node = {} THEN {} ELSE Left(t, Min(it.node)))
                   \cup Ahead(t, it)

LEMMA LeftIs ==
  ASSUME NEW t, Placed(t), NEW k \in Stored(t)
  PROVE  /\ k \notin Left(t, k) /\ Left(t, k) \subseteq Stored(t)
         /\ \A j \in Left(t, k) : bucket_ref(t, j) = bucket_ref(t, k)
         /\ Behind(t, k) = <<>> => Left(t, k) = {}
         /\ Behind(t, k) # <<>> =>
              LET x == Head(Behind(t, k))
              IN  /\ x \in Left(t, k) /\ Left(t, x) = Left(t, k) \ {x}
                  /\ bucket_ref(t, x) = bucket_ref(t, k)
<1> DEFINE p == bucket_ref(t, k)
           c == t.bucket[p]
<1>1. k \in Keys /\ k \in Range(c) /\ p \in Active(t)
  BY StoredIs, RefIs DEF Placed, Has, Chain
<1> HIDE DEF p
<1>2. /\ c \in Seq(Keys) /\ IsInjective(c) /\ Range(c) \subseteq Stored(t)
      /\ \A j \in Range(c) : bucket_ref(t, j) = p /\ j \in Keys
  BY <1>1, InPlaceIs
<1>3. PICK i \in DOMAIN c : c[i] = k
  BY <1>1 DEF Range
<1> DEFINE B(x) == SubSeq(c, x + 1, Len(c))
<1>4. Behind(t, k) = B(i)
  BY <1>1, <1>3, BehindIs
<1>5. /\ Range(B(i)) = {c[j] : j \in i + 1 .. Len(c)} /\ c[i] \notin Range(B(i))
      /\ B(i) # <<>> => /\ i + 1 \in DOMAIN c /\ Head(B(i)) = c[i + 1]
                        /\ Range(B(i)) = {c[i + 1]} \cup Range(B(i + 1))
                        /\ c[i + 1] \notin Range(B(i + 1))
  BY <1>2, SuffixIs, Zenon
<1>6. i + 1 \in DOMAIN c => Behind(t, c[i + 1]) = B(i + 1) /\ c[i + 1] \in Range(c)
  BY <1>1, BehindIs DEF Range
<1>7. Range(B(i)) \subseteq Range(c)
  <2>1. \A j \in i + 1 .. Len(c) : j \in DOMAIN c
    BY <1>2
  <2> QED  BY <1>5, <2>1 DEF Range
<1>8. B(i) = <<>> => Range(B(i)) = {}
  <2>1. Range(<<>>) = {}
    BY DEF Range
  <2> QED  BY <2>1
<1> HIDE DEF B
<1>9. k \notin Left(t, k) /\ Left(t, k) \subseteq Stored(t)
      /\ \A j \in Left(t, k) : bucket_ref(t, j) = p
  BY <1>2, <1>3, <1>4, <1>5, <1>7 DEF Left
<1>10. Behind(t, k) = <<>> => Left(t, k) = {}
  BY <1>4, <1>8 DEF Left
<1>11. ASSUME Behind(t, k) # <<>>
       PROVE  /\ Head(Behind(t, k)) \in Left(t, k)
              /\ Left(t, Head(Behind(t, k))) = Left(t, k) \ {Head(Behind(t, k))}
              /\ bucket_ref(t, Head(Behind(t, k))) = p
  <2>1. /\ i + 1 \in DOMAIN c /\ Head(Behind(t, k)) = c[i + 1]
        /\ Range(B(i)) = {c[i + 1]} \cup Range(B(i + 1))
        /\ c[i + 1] \notin Range(B(i + 1))
    BY <1>4, <1>5, <1>11
  <2>2. Left(t, c[i + 1]) = Range(B(i + 1)) /\ Left(t, k) = Range(B(i))
    BY <1>4, <1>6, <2>1 DEF Left
  <2>3. bucket_ref(t, c[i + 1]) = p
    BY <1>2, <1>6, <2>1
  <2> QED  BY <2>1, <2>2, <2>3
<1> QED  BY <1>9, <1>10, <1>11 DEF p

\* A chain, from its first key on.
LEMMA HeadIs ==
  ASSUME NEW t, Placed(t), NEW p \in Active(t), t.bucket[p] # <<>>
  PROVE  LET x == Head(t.bucket[p])
         IN  /\ x \in Stored(t) /\ bucket_ref(t, x) = p
             /\ Range(t.bucket[p]) = {x} \cup Left(t, x)
<1> DEFINE c == t.bucket[p]
           x == Head(c)
<1>1. c \in Seq(Keys) /\ IsInjective(c)
  BY InPlaceIs
<1>2. Len(c) \in Nat /\ DOMAIN c = 1 .. Len(c) /\ Len(c) # 0 /\ Head(c) = c[1]
  BY <1>1
<1>3. 1 \in DOMAIN c
  BY <1>2
<1>4. /\ c[1] \in Stored(t) /\ bucket_ref(t, c[1]) = p
      /\ Behind(t, c[1]) = SubSeq(c, 1 + 1, Len(c))
  BY <1>3, BehindIs
<1>5. Range(SubSeq(c, 1 + 1, Len(c))) = {c[j] : j \in 1 + 1 .. Len(c)}
  BY <1>1, <1>3, SuffixIs, Zenon
<1>6. 1 .. Len(c) = {1} \cup (1 + 1 .. Len(c))
  BY <1>2
<1>7. Range(c) = {c[1]} \cup {c[j] : j \in 1 + 1 .. Len(c)}
  BY <1>2, <1>6 DEF Range
<1> QED  BY <1>2, <1>4, <1>5, <1>7 DEF Left

LEMMA AheadIs ==
  ASSUME NEW t, Placed(t), NEW it, it.bucket_idx \in Nat
  PROVE  Ahead(t, it) = {k \in Stored(t) : bucket_ref(t, k) >= it.bucket_idx}
<1>1. ASSUME NEW k \in Ahead(t, it)
      PROVE  k \in Stored(t) /\ bucket_ref(t, k) >= it.bucket_idx
  <2>1. PICK p \in Active(t) : p >= it.bucket_idx /\ k \in Range(t.bucket[p])
    BY DEF Ahead
  <2> QED  BY <2>1, InPlaceIs
<1>2. ASSUME NEW k \in Stored(t), bucket_ref(t, k) >= it.bucket_idx
      PROVE  k \in Ahead(t, it)
  <2>1. k \in Keys /\ k \in Range(t.bucket[bucket_ref(t, k)])
    BY StoredIs DEF Has, Chain
  <2>2. bucket_ref(t, k) \in Active(t)
    BY <2>1, RefIs DEF Placed
  <2> QED  BY <1>2, <2>1, <2>2 DEF Ahead
<1> QED  BY <1>1, <1>2

\* An iterator that points at a stored key, or at none.
Points(t, it) ==
  /\ DOMAIN it = {"bucket_idx", "node"} /\ it.bucket_idx \in Nat
  /\ it.node = {} \/ \E k \in Stored(t) : it.node = {k}

\* advance goes on to one of the keys that are left, and leaves the others.
LEMMA AdvanceIs ==
  ASSUME NEW t, Placed(t), NEW it, Points(t, it)
  PROVE  LET r == advance(t, it)
         IN  \/ /\ r = [bucket_idx |-> t.low_max + t.split, node |-> {}]
                /\ RestOf(t, it) = {}
             \/ \E x \in RestOf(t, it) :
                  /\ x \in Stored(t) /\ DOMAIN r = {"bucket_idx", "node"}
                  /\ r.node = {x}
                  /\ \/ r.bucket_idx = bucket_ref(t, x) + 1
                     \/ /\ r.bucket_idx = it.bucket_idx
                        /\ \E k \in Stored(t) : /\ it.node = {k}
                                                /\ bucket_ref(t, k) = bucket_ref(t, x)
                  /\ (\A k \in Stored(t) :
                        it.node = {k} => it.bucket_idx > bucket_ref(t, k))
                       => RestOf(t, r) = RestOf(t, it) \ {x}
<1> DEFINE r == advance(t, it)
           behind == IF it.node = {} THEN <<>> ELSE Behind(t, Min(it.node))
           before == IF it.node = {} THEN {} ELSE Left(t, Min(it.node))
           ahead == {pos \in Active(t) : pos >= it.bucket_idx /\ t.bucket[pos] # <<>>}
           idx == it.bucket_idx
           Ref(k) == bucket_ref(t, k)
<1>1. r = IF behind # <<>> THEN [it EXCEPT !.node = {Head(behind)}]
          ELSE IF ahead = {}
          THEN [bucket_idx |-> Cardinality(Active(t)), node |-> {}]
          ELSE [bucket_idx |-> Min(ahead) + 1,
                node |-> {Head(t.bucket[Min(ahead)])}]
  BY Zenon DEF advance
<1>2. /\ Bounds(t) /\ Active(t) \subseteq Nat
      /\ Cardinality(Active(t)) = t.low_max + t.split
      /\ idx \in Nat /\ DOMAIN it = {"bucket_idx", "node"}
      /\ Stored(t) \subseteq Keys
  BY ActiveIs, StoredIs DEF Placed, Points
<1>3. \A k \in Stored(t) : Ref(k) \in Active(t) /\ Ref(k) \in Nat
                           /\ k \in Range(t.bucket[Ref(k)])
  <2> SUFFICES ASSUME NEW k \in Stored(t)
               PROVE  Ref(k) \in Active(t) /\ k \in Range(t.bucket[Ref(k)])
    BY <1>2
  <2> QED  BY <1>2, RefIs, StoredIs DEF Has, Chain
<1>4. Ahead(t, it) = {k \in Stored(t) : Ref(k) >= idx}
  BY <1>2, AheadIs, Zenon
<1>5. RestOf(t, it) = before \cup Ahead(t, it)
  BY Zenon DEF RestOf
<1>6. /\ it.node = {} => behind = <<>> /\ before = {}
      /\ it.node # {} => \E k \in Stored(t) :
                           /\ it.node = {k} /\ behind = Behind(t, k)
                           /\ before = Left(t, k)
  <2>1. \A k \in Stored(t) : Min({k}) = k
    BY <1>2, MinOfOne
  <2>2. it.node = {} \/ \E k \in Stored(t) : it.node = {k}
    BY DEF Points
  <2> QED  BY <2>1, <2>2
<1> HIDE DEF r, behind, before, Ref
<1>7. \A x \in Keys : Min({x}) = x
  BY MinOfOne
<1>8. CASE behind # <<>>
  <2>1. PICK k \in Stored(t) : /\ it.node = {k} /\ behind = Behind(t, k)
                               /\ before = Left(t, k)
    BY <1>6, <1>8
  <2> DEFINE x == Head(behind)
  <2>2. /\ x \in Left(t, k) /\ Left(t, x) = Left(t, k) \ {x} /\ Ref(x) = Ref(k)
        /\ Left(t, k) \subseteq Stored(t)
    BY <1>8, <2>1, LeftIs, Zenon DEF Ref
  <2> HIDE DEF x
  <2>3. x \in Stored(t) /\ x \in RestOf(t, it)
    BY <1>5, <2>1, <2>2
  <2>4. r = [it EXCEPT !.node = {x}]
    BY <1>1, <1>8 DEF x
  <2>5. DOMAIN r = {"bucket_idx", "node"} /\ r.node = {x} /\ r.bucket_idx = idx
    BY <1>2, <2>4
  <2>6. ASSUME idx > Ref(k)
        PROVE  RestOf(t, r) = RestOf(t, it) \ {x}
    <3>1. Min({x}) = x
      BY <1>2, <1>7, <2>3
    <3>2. RestOf(t, r) = Left(t, x) \cup Ahead(t, r)
      BY <2>5, <3>1 DEF RestOf
    <3>3. Ahead(t, r) = Ahead(t, it)
      BY <2>5 DEF Ahead
    <3>4. x \notin Ahead(t, it)
      BY <1>2, <1>3, <1>4, <2>2, <2>3, <2>6
    <3> QED  BY <1>5, <2>1, <2>2, <3>2, <3>3, <3>4
  <2>7. \E j \in Stored(t) : it.node = {j} /\ Ref(j) = Ref(x)
    BY <2>1, <2>2
  <2>8. (\A j \in Stored(t) : it.node = {j} => idx > Ref(j))
          => RestOf(t, r) = RestOf(t, it) \ {x}
    BY <2>1, <2>6
  <2> QED  BY <2>3, <2>5, <2>7, <2>8 DEF r, Ref
<1>9. behind = <<>> => before = {}
  BY <1>6, LeftIs
<1>10. CASE behind = <<>> /\ ahead = {}
  <2>1. \A k \in Stored(t) : ~(Ref(k) >= idx)
    <3> SUFFICES ASSUME NEW k \in Stored(t), Ref(k) >= idx
                 PROVE  FALSE
      OBVIOUS
    <3>1. t.bucket[Ref(k)] = <<>>
      BY <1>3, <1>10
    <3>2. Range(<<>>) = {}
      BY DEF Range
    <3> QED  BY <1>3, <3>1, <3>2
  <2>2. RestOf(t, it) = {}
    BY <1>4, <1>5, <1>9, <1>10, <2>1
  <2>3. r = [bucket_idx |-> t.low_max + t.split, node |-> {}]
    BY <1>1, <1>2, <1>10
  <2> QED  BY <2>2, <2>3 DEF r
<1>11. CASE behind = <<>> /\ ahead # {}
  <2> DEFINE p == Min(ahead)
             c == t.bucket[p]
             x == Head(c)
  <2>1. p \in ahead /\ \A q \in ahead : p <= q
    <3> DEFINE P(y) == y \in ahead /\ \A q \in ahead : y <= q
    <3>1. \E y : P(y)
      BY <1>2, <1>11, LeastElement
    <3>2. p = CHOOSE y : P(y)
      BY Zenon DEF Min
    <3> HIDE DEF P
    <3>3. P(p)
      BY <3>1, <3>2
    <3> HIDE DEF p
    <3> QED  BY <3>3 DEF P
  <2>2. p \in Active(t) /\ p \in Nat /\ p >= idx /\ c # <<>>
    BY <1>2, <2>1
  <2>3. r = [bucket_idx |-> p + 1, node |-> {x}]
    BY <1>1, <1>11
  <2> HIDE DEF p
  <2>4. x \in Stored(t) /\ Ref(x) = p /\ Range(c) = {x} \cup Left(t, x)
    BY <2>2, HeadIs, Zenon DEF Ref
  <2>5. \A k \in Stored(t) : Ref(k) >= idx => Ref(k) >= p
    <3> SUFFICES ASSUME NEW k \in Stored(t), Ref(k) >= idx
                 PROVE  Ref(k) >= p
      OBVIOUS
    <3>1. t.bucket[Ref(k)] # <<>>
      <4>1. Range(<<>>) = {}
        BY DEF Range
      <4> QED  BY <1>3, <4>1
    <3>2. p <= Ref(k)
      BY <1>3, <2>1, <3>1
    <3> QED  BY <1>3, <2>2, <3>2
  <2> HIDE DEF x, c
  <2>6. DOMAIN r = {"bucket_idx", "node"} /\ r.node = {x} /\ r.bucket_idx = p + 1
    BY <2>3
  <2>7. Ahead(t, r) = {k \in Stored(t) : Ref(k) >= p + 1}
    <3>1. r.bucket_idx \in Nat
      BY <2>2, <2>6
    <3>2. Ahead(t, r) = {k \in Stored(t) : bucket_ref(t, k) >= r.bucket_idx}
      BY <3>1, AheadIs, Zenon
    <3> QED  BY <2>6, <3>2 DEF Ref
  <2>8. \A k : k \in Range(c) <=> k \in Stored(t) /\ Ref(k) = p
    <3>1. \A k \in Range(c) : k \in Stored(t) /\ Ref(k) = p
      BY <2>2, InPlaceIs DEF Ref, c
    <3>2. \A k \in Stored(t) : Ref(k) = p => k \in Range(c)
      BY <1>3 DEF c
    <3> QED  BY <3>1, <3>2
  <2>9. Ahead(t, it) = Range(c) \cup Ahead(t, r)
    <3>1. \A k \in Stored(t) : Ref(k) >= idx <=> Ref(k) = p \/ Ref(k) >= p + 1
      BY <1>2, <1>3, <2>2, <2>5
    <3> QED  BY <1>4, <2>7, <2>8, <3>1
  <2>10. x \notin Left(t, x) /\ x \notin Ahead(t, r)
    <3>1. ~(p >= p + 1)
      BY <2>2
    <3> QED  BY <2>4, <2>7, <3>1, LeftIs
  <2>11. RestOf(t, r) = Left(t, x) \cup Ahead(t, r)
    <3>1. Min({x}) = x
      BY <1>2, <1>7, <2>4
    <3> QED  BY <2>6, <3>1 DEF RestOf
  <2>12. RestOf(t, r) = RestOf(t, it) \ {x} /\ x \in RestOf(t, it)
    BY <1>5, <1>9, <1>11, <2>4, <2>9, <2>10, <2>11
  <2> QED  BY <2>4, <2>6, <2>12 DEF r, Ref
<1> QED  BY <1>8, <1>10, <1>11

\* What is right of an iterator, for the lemmas above.
LEMMA RightIs ==
  ASSUME NEW t, Placed(t), NEW it, ItrRight(t, it)
  PROVE  /\ Points(t, it) /\ it.bucket_idx \in 0 .. t.low_max + t.split
         /\ \A k \in Stored(t) :
              it.node = {k} =>
                \/ it.bucket_idx = bucket_ref(t, k) + 1
                \/ kind = "dyn" /\ it.bucket_idx = bucket_ref(t, k)
<1> DEFINE m == t.low_max + t.split
<1>1. m \in Nat
  BY SizeOfPlaced
<1>2. ASSUME NEW k \in Stored(t)
      PROVE  bucket_ref(t, k) \in 0 .. m - 1
  <2>1. k \in Keys /\ Bounds(t)
    BY StoredIs DEF Placed
  <2>2. bucket_ref(t, k) \in Active(t)
    BY <2>1, RefIs
  <2>3. Active(t) = 0 .. m - 1
    BY <1>1, SizeOfPlaced, ActiveUpTo
  <2> QED  BY <2>2, <2>3
<1>3. CASE it.node = {} /\ it.bucket_idx \in 0 .. m
  BY <1>3 DEF ItrRight, Points
<1>4. CASE \E k \in Stored(t) :
             /\ it.node = {k}
             /\ \/ it.bucket_idx = bucket_ref(t, k) + 1
                \/ kind = "dyn" /\ it.bucket_idx = bucket_ref(t, k)
  <2>1. PICK k \in Stored(t) :
          /\ it.node = {k}
          /\ \/ it.bucket_idx = bucket_ref(t, k) + 1
             \/ kind = "dyn" /\ it.bucket_idx = bucket_ref(t, k)
    BY <1>4
  <2> DEFINE r == bucket_ref(t, k)
             i == it.bucket_idx
  <2>2. i \in 0 .. m
    <3>1. r \in 0 .. m - 1 /\ (i = r + 1 \/ i = r)
      BY <1>2, <2>1
    <3> HIDE DEF r, i, m
    <3> QED  BY <1>1, <3>1
  <2>3. i \in Nat
    <3> HIDE DEF i, m
    <3> QED  BY <1>1, <2>2
  <2>4. Points(t, it)
    BY <2>1, <2>3 DEF ItrRight, Points
  <2>5. \A j \in Stored(t) : it.node = {j} => j = k
    BY <2>1
  <2> QED  BY <2>1, <2>2, <2>4, <2>5
<1> QED  BY <1>3, <1>4 DEF ItrRight

LEMMA EndItrIs ==
  ASSUME NEW t, Placed(t)
  PROVE  ItrRight(t, EndItr) /\ EndItr.node = {} /\ EndItr.bucket_idx = 0
<1>1. 0 \in 0 .. t.low_max + t.split
  BY SizeOfPlaced
<1> QED  BY <1>1 DEF ItrRight, EndItr

LEMMA AdvanceRight ==
  ASSUME NEW t, Placed(t), NEW it, ItrRight(t, it)
  PROVE  ItrRight(t, advance(t, it))
<1> DEFINE r == advance(t, it)
<1>1. Points(t, it)
  BY RightIs
<1>2. CASE r = [bucket_idx |-> t.low_max + t.split, node |-> {}]
  <2>1. t.low_max + t.split \in 0 .. t.low_max + t.split
    BY SizeOfPlaced
  <2> QED  BY <1>2, <2>1 DEF ItrRight
<1>3. CASE \E x \in RestOf(t, it) :
             /\ x \in Stored(t) /\ DOMAIN r = {"bucket_idx", "node"}
             /\ r.node = {x}
             /\ \/ r.bucket_idx = bucket_ref(t, x) + 1
                \/ /\ r.bucket_idx = it.bucket_idx
                   /\ \E k \in Stored(t) : /\ it.node = {k}
                                           /\ bucket_ref(t, k) = bucket_ref(t, x)
  <2>1. PICK x \in Stored(t) :
             /\ DOMAIN r = {"bucket_idx", "node"}
             /\ r.node = {x}
             /\ \/ r.bucket_idx = bucket_ref(t, x) + 1
                \/ /\ r.bucket_idx = it.bucket_idx
                   /\ \E k \in Stored(t) : /\ it.node = {k}
                                           /\ bucket_ref(t, k) = bucket_ref(t, x)
    BY <1>3
  <2> HIDE DEF r
  <2>2. \/ r.bucket_idx = bucket_ref(t, x) + 1
        \/ kind = "dyn" /\ r.bucket_idx = bucket_ref(t, x)
    BY <2>1, RightIs
  <2> QED  BY <2>1, <2>2 DEF ItrRight, r
<1>4. \/ r = [bucket_idx |-> t.low_max + t.split, node |-> {}]
      \/ \E x \in RestOf(t, it) :
             /\ x \in Stored(t) /\ DOMAIN r = {"bucket_idx", "node"}
             /\ r.node = {x}
             /\ \/ r.bucket_idx = bucket_ref(t, x) + 1
                \/ /\ r.bucket_idx = it.bucket_idx
                   /\ \E k \in Stored(t) : /\ it.node = {k}
                                           /\ bucket_ref(t, k) = bucket_ref(t, x)
  BY <1>1, AdvanceIs, Zenon
<1> QED  BY <1>2, <1>3, <1>4

LEMMA FoundRight ==
  ASSUME NEW t, Placed(t), NEW k \in Keys, Has(t, k)
  PROVE  ItrRight(t, FoundItr(t, k))
<1>1. k \in Stored(t)
  BY StoredIs
<1>2. bucket_ref(t, k) \in Nat
  <2>1. bucket_ref(t, k) \in Active(t) /\ Active(t) \subseteq Nat
    BY RefIs, ActiveIs DEF Placed
  <2> QED  BY <2>1
<1>3. /\ DOMAIN FoundItr(t, k) = {"bucket_idx", "node"} /\ FoundItr(t, k).node = {k}
      /\ FoundItr(t, k).bucket_idx = bucket_ref(t, k) + (IF kind = "dyn" THEN 0 ELSE 1)
  BY DEF FoundItr
<1>4. bucket_ref(t, k) + 0 = bucket_ref(t, k)
  BY <1>2
<1> QED  BY <1>1, <1>3, <1>4 DEF ItrRight

-----------------------------------------------------------------------------
(* The theorems.                                                           *)

LEMMA InitIInv == Init => IInv
BY DEF Init, IInv, Control

\* A step that keeps the table and leaves the iterator right.
LEMMA KeepsTable ==
  ASSUME IInv, made, UNCHANGED <<kind, made, hashtable>>, Control',
         NEW it, itr' = it, ItrRight(hashtable, it)
  PROVE  IInv'
BY DEF IInv, Kempt, Placed, Pace, ItrRight

\* A step of insert or erase, that is done with its key.
LEMMA ChangesTable ==
  ASSUME IInv, made, UNCHANGED <<kind, made>>, itr' = EndItr, Control',
         NEW u, hashtable' = u, Kempt(u)
  PROVE  IInv'
<1>1. Placed(u) /\ Pace(u, kind, u.count) /\ ItrRight(u, EndItr)
  BY EndItrIs DEF Kempt
<1> QED  BY <1>1 DEF IInv, Kempt, Placed, Pace, ItrRight

LEMMA CalledIs ==
  ASSUME IInv, pc # "idle"
  PROVE  /\ made /\ Kempt(hashtable) /\ Placed(hashtable) /\ key \in Keys
         /\ itr = EndItr /\ kind \in Kinds
BY DEF IInv, Control, Kempt

LEMMA ReturnIs ==
  ASSUME IInv, pc # "idle", Return
  PROVE  Control' /\ UNCHANGED <<kind, caller, made>>
BY DEF IInv, Control, Return

\* What insert and erase do to the keys.
LEMMA InsertStep ==
  ASSUME IInv, insert
  PROVE  /\ IInv' /\ made /\ made' /\ kind' = kind /\ itr = EndItr /\ itr' = EndItr
         /\ made' = made
         /\ Stored(hashtable') = Stored(hashtable) \cup {key}
<1>1. /\ made /\ Kempt(hashtable) /\ Placed(hashtable) /\ key \in Keys
      /\ itr = EndItr /\ kind \in Kinds
  BY CalledIs DEF insert
<1>2. Control' /\ UNCHANGED <<kind, caller, made>> /\ itr' = EndItr
  BY <1>1, ReturnIs DEF insert
<1>3. Kempt(hashtable') /\ Stored(hashtable') = Stored(hashtable) \cup {key}
  <2>1. CASE Has(hashtable, key)
    <3>1. hashtable' = hashtable /\ key \in Stored(hashtable)
      BY <1>1, <2>1, StoredIs DEF insert
    <3> QED  BY <1>1, <3>1
  <2>2. CASE ~Has(hashtable, key)
    <3> DEFINE u == grow_step([hashtable EXCEPT
                      !.bucket[bucket_ref(hashtable, key)] = Append(@, key),
                      !.count = @ + 1])
    <3>1. hashtable' = u
      BY <2>2 DEF insert
    <3>2. Kempt(u) /\ Stored(u) = Stored(hashtable) \cup {key}
      BY <1>1, <2>2, InsertedIs, Zenon
    <3> HIDE DEF u
    <3> QED  BY <3>1, <3>2
  <2> QED  BY <2>1, <2>2
<1> QED  BY <1>1, <1>2, <1>3, ChangesTable

LEMMA EraseStep ==
  ASSUME IInv, erase
  PROVE  /\ IInv' /\ made /\ made' /\ kind' = kind /\ itr = EndItr /\ itr' = EndItr
         /\ made' = made
         /\ Stored(hashtable') = Stored(hashtable) \ {key}
<1>1. /\ made /\ Kempt(hashtable) /\ Placed(hashtable) /\ key \in Keys
      /\ itr = EndItr /\ kind \in Kinds
  BY CalledIs DEF erase
<1>2. Control' /\ UNCHANGED <<kind, caller, made>> /\ itr' = EndItr
  BY <1>1, ReturnIs DEF erase
<1>3. Kempt(hashtable') /\ Stored(hashtable') = Stored(hashtable) \ {key}
  <2>1. CASE ~Has(hashtable, key)
    <3>1. hashtable' = hashtable /\ key \notin Stored(hashtable)
      BY <1>1, <2>1, StoredIs DEF erase
    <3> QED  BY <1>1, <3>1
  <2>2. CASE Has(hashtable, key)
    <3> DEFINE u == shrink_step([hashtable EXCEPT
                      !.bucket[bucket_ref(hashtable, key)] = Kept(@, Keys \ {key}),
                      !.count = @ - 1])
    <3>1. hashtable' = u
      BY <2>2 DEF erase
    <3>2. Kempt(u) /\ Stored(u) = Stored(hashtable) \ {key}
      BY <1>1, <2>2, ErasedIs, Zenon
    <3> HIDE DEF u
    <3> QED  BY <3>1, <3>2
  <2> QED  BY <2>1, <2>2
<1> QED  BY <1>1, <1>2, <1>3, ChangesTable

LEMMA FindStep ==
  ASSUME IInv, find
  PROVE  IInv'
<1>1. made /\ Placed(hashtable) /\ key \in Keys /\ itr = EndItr
  BY CalledIs DEF find
<1>2. Control' /\ UNCHANGED <<kind, caller, made, hashtable>>
  BY ReturnIs DEF find
<1>3. CASE Has(hashtable, key)
  <2>1. itr' = FoundItr(hashtable, key)
    BY <1>3 DEF find
  <2> QED  BY <1>1, <1>2, <1>3, <2>1, FoundRight, KeepsTable
<1>4. CASE ~Has(hashtable, key)
  <2>1. itr' = EndItr
    BY <1>4 DEF find
  <2> QED  BY <1>1, <1>2, <2>1, EndItrIs, KeepsTable
<1> QED  BY <1>3, <1>4

LEMMA IInvStep == IInv /\ [Next]_vars => IInv'
<1> SUFFICES ASSUME IInv, [Next]_vars
             PROVE  IInv'
  OBVIOUS
<1>1. CASE create_table
  <2>1. /\ kind \in Kinds /\ made' = TRUE /\ itr = EndItr /\ kind' = kind
        /\ hashtable' = InitialTable(kind) /\ Control'
    BY <1>1 DEF create_table, IInv, Control
  <2> DEFINE u == InitialTable(kind)
  <2>2. Kempt(u)
    BY <2>1, InitialIs
  <2>3. itr' = EndItr /\ hashtable' = u
    BY <1>1, <2>1 DEF create_table
  <2> HIDE DEF u
  <2>4. Placed(u) /\ Pace(u, kind, u.count) /\ ItrRight(u, EndItr)
    BY <2>2, EndItrIs DEF Kempt
  <2> QED  BY <2>1, <2>3, <2>4 DEF IInv, Kempt, Placed, Pace, ItrRight
<1>2. CASE destroy_table
  BY <1>2 DEF destroy_table, Idle, IInv, Control
<1>3. ASSUME NEW op \in {"find", "insert", "erase"}, NEW k \in Keys, call(op, k)
      PROVE  IInv'
  <2>1. made /\ UNCHANGED <<kind, made, hashtable>> /\ itr' = EndItr /\ Control'
    BY <1>3 DEF call, Idle, IInv, Control
  <2>2. ItrRight(hashtable, EndItr)
    BY <2>1, EndItrIs DEF IInv, Kempt
  <2> QED  BY <2>1, <2>2, KeepsTable
<1>4. CASE find
  BY <1>4, FindStep
<1>5. CASE insert
  BY <1>5, InsertStep
<1>6. CASE erase
  BY <1>6, EraseStep
<1>7. CASE begin_itr
  <2>1. /\ made /\ UNCHANGED <<kind, made, hashtable>> /\ Control'
        /\ itr' = advance(hashtable, EndItr) /\ Placed(hashtable)
    BY <1>7 DEF begin_itr, Idle, IInv, Control, Kempt
  <2>2. ItrRight(hashtable, advance(hashtable, EndItr))
    BY <2>1, EndItrIs, AdvanceRight
  <2> QED  BY <2>1, <2>2, KeepsTable
<1>8. CASE increment_itr
  <2>1. /\ made /\ UNCHANGED <<kind, made, hashtable>> /\ Control'
        /\ itr' = advance(hashtable, itr) /\ Placed(hashtable)
        /\ ItrRight(hashtable, itr)
    BY <1>8 DEF increment_itr, Idle, IInv, Control, Kempt
  <2>2. ItrRight(hashtable, advance(hashtable, itr))
    BY <2>1, AdvanceRight
  <2> QED  BY <2>1, <2>2, KeepsTable
<1>9. CASE UNCHANGED vars
  BY <1>9 DEF vars, IInv, Control, Kempt, Placed, Pace, ItrRight
<1> QED  BY <1>1, <1>2, <1>3, <1>4, <1>5, <1>6, <1>7, <1>8, <1>9 DEF Next

\* Between two operations every key is in the bucket that a lookup goes to, a
\* split or a merge that is under way has come as far as the number of keys
\* demands, and the iterator is at a key with its bucket, or the next one, to
\* go on with.
THEOREM Invariance == Spec => []IInv
<1> QED  BY InitIInv, IInvStep, PTL DEF Spec

\* There always is a power of two of buckets, so that the & of the code is the
\* remainder, those in use hold chains, and the others nothing.
THEOREM TypeCorrect == Spec => []TypeOK
<1>1. IInv => TypeOK
  <2> SUFFICES ASSUME IInv
               PROVE  TypeOK
    OBVIOUS
  <2> DEFINE t == hashtable
  <2>1. /\ kind \in Kinds /\ caller \in Callers /\ made \in BOOLEAN
        /\ pc \in {"idle", "find", "insert", "erase"} /\ key \in Keys \cup {NoKey}
    BY DEF IInv, Control
  <2>2. CASE ~made
    <3>1. t = NewTable(0) /\ itr = EndItr
      BY <2>2 DEF IInv, Control, NoTable
    <3>2. /\ t.bucket_max = 0 /\ t.state = "stable"
          /\ t.bucket = [pos \in 0 .. 0 - 1 |-> <<>>] /\ Active(t) = 0 .. 0 - 1
      BY <3>1, NewTableIs, Zenon
    <3>3. 0 .. 0 - 1 = {} /\ DOMAIN t.bucket = {}
      BY <3>2
    <3>4. itr.node = {} /\ itr.bucket_idx = 0
      BY <3>1 DEF EndItr
    <3>5. Cardinality(Active(t)) = 0
      BY <3>2, <3>3, FS_EmptySet
    <3>6. itr.bucket_idx \in 0 .. Cardinality(Active(t))
      BY <3>4, <3>5
    <3> QED  BY <2>1, <3>2, <3>3, <3>4, <3>6 DEF TypeOK
  <2>3. CASE made
    <3>1. Placed(t) /\ Pace(t, kind, t.count) /\ ItrRight(t, itr) /\ Bounds(t)
      BY <2>3 DEF IInv, Kempt, Placed
    <3>2. t.bucket_max \in Nat /\ PowerOfTwo(t.bucket_max)
      <4>1. t.bucket_max \in Nat /\ t.low_max \in Nat /\ PowerOfTwo(t.low_max)
        BY <3>1, SizeOfPlaced DEF Pace
      <4>2. t.bucket_max = t.low_max \/ t.bucket_max = 2 * t.low_max
        BY <3>1 DEF Bounds
      <4> QED  BY <4>1, <4>2, DoublePower
    <3>3. t.state \in {"stable", "grow", "shrink"}
      BY <3>1 DEF Pace
    <3>4. Active(t) \subseteq DOMAIN t.bucket /\ DOMAIN t.bucket = 0 .. t.bucket_max - 1
          /\ Cardinality(Active(t)) = t.low_max + t.split
      BY <3>1, ActiveIs DEF Bounds
    <3>5. \A pos \in DOMAIN t.bucket :
            IF pos \in Active(t) THEN t.bucket[pos] \in Seq(Keys)
                                 ELSE t.bucket[pos] = Unset
      BY <3>1, <3>4 DEF Placed, InPlace
    <3>6. itr.node \in {{}} \cup {{k} : k \in Keys}
      BY <3>1, StoredIs DEF ItrRight
    <3>7. itr.bucket_idx \in 0 .. Cardinality(Active(t))
      BY <3>1, <3>4, RightIs
    <3> QED  BY <2>1, <3>2, <3>3, <3>4, <3>5, <3>6, <3>7 DEF TypeOK
  <2> QED  BY <2>1, <2>2, <2>3
<1> QED  BY <1>1, Invariance, PTL

\* However far hashlin_grow_step and hashlin_shrink_step have come, and however
\* often tommy_hashdyn_resize has run, bucket_ref leads to the bucket of a key,
\* and count, which decides on the next step, is the number of keys.
THEOREM InItsBucket == Spec => []EveryKeyInItsBucket
<1>1. IInv => EveryKeyInItsBucket
  <2> SUFFICES ASSUME IInv
               PROVE  EveryKeyInItsBucket
    OBVIOUS
  <2> DEFINE t == hashtable
  <2>1. CASE ~made
    <3>1. t = NewTable(0)
      BY <2>1 DEF IInv, Control, NoTable
    <3>2. t.count = 0 /\ Active(t) = 0 .. 0 - 1 /\ Stored(t) = {}
      BY <3>1, NewTableIs, Zenon
    <3>3. Active(t) = {}
      BY <3>2
    <3> QED  BY <3>2, <3>3, FS_EmptySet DEF EveryKeyInItsBucket
  <2>2. CASE made
    <3>1. Placed(t)
      BY <2>2 DEF IInv, Kempt
    <3>2. t.count = Cardinality(Stored(t))
      BY <3>1 DEF Placed
    <3> QED  BY <3>1, <3>2, InPlaceIs DEF EveryKeyInItsBucket
  <2> QED  BY <2>1, <2>2
<1> QED  BY <1>1, Invariance, PTL

\* What hashlin_grow_step and hashlin_shrink_step split and merge with every key
\* that comes or goes is enough: the table is not half full before it has grown,
\* nor as good as empty before it has shrunk.
THEOREM Reallocated == Spec => []ReallocatedInTime
<1>1. IInv => ReallocatedInTime
  <2> SUFFICES ASSUME IInv
               PROVE  ReallocatedInTime
    OBVIOUS
  <2> DEFINE t == hashtable
             n == t.bucket_max
             m == t.low_max
             b == t.split
             c == t.count
  <2>1. CASE ~made
    <3>1. t = NewTable(0)
      BY <2>1 DEF IInv, Control, NoTable
    <3>2. t.state = "stable"
      BY <3>1, NewTableIs, Zenon
    <3> QED  BY <3>2 DEF ReallocatedInTime
  <2>2. CASE made
    <3>1. Placed(t) /\ Pace(t, kind, c)
      BY <2>2 DEF IInv, Kempt
    <3>2. c \in Nat /\ m \in Nat \ {0}
      BY <3>1, SizeOfPlaced
    <3>3. t.state # "stable" =>
            /\ n = 2 * m /\ b \in 1 .. m - 1
            /\ \/ t.state = "grow" /\ 2 * c <= m + b
               \/ t.state = "shrink" /\ 8 * c >= m + b
      BY <3>1 DEF Pace
    <3> HIDE DEF n, m, b, c
    <3>4. t.state = "grow" => c < n \div 2
      BY <3>2, <3>3
    <3>5. t.state = "shrink" => c > m \div 8
      BY <3>2, <3>3
    <3> QED  BY <3>4, <3>5 DEF ReallocatedInTime, n, m, c
  <2> QED  BY <2>1, <2>2
<1> QED  BY <1>1, Invariance, PTL

-----------------------------------------------------------------------------
(* The refinement.                                                         *)

\* AbstractItr, of any table and iterator.
Stays(t, it, kd) == kd = "dyn" /\ it.bucket_idx \in Seen(t, it)

ItrAt(t, it, kd) == [here |-> it.node,
                     rest |-> IF it.node = {} \/ Stays(t, it, kd) THEN {}
                              ELSE RestOf(t, it)]

LEMMA Mapped ==
  /\ AbstractItr = ItrAt(hashtable, itr, kind)
  /\ AbstractItr' = ItrAt(hashtable', itr', kind')
  /\ StaysInBucket <=> Stays(hashtable, itr, kind)
BY DEF AbstractItr, ItrAt, StaysInBucket, Stays, RestOf, Left

LEMMA EndMapped ==
  ASSUME NEW t, NEW it, NEW kd, it.node = {}
  PROVE  ItrAt(t, it, kd) = Contract!EndItr
BY DEF ItrAt, Contract!EndItr

\* An iterator that does not stay in its bucket is behind it.
LEMMA PassedIs ==
  ASSUME NEW t, Placed(t), NEW it, ItrRight(t, it), NEW k \in Stored(t),
         it.node = {k}
  PROVE  /\ Stays(t, it, kind) <=> it.bucket_idx = bucket_ref(t, k) /\ kind = "dyn"
         /\ ~Stays(t, it, kind) => it.bucket_idx = bucket_ref(t, k) + 1
         /\ bucket_ref(t, k) \in Nat
<1>1. k \in Keys
  BY StoredIs
<1>2. Min({k}) = k
  BY <1>1, MinOfOne
<1>3. Seen(t, it) = {bucket_ref(t, k)}
  BY <1>2 DEF Seen
<1>4. bucket_ref(t, k) \in Nat
  <2>1. bucket_ref(t, k) \in Active(t) /\ Active(t) \subseteq Nat
    BY <1>1, RefIs, ActiveIs DEF Placed
  <2> QED  BY <2>1
<1>5. \/ it.bucket_idx = bucket_ref(t, k) + 1
      \/ kind = "dyn" /\ it.bucket_idx = bucket_ref(t, k)
  BY RightIs
<1> QED  BY <1>3, <1>4, <1>5 DEF Stays

\* advance, as the contract sees it.
LEMMA AdvanceMapped ==
  ASSUME NEW t, Placed(t), NEW it, ItrRight(t, it),
         it.node = {} \/ ~Stays(t, it, kind)
  PROVE  ItrAt(t, advance(t, it), kind) \in
           IF RestOf(t, it) = {} THEN {Contract!EndItr}
           ELSE {[here |-> {x}, rest |-> RestOf(t, it) \ {x}] : x \in RestOf(t, it)}
<1> DEFINE r == advance(t, it)
           rest == RestOf(t, it)
<1>1. Points(t, it) /\ ItrRight(t, r)
  BY RightIs, AdvanceRight
<1>2. ASSUME NEW k \in Stored(t), it.node = {k}
      PROVE  it.bucket_idx = bucket_ref(t, k) + 1 /\ bucket_ref(t, k) \in Nat
  BY <1>2, PassedIs
<1>3. \A k \in Stored(t) : it.node = {k} => it.bucket_idx > bucket_ref(t, k)
  BY <1>2
<1>4. \/ r = [bucket_idx |-> t.low_max + t.split, node |-> {}] /\ rest = {}
      \/ \E x \in rest :
           /\ x \in Stored(t) /\ r.node = {x}
           /\ \/ r.bucket_idx = bucket_ref(t, x) + 1
              \/ /\ r.bucket_idx = it.bucket_idx
                 /\ \E k \in Stored(t) : /\ it.node = {k}
                                         /\ bucket_ref(t, k) = bucket_ref(t, x)
           /\ RestOf(t, r) = rest \ {x}
  <2>1. \/ r = [bucket_idx |-> t.low_max + t.split, node |-> {}] /\ rest = {}
        \/ \E x \in rest :
             /\ x \in Stored(t) /\ DOMAIN r = {"bucket_idx", "node"}
             /\ r.node = {x}
             /\ \/ r.bucket_idx = bucket_ref(t, x) + 1
                \/ /\ r.bucket_idx = it.bucket_idx
                   /\ \E k \in Stored(t) : /\ it.node = {k}
                                           /\ bucket_ref(t, k) = bucket_ref(t, x)
             /\ (\A k \in Stored(t) :
                   it.node = {k} => it.bucket_idx > bucket_ref(t, k))
                  => RestOf(t, r) = rest \ {x}
    BY <1>1, AdvanceIs, Zenon
  <2> HIDE DEF r, rest
  <2> QED  BY <1>3, <2>1
<1> HIDE DEF r, rest
<1>5. CASE r = [bucket_idx |-> t.low_max + t.split, node |-> {}] /\ rest = {}
  <2>1. r.node = {}
    BY <1>5
  <2>2. ItrAt(t, r, kind) = Contract!EndItr
    BY <2>1, EndMapped
  <2> QED  BY <1>5, <2>2 DEF r, rest
<1>6. ASSUME NEW x \in rest, x \in Stored(t), r.node = {x},
             \/ r.bucket_idx = bucket_ref(t, x) + 1
             \/ /\ r.bucket_idx = it.bucket_idx
                /\ \E k \in Stored(t) : /\ it.node = {k}
                                        /\ bucket_ref(t, k) = bucket_ref(t, x),
             RestOf(t, r) = rest \ {x}
      PROVE  ItrAt(t, r, kind) \in {[here |-> {y}, rest |-> rest \ {y}] : y \in rest}
  <2>1. r.bucket_idx = bucket_ref(t, x) + 1
    BY <1>2, <1>6
  <2>2. ~Stays(t, r, kind)
    BY <1>1, <1>6, <2>1, PassedIs
  <2>3. ItrAt(t, r, kind) = [here |-> {x}, rest |-> rest \ {x}]
    BY <1>6, <2>2 DEF ItrAt
  <2> QED  BY <2>3
<1> QED  BY <1>4, <1>5, <1>6 DEF r, rest

\* All keys are left to an iteration that has not begun.
LEMMA AllAhead ==
  ASSUME NEW t, Placed(t)
  PROVE  RestOf(t, EndItr) = Stored(t)
<1>1. EndItr.bucket_idx = 0 /\ EndItr.node = {}
  BY DEF EndItr
<1>2. Ahead(t, EndItr) = {k \in Stored(t) : bucket_ref(t, k) >= EndItr.bucket_idx}
  BY <1>1, AheadIs
<1>3. \A k \in Stored(t) : bucket_ref(t, k) >= 0
  <2> SUFFICES ASSUME NEW k \in Stored(t)
               PROVE  bucket_ref(t, k) \in Nat
    OBVIOUS
  <2>1. k \in Keys
    BY StoredIs
  <2>2. bucket_ref(t, k) \in Active(t) /\ Active(t) \subseteq Nat
    BY <2>1, RefIs, ActiveIs DEF Placed
  <2> QED  BY <2>2
<1> QED  BY <1>1, <1>2, <1>3 DEF RestOf

LEMMA FindImplements ==
  ASSUME IInv, find
  PROVE  Contract!find(key)
<1> DEFINE t == hashtable
           it == itr'
<1>1. made /\ Placed(t) /\ key \in Keys
  BY CalledIs DEF find
<1>2. UNCHANGED <<kind, made, hashtable>>
  BY ReturnIs DEF find
<1>3. AbstractItr' = ItrAt(t, it, kind) /\ Stored(t)' = Stored(t)
  BY <1>2, Mapped
<1>4. CASE Has(t, key)
  <2>1. it = FoundItr(t, key) /\ it.node = {key} /\ key \in Stored(t)
        /\ it.bucket_idx = bucket_ref(t, key) + (IF kind = "dyn" THEN 0 ELSE 1)
    BY <1>1, <1>4, StoredIs DEF find, FoundItr
  <2>2. ItrRight(t, it)
    BY <1>1, <1>4, <2>1, FoundRight
  <2> HIDE DEF it
  <2> DEFINE rest == IF it.node = {} \/ Stays(t, it, kind) THEN {} ELSE RestOf(t, it)
  <2>3. rest \in SUBSET (Stored(t) \ {key})
    <3>1. CASE Stays(t, it, kind)
      BY <3>1
    <3>2. CASE ~Stays(t, it, kind)
      <4>1. it.bucket_idx = bucket_ref(t, key) + 1 /\ bucket_ref(t, key) \in Nat
        BY <1>1, <2>1, <2>2, <3>2, PassedIs
      <4>2. Ahead(t, it) = {k \in Stored(t) : bucket_ref(t, k) >= it.bucket_idx}
        BY <1>1, <4>1, AheadIs
      <4>3. key \notin Ahead(t, it) /\ Ahead(t, it) \subseteq Stored(t)
        BY <4>1, <4>2
      <4>4. key \notin Left(t, key) /\ Left(t, key) \subseteq Stored(t)
        BY <1>1, <2>1, LeftIs
      <4>5. Min(it.node) = key
        BY <1>1, <2>1, MinOfOne
      <4>6. RestOf(t, it) = Left(t, key) \cup Ahead(t, it)
        BY <2>1, <4>5 DEF RestOf
      <4> QED  BY <2>1, <3>2, <4>3, <4>4, <4>6
    <3> QED  BY <3>1, <3>2
  <2>4. ItrAt(t, it, kind) = [here |-> {key}, rest |-> rest]
    BY <2>1 DEF ItrAt
  <2> HIDE DEF rest
  <2>5. AbstractItr' \in [here : {{key}}, rest : SUBSET (Stored(t) \ {key})]
    BY <1>3, <2>3, <2>4 DEF it
  <2> QED  BY <1>1, <1>2, <1>3, <2>1, <2>5 DEF Contract!find
<1>5. CASE ~Has(t, key)
  <2>1. it.node = {} /\ key \notin Stored(t)
    BY <1>1, <1>5, StoredIs DEF find, EndItr
  <2>2. AbstractItr' = Contract!EndItr
    BY <1>3, <2>1, EndMapped
  <2> QED  BY <1>1, <1>2, <1>3, <2>1, <2>2 DEF Contract!find
<1> QED  BY <1>4, <1>5

LEMMA BeginImplements ==
  ASSUME IInv, begin_itr
  PROVE  Contract!begin_itr
<1> DEFINE t == hashtable
<1>1. /\ made /\ Placed(t) /\ UNCHANGED <<kind, made, hashtable>>
      /\ itr' = advance(t, EndItr)
  BY DEF begin_itr, Idle, IInv, Kempt
<1>2. /\ AbstractItr' = ItrAt(t, advance(t, EndItr), kind)
      /\ Stored(t)' = Stored(t)
  BY <1>1, Mapped
<1>3. ItrRight(t, EndItr) /\ EndItr.node = {} /\ RestOf(t, EndItr) = Stored(t)
  BY <1>1, EndItrIs, AllAhead
<1>4. AbstractItr' \in
        IF Stored(t) = {} THEN {Contract!EndItr}
        ELSE {[here |-> {x}, rest |-> Stored(t) \ {x}] : x \in Stored(t)}
  BY <1>1, <1>2, <1>3, AdvanceMapped
<1> QED  BY <1>1, <1>2, <1>4 DEF Contract!begin_itr

LEMMA IncrementImplements ==
  ASSUME IInv, increment_itr, ~StaysInBucket
  PROVE  Contract!increment_itr
<1> DEFINE t == hashtable
           rest == RestOf(t, itr)
<1>1. /\ made /\ Placed(t) /\ UNCHANGED <<kind, made, hashtable>>
      /\ itr' = advance(t, itr) /\ itr.node # {} /\ ItrRight(t, itr)
  BY DEF increment_itr, Idle, IInv, Kempt, is_itr_valid
<1>2. ~Stays(t, itr, kind)
  BY Mapped
<1>3. /\ AbstractItr' = ItrAt(t, advance(t, itr), kind)
      /\ AbstractItr = [here |-> itr.node, rest |-> rest]
      /\ Stored(t)' = Stored(t)
  BY <1>1, <1>2, Mapped DEF ItrAt
<1>4. AbstractItr' \in
        IF rest = {} THEN {Contract!EndItr}
        ELSE {[here |-> {x}, rest |-> rest \ {x}] : x \in rest}
  BY <1>1, <1>2, <1>3, AdvanceMapped
<1> HIDE DEF rest
<1>5. AbstractItr.here # {} /\ AbstractItr.rest = rest
  BY <1>1, <1>3
<1> QED  BY <1>1, <1>3, <1>4, <1>5 DEF Contract!increment_itr, Contract!is_itr_valid

\* The three TommyDS shims are the table the benchmark expects, whatever bucket
\* a split or a merge has come to when they are called: find, insert, erase and
\* an iteration do what the contract's operations do, but for the iterator of
\* "dyn" that find() has returned, which is only good for its key.
THEOREM Implements == Spec => ImplementsContract
<1>1. Init => Contract!TableInit
  <2> SUFFICES ASSUME Init
               PROVE  Contract!TableInit
    OBVIOUS
  <2>1. hashtable = NewTable(0) /\ itr.node = {} /\ made = FALSE
    BY DEF Init, NoTable, EndItr
  <2>2. Stored(hashtable) = {}
    BY <2>1, NewTableIs, Zenon
  <2> QED  BY <2>1, <2>2, Mapped, EndMapped DEF Contract!TableInit
<1>2. ASSUME IInv, [Next]_vars
      PROVE  [ContractStep]_vars
  <2>1. itr'.node = {} => AbstractItr' = Contract!EndItr
    BY Mapped, EndMapped
  <2>2. EndItr.node = {}
    BY DEF EndItr
  <2>3. CASE create_table
    <3>1. /\ ~made /\ made' = TRUE /\ itr' = EndItr
          /\ hashtable' = InitialTable(kind) /\ kind \in Kinds
      BY <1>2, <2>3 DEF create_table, IInv, Control
    <3>2. Stored(hashtable)' = {}
      BY <3>1, InitialIs
    <3> QED  BY <2>1, <2>2, <2>3, <3>1, <3>2 DEF ContractStep, Contract!create_table
  <2>4. CASE destroy_table
    <3>1. made /\ made' = FALSE /\ itr' = EndItr /\ hashtable' = NewTable(0)
      BY <2>4 DEF destroy_table, Idle, NoTable
    <3>2. Stored(NewTable(0)) = {}
      BY NewTableIs, Zenon
    <3>3. Stored(hashtable)' = {}
      BY <3>1, <3>2
    <3> QED  BY <2>1, <2>2, <2>4, <3>1, <3>3 DEF ContractStep, Contract!destroy_table
  <2>5. ASSUME NEW op \in {"find", "insert", "erase"}, NEW k \in Keys, call(op, k)
        PROVE  [ContractStep]_vars
    <3>1. Idle /\ pc' # "idle" /\ UNCHANGED <<made, hashtable>> /\ itr' = EndItr
      BY <2>5 DEF call
    <3>2. Stored(hashtable)' = Stored(hashtable)
      BY <3>1
    <3> QED  BY <2>1, <2>2, <3>1, <3>2 DEF ContractStep, Contract!release_itr
  <2>6. CASE find
    BY <1>2, <2>6, FindImplements DEF ContractStep
  <2>7. CASE insert
    <3>1. /\ made /\ made' = made /\ itr' = EndItr
          /\ Stored(hashtable') = Stored(hashtable) \cup {key}
      BY <1>2, <2>7, InsertStep
    <3>2. Contract!insert(key)
      BY <2>1, <2>2, <3>1 DEF Contract!insert
    <3> QED  BY <2>7, <3>2 DEF ContractStep
  <2>8. CASE erase
    <3>1. /\ made /\ made' = made /\ itr' = EndItr
          /\ Stored(hashtable') = Stored(hashtable) \ {key}
      BY <1>2, <2>8, EraseStep
    <3>2. Contract!erase(key)
      BY <2>1, <2>2, <3>1 DEF Contract!erase
    <3> QED  BY <2>8, <3>2 DEF ContractStep
  <2>9. CASE begin_itr
    BY <1>2, <2>9, BeginImplements DEF ContractStep
  <2>10. CASE increment_itr
    BY <1>2, <2>10, IncrementImplements DEF ContractStep
  <2>11. CASE UNCHANGED vars
    BY <2>11
  <2> QED  BY <1>2, <2>3, <2>4, <2>5, <2>6, <2>7, <2>8, <2>9, <2>10, <2>11 DEF Next
<1> QED  BY <1>1, <1>2, Invariance, PTL DEF Spec, ImplementsContract
=============================================================================
