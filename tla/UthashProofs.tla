----------------------------- MODULE UthashProofs -----------------------------
(***************************************************************************)
(* Theorems about Uthash, for every set of keys, every hash function and   *)
(* every initial number and capacity of buckets.                           *)
(***************************************************************************)
EXTENDS Uthash, Arithmetic

-----------------------------------------------------------------------------
(* How far expand_mult gets.                                               *)

LEMMA ExpandMultBounds ==
  ASSUME NEW count \in Nat, NEW ideal \in Nat \ {0}
  PROVE  /\ ExpandMult(count, ideal) \in Nat
         /\ count <= (ExpandMult(count, ideal) + 1) * ideal
<1> DEFINE Counted(f, n) == IF n = 0 THEN 0
                            ELSE IF n > ideal /\ n > f[n - 1] * ideal
                            THEN f[n - 1] + 1 ELSE f[n - 1]
           Mult(f, c) == f = [n \in 0 .. c |-> Counted(f, n)]
           Exists == {c \in Nat : \E f : Mult(f, c)}
           mult == CHOOSE f : Mult(f, count)
<1>1. ExpandMult(count, ideal) = mult[count]
  BY DEF ExpandMult
<1>2. count \in Exists
  <2>1. 0 \in Exists
    <3>1. Mult([n \in 0 .. 0 |-> 0], 0)
      OBVIOUS
    <3> QED  BY <3>1
  <2>2. ASSUME NEW c \in Nat, c \in Exists
        PROVE  c + 1 \in Exists
    <3>1. PICK f : Mult(f, c)
      BY <2>2
    <3> DEFINE g == [n \in 0 .. c + 1 |->
                       IF n = c + 1 THEN Counted(f, n) ELSE f[n]]
    <3>2. \A n \in 0 .. c + 1 : Counted(g, n) = Counted(f, n)
      <4> SUFFICES ASSUME NEW n \in 1 .. c + 1
                   PROVE  g[n - 1] = f[n - 1]
        OBVIOUS
      <4> QED  OBVIOUS
    <3>3. \A n \in 0 .. c : f[n] = Counted(f, n)
      BY <3>1
    <3>4. Mult(g, c + 1)
      BY <3>2, <3>3
    <3> HIDE DEF Mult, g
    <3> QED  BY <3>4
  <2> HIDE DEF Exists
  <2> QED  BY <2>1, <2>2, NatSetInduction
<1>3. Mult(mult, count)
  <2> HIDE DEF Mult
  <2> QED  BY <1>2
<1>4. \A n \in 0 .. count : mult[n] = Counted(mult, n)
  <2> HIDE DEF mult
  <2> QED  BY <1>3
<1> HIDE DEF mult, Mult, Exists
<1> DEFINE Good == {n \in Nat : n <= count => /\ mult[n] \in Nat
                                              /\ n <= (mult[n] + 1) * ideal}
<1>5. 0 \in Good
  BY <1>4
<1>6. ASSUME NEW n \in Nat, n \in Good
      PROVE  n + 1 \in Good
  <2> SUFFICES ASSUME n + 1 <= count
               PROVE  /\ mult[n + 1] \in Nat
                      /\ n + 1 <= (mult[n + 1] + 1) * ideal
    OBVIOUS
  <2> DEFINE m == mult[n]
  <2>1. m \in Nat /\ n <= (m + 1) * ideal
    BY <1>6
  <2>2. mult[n + 1] = IF n + 1 > ideal /\ n + 1 > m * ideal THEN m + 1 ELSE m
    BY <1>4
  <2> HIDE DEF m
  <2>3. /\ (m + 1) * ideal = m * ideal + ideal
        /\ (m + 2) * ideal = (m + 1) * ideal + ideal
        /\ m * ideal \in Nat /\ (m + 1) * ideal \in Nat
    BY <2>1
  <2>4. CASE n + 1 > ideal /\ n + 1 > m * ideal
    <3>1. mult[n + 1] = m + 1 /\ (m + 1) + 1 = m + 2
      BY <2>1, <2>2, <2>4
    <3> QED  BY <2>1, <2>3, <3>1
  <2>5. CASE ~(n + 1 > ideal /\ n + 1 > m * ideal)
    <3>1. mult[n + 1] = m
      BY <2>2, <2>5
    <3> QED  BY <2>1, <2>3, <2>5, <3>1
  <2> QED  BY <2>4, <2>5
<1>7. count \in Good
  <2> HIDE DEF Good
  <2> QED  BY <1>5, <1>6, NatSetInduction
<1> QED  BY <1>1, <1>7

-----------------------------------------------------------------------------
(* The buckets.                                                            *)

KeysInBucket(I, n, b) == {k \in I : HASH_TO_BKT(k, n) = b}

\* Table t has the items I, each in its bucket, and counts them.
Holds(t, I) ==
  /\ t.num_buckets \in Nat \ {0}
  /\ t \in Table(t.num_buckets)
  /\ t.num_items = Cardinality(I)
  /\ \A b \in 0 .. t.num_buckets - 1 :
       /\ t.buckets[b].items = KeysInBucket(I, t.num_buckets, b)
       /\ t.buckets[b].count = Cardinality(t.buckets[b].items)

Bounded(t) ==
  ~t.noexpand =>
    \A b \in 0 .. t.num_buckets - 1 :
      \/ ~Full(t.buckets[b])
      \/ t.buckets[b].count <= (t.buckets[b].expand_mult + 1) * t.ideal_chain_maxlen

LEMMA FiniteItems ==
  ASSUME NEW I \in SUBSET Keys
  PROVE  /\ IsFiniteSet(I) /\ Cardinality(I) \in Nat
         /\ I # {} => Cardinality(I) > 0
         /\ \A n, b : /\ IsFiniteSet(KeysInBucket(I, n, b))
                      /\ Cardinality(KeysInBucket(I, n, b)) \in Nat
                      /\ KeysInBucket(I, n, b) \in SUBSET Keys
<1>1. \A J \in SUBSET I : IsFiniteSet(J) /\ Cardinality(J) \in Nat
  BY UthashAssumption, FS_Subset, FS_CardinalityType
<1>2. \A n, b : KeysInBucket(I, n, b) \in SUBSET I
  BY DEF KeysInBucket
<1> QED  BY <1>1, <1>2, FS_EmptySet

LEMMA HashType ==
  ASSUME NEW k \in Keys, NEW n \in Nat \ {0}
  PROVE  Hash[k] \in Nat /\ HASH_TO_BKT(k, n) \in 0 .. n - 1
BY UthashAssumption, DivMod DEF HASH_TO_BKT

LEMMA EmptyHolds ==
  ASSUME NEW k \in Keys
  PROVE  Holds(NewTable(k), {}) /\ NewTable(k).tail = k /\ Bounded(NewTable(k))
<1> DEFINE t == NewTable(k)
           n == HASH_INITIAL_NUM_BUCKETS
<1>1. n \in Nat \ {0} /\ HASH_BKT_CAPACITY_THRESH \in Nat \ {0}
  BY UthashAssumption
<1>2. t \in Table(n) /\ t.num_buckets = n /\ t.num_items = 0 /\ t.tail = k
  BY <1>1 DEF NewTable, Table, EmptyBuckets
<1>3. \A b \in 0 .. n - 1 : t.buckets[b] = [items |-> {}, count |-> 0, expand_mult |-> 0]
  BY DEF NewTable, EmptyBuckets
<1>4. \A b : KeysInBucket({}, n, b) = {}
  BY DEF KeysInBucket
<1> HIDE DEF t
<1>5. Holds(t, {})
  <2>1. Cardinality({}) = 0
    BY FS_EmptySet
  <2>2. \A b \in 0 .. n - 1 : /\ t.buckets[b].items = KeysInBucket({}, n, b)
                              /\ t.buckets[b].count = Cardinality(t.buckets[b].items)
    BY <1>3, <1>4, <2>1
  <2> HIDE DEF n
  <2> QED  BY <1>1, <1>2, <2>1, <2>2 DEF Holds
<1>6. Bounded(t)
  BY <1>1, <1>2, <1>3 DEF Bounded, Full
<1> QED  BY <1>2, <1>5, <1>6 DEF t

\* HASH_EXPAND_BUCKETS keeps every item and puts it where it is looked up.
LEMMA ExpandedHolds ==
  ASSUME NEW I \in SUBSET Keys, I # {}, NEW t, Holds(t, I)
  PROVE  /\ Holds(Expanded(t), I) /\ Expanded(t).tail = t.tail
         /\ Bounded(Expanded(t))
<1> DEFINE n == 2 * t.num_buckets
           items == Redistributed(t, n)
           ideal == Ceil(t.num_items, n)
           e == Expanded(t)
<1>1. n \in Nat \ {0}
  BY DEF Holds
<1>2. \A b \in 0 .. n - 1 : items[b] = KeysInBucket(I, n, b)
  <2> TAKE b \in 0 .. n - 1
  <2> DEFINE a == b % t.num_buckets
  <2>1. a \in 0 .. t.num_buckets - 1
    <3>1. b \in Nat /\ t.num_buckets \in Nat \ {0}
      BY DEF Holds
    <3> QED  BY <3>1, DivMod
  <2>2. items[b] = {k \in t.buckets[a].items : HASH_TO_BKT(k, n) = b}
    BY DEF Redistributed
  <2>3. t.buckets[a].items = KeysInBucket(I, t.num_buckets, a)
    BY <2>1 DEF Holds
  <2>4. ASSUME NEW k \in I, HASH_TO_BKT(k, n) = b
        PROVE  HASH_TO_BKT(k, t.num_buckets) = a
    <3>1. Hash[k] \in Nat /\ t.num_buckets \in Nat \ {0}
      BY HashType DEF Holds
    <3> QED  BY <2>4, <3>1, ModTwice DEF HASH_TO_BKT
  <2> QED  BY <2>2, <2>3, <2>4 DEF KeysInBucket
<1>3. \A b \in 0 .. n - 1 :
        /\ items[b] \in SUBSET Keys
        /\ Cardinality(items[b]) \in Nat
  BY <1>2, FiniteItems
<1>4. ideal \in Nat \ {0}
  <2>1. t.num_items \in Nat \ {0}
    BY FiniteItems DEF Holds
  <2>2. n <= t.num_items + n - 1 /\ t.num_items + n - 1 \in Nat
    BY <1>1, <2>1
  <2> HIDE DEF n
  <2>3. \A m \in Nat : n <= m => m \div n \in Nat /\ 1 <= m \div n
    BY <1>1, DivBounds, DivMod
  <2> QED  BY <2>2, <2>3 DEF Ceil
<1>5. \A b \in 0 .. n - 1 :
        /\ ExpandMult(Cardinality(items[b]), ideal) \in Nat
        /\ Cardinality(items[b])
             <= (ExpandMult(Cardinality(items[b]), ideal) + 1) * ideal
  <2> HIDE DEF ideal, items, n
  <2> QED  BY <1>3, <1>4, ExpandMultBounds
<1>6. /\ e.num_buckets = n /\ e.num_items = t.num_items /\ e.tail = t.tail
      /\ e.ideal_chain_maxlen = ideal
      /\ e.buckets = [b \in 0 .. n - 1 |->
           [items |-> items[b], count |-> Cardinality(items[b]),
            expand_mult |-> ExpandMult(Cardinality(items[b]), ideal)]]
  BY DEF Expanded, Holds, Table
<1>7. e \in Table(n)
  <2> DEFINE ineff == IneffExpands(t, items, ideal)
  <2>1. ineff \in Nat
    BY DEF IneffExpands, Holds, Table
  <2> DEFINE inhibited == t.noexpand \/ ineff > 1
  <2>2. inhibited \in BOOLEAN
    OBVIOUS
  <2>3. e = [num_buckets |-> n, num_items |-> t.num_items, tail |-> t.tail,
             ideal_chain_maxlen |-> ideal, ineff_expands |-> ineff,
             noexpand |-> inhibited, buckets |-> e.buckets]
    <3>1. t = [num_buckets |-> t.num_buckets, num_items |-> t.num_items,
               tail |-> t.tail, ideal_chain_maxlen |-> t.ideal_chain_maxlen,
               ineff_expands |-> t.ineff_expands, noexpand |-> t.noexpand,
               buckets |-> t.buckets]
      BY DEF Holds, Table
    <3> DEFINE buckets == [b \in 0 .. n - 1 |->
             [items |-> items[b], count |-> Cardinality(items[b]),
              expand_mult |-> ExpandMult(Cardinality(items[b]), ideal)]]
    <3>2. e = [t EXCEPT !.num_buckets = n, !.buckets = buckets,
                        !.ideal_chain_maxlen = ideal, !.ineff_expands = ineff,
                        !.noexpand = inhibited]
      BY DEF Expanded
    <3> HIDE DEF items, ideal, n, ineff, inhibited, buckets, e
    <3> QED  BY <3>1, <3>2
  <2>4. /\ e.num_items \in Nat /\ e.tail \in Keys \cup {NULL}
        /\ e.buckets \in [0 .. n - 1 -> [items : SUBSET Keys, count : Nat,
                                         expand_mult : Nat]]
    <3>1. t.num_items \in Nat /\ t.tail \in Keys \cup {NULL}
      BY DEF Holds, Table
    <3> HIDE DEF items, ideal, n, e
    <3> QED  BY <1>3, <1>5, <1>6, <3>1
  <2> HIDE DEF items, ideal, n, e, ineff, inhibited
  <2> QED  BY <1>4, <1>6, <2>1, <2>2, <2>3, <2>4 DEF Table
<1> HIDE DEF items, ideal, n, e
<1>8. Holds(e, I)
  <2>1. e.num_items = Cardinality(I)
    BY <1>6 DEF Holds
  <2> QED  BY <1>1, <1>2, <1>6, <1>7, <2>1 DEF Holds
<1>9. Bounded(e)
  BY <1>5, <1>6 DEF Bounded
<1> QED  BY <1>6, <1>8, <1>9 DEF e

\* A bucket changes, and nothing but the number of items with it.
Changed(t, b, S, c, m) == [t EXCEPT !.num_items = m, !.buckets[b].items = S,
                                    !.buckets[b].count = c]

LEMMA BucketChanged ==
  ASSUME NEW n \in Nat \ {0}, NEW t \in Table(n),
         NEW b \in 0 .. n - 1, NEW S \in SUBSET Keys, NEW c \in Nat, NEW m \in Nat
  PROVE  /\ Changed(t, b, S, c, m) \in Table(n)
         /\ Changed(t, b, S, c, m).num_items = m
         /\ Changed(t, b, S, c, m).tail = t.tail
         /\ Changed(t, b, S, c, m).noexpand = t.noexpand
         /\ Changed(t, b, S, c, m).ideal_chain_maxlen = t.ideal_chain_maxlen
         /\ \A a \in 0 .. n - 1 :
              /\ Changed(t, b, S, c, m).buckets[a].items =
                   IF a = b THEN S ELSE t.buckets[a].items
              /\ Changed(t, b, S, c, m).buckets[a].count =
                   IF a = b THEN c ELSE t.buckets[a].count
              /\ Changed(t, b, S, c, m).buckets[a].expand_mult =
                   t.buckets[a].expand_mult
<1> DEFINE Bucket == [items : SUBSET Keys, count : Nat, expand_mult : Nat]
           buckets == [[t.buckets EXCEPT ![b].items = S] EXCEPT ![b].count = c]
           u == Changed(t, b, S, c, m)
<1>1. t.buckets \in [0 .. n - 1 -> Bucket]
  BY DEF Table
<1>2. u = [[t EXCEPT !.num_items = m] EXCEPT !.buckets = buckets]
  BY DEF Changed, Table
<1>3. \A r \in Bucket :
        LET q == [[r EXCEPT !.items = S] EXCEPT !.count = c]
        IN  q \in Bucket /\ q.items = S /\ q.count = c /\ q.expand_mult = r.expand_mult
  OBVIOUS
<1>4. /\ buckets \in [0 .. n - 1 -> Bucket]
      /\ \A a \in 0 .. n - 1 :
           buckets[a] = IF a = b
                        THEN [[t.buckets[b] EXCEPT !.items = S] EXCEPT !.count = c]
                        ELSE t.buckets[a]
  <2> HIDE DEF Bucket
  <2> QED  BY <1>1, <1>3
<1> HIDE DEF buckets, u
<1>5. /\ u \in Table(n) /\ u.num_items = m /\ u.tail = t.tail
      /\ u.noexpand = t.noexpand
      /\ u.ideal_chain_maxlen = t.ideal_chain_maxlen
      /\ u.buckets = buckets
  BY <1>2, <1>4 DEF Table
<1>6. ASSUME NEW a \in 0 .. n - 1
      PROVE  /\ buckets[a].items = IF a = b THEN S ELSE t.buckets[a].items
             /\ buckets[a].count = IF a = b THEN c ELSE t.buckets[a].count
             /\ buckets[a].expand_mult = t.buckets[a].expand_mult
  <2>1. t.buckets[b] \in Bucket
    BY <1>1
  <2> DEFINE q == [[t.buckets[b] EXCEPT !.items = S] EXCEPT !.count = c]
  <2>2. q.items = S /\ q.count = c /\ q.expand_mult = t.buckets[b].expand_mult
    <3> HIDE DEF Bucket
    <3> QED  BY <1>3, <2>1
  <2>3. buckets[a] = IF a = b THEN q ELSE t.buckets[a]
    BY <1>4
  <2> HIDE DEF q
  <2> QED  BY <2>2, <2>3
<1> QED  BY <1>5, <1>6 DEF u

LEMMA AddedHolds ==
  ASSUME NEW I \in SUBSET Keys, NEW k \in Keys \ I, NEW t,
         Holds(t, I), Bounded(t)
  PROVE  /\ Holds(AddedTo(t, k), I \cup {k}) /\ AddedTo(t, k).tail = t.tail
         /\ Bounded(AddedTo(t, k))
<1> DEFINE n == t.num_buckets
           b == HASH_TO_BKT(k, n)
           m == t.num_items + 1
           S == t.buckets[b].items \cup {k}
           c == t.buckets[b].count + 1
           added == Changed(t, b, S, c, m)
<1>1. n \in Nat \ {0} /\ t \in Table(n) /\ b \in 0 .. n - 1
  BY HashType DEF Holds
<1>2. t.buckets[b] \in [items : SUBSET Keys, count : Nat, expand_mult : Nat]
  BY <1>1 DEF Table
<1>3. S \in SUBSET Keys /\ c \in Nat /\ m \in Nat
  BY <1>1, <1>2 DEF Table
<1>4. AddedTo(t, k) =
        IF Full(added.buckets[b]) /\ ~t.noexpand THEN Expanded(added) ELSE added
  <2>1. added = [t EXCEPT !.num_items = @ + 1, !.buckets[b].items = @ \cup {k},
                          !.buckets[b].count = @ + 1]
    BY <1>1 DEF Changed, Table
  <2>2. added.noexpand = t.noexpand
    BY <1>1 DEF Changed, Table
  <2> HIDE DEF added
  <2> QED  BY <2>1, <2>2 DEF AddedTo
<1>5. /\ added \in Table(n) /\ added.num_items = m /\ added.tail = t.tail
      /\ added.noexpand = t.noexpand
      /\ added.ideal_chain_maxlen = t.ideal_chain_maxlen
      /\ \A a \in 0 .. n - 1 :
           /\ added.buckets[a].items = IF a = b THEN S ELSE t.buckets[a].items
           /\ added.buckets[a].count = IF a = b THEN c ELSE t.buckets[a].count
           /\ added.buckets[a].expand_mult = t.buckets[a].expand_mult
  <2>1. added = Changed(t, b, S, c, m)
    OBVIOUS
  <2> HIDE DEF added, S, c, m, b, n
  <2> QED  BY <1>1, <1>3, <2>1, BucketChanged
<1>6. added.num_buckets = n
  BY <1>5 DEF Table
<1>7. k \notin t.buckets[b].items /\ t.buckets[b].items = KeysInBucket(I, n, b)
      /\ t.buckets[b].count = Cardinality(t.buckets[b].items)
  BY <1>1 DEF Holds, KeysInBucket
<1>8. c = Cardinality(S) /\ m = Cardinality(I \cup {k})
  BY <1>7, FiniteItems, FS_AddElement DEF Holds
<1>9. Holds(added, I \cup {k})
  <2>1. ASSUME NEW a \in 0 .. n - 1
        PROVE  /\ added.buckets[a].items = KeysInBucket(I \cup {k}, n, a)
               /\ added.buckets[a].count = Cardinality(added.buckets[a].items)
    <3>1. /\ t.buckets[a].items = KeysInBucket(I, n, a)
          /\ t.buckets[a].count = Cardinality(t.buckets[a].items)
      BY <1>1 DEF Holds
    <3> HIDE DEF added, S, c, m, n
    <3>2. KeysInBucket(I \cup {k}, n, a) =
            IF a = b THEN KeysInBucket(I, n, a) \cup {k} ELSE KeysInBucket(I, n, a)
      BY DEF KeysInBucket, b
    <3> HIDE DEF b
    <3>3. CASE a = b
      BY <1>1, <1>5, <1>7, <1>8, <3>2, <3>3 DEF S
    <3>4. CASE a # b
      BY <1>5, <3>1, <3>2, <3>4
    <3> QED  BY <3>3, <3>4
  <2> HIDE DEF added, m, n
  <2> QED  BY <1>1, <1>5, <1>6, <1>8, <2>1 DEF Holds
<1> HIDE DEF added, S, c, m, b, n
<1>10. CASE Full(added.buckets[b]) /\ ~t.noexpand
  BY <1>4, <1>5, <1>9, <1>10, ExpandedHolds
<1>11. CASE ~(Full(added.buckets[b]) /\ ~t.noexpand)
  <2>1. ASSUME NEW a \in 0 .. n - 1, ~t.noexpand
        PROVE  \/ ~Full(added.buckets[a])
               \/ added.buckets[a].count
                    <= (added.buckets[a].expand_mult + 1) * added.ideal_chain_maxlen
    <3>1. CASE a = b
      BY <1>11, <2>1, <3>1
    <3>2. CASE a # b
      <4>1. \/ ~Full(t.buckets[a])
            \/ t.buckets[a].count
                 <= (t.buckets[a].expand_mult + 1) * t.ideal_chain_maxlen
        BY <2>1 DEF Bounded, n
      <4> QED  BY <1>5, <3>2, <4>1 DEF Full
    <3> QED  BY <3>1, <3>2
  <2>2. Bounded(added)
    BY <1>5, <1>6, <2>1 DEF Bounded
  <2> QED  BY <1>4, <1>5, <1>9, <1>11, <2>2
<1> QED  BY <1>10, <1>11

LEMMA DeletedHolds ==
  ASSUME NEW I \in SUBSET Keys, NEW k \in I, NEW t,
         Holds(t, I), Bounded(t)
  PROVE  /\ Holds(DeletedFrom(t, k), I \ {k}) /\ DeletedFrom(t, k).tail = t.tail
         /\ Bounded(DeletedFrom(t, k))
<1> DEFINE n == t.num_buckets
           b == HASH_TO_BKT(k, n)
           m == t.num_items - 1
           S == t.buckets[b].items \ {k}
           c == t.buckets[b].count - 1
           u == DeletedFrom(t, k)
<1>1. n \in Nat \ {0} /\ t \in Table(n) /\ b \in 0 .. n - 1 /\ k \in Keys
  BY HashType DEF Holds
<1>2. k \in t.buckets[b].items /\ t.buckets[b].items = KeysInBucket(I, n, b)
      /\ t.buckets[b].count = Cardinality(t.buckets[b].items)
  BY <1>1 DEF Holds, KeysInBucket
<1>3. c = Cardinality(S) /\ m = Cardinality(I \ {k})
  BY <1>1, <1>2, FiniteItems, FS_RemoveElement DEF Holds
<1>4. S \in SUBSET Keys /\ c \in Nat /\ m \in Nat
  <2>1. S \in SUBSET Keys /\ I \ {k} \in SUBSET Keys
    BY <1>2 DEF KeysInBucket
  <2>2. Cardinality(S) \in Nat /\ Cardinality(I \ {k}) \in Nat
    <3> HIDE DEF S
    <3> QED  BY <2>1, FiniteItems
  <2> HIDE DEF S, c, m
  <2> QED  BY <1>3, <2>1, <2>2
<1>5. /\ u \in Table(n) /\ u.num_items = m /\ u.tail = t.tail
      /\ u.noexpand = t.noexpand
      /\ u.ideal_chain_maxlen = t.ideal_chain_maxlen
      /\ \A a \in 0 .. n - 1 :
           /\ u.buckets[a].items = IF a = b THEN S ELSE t.buckets[a].items
           /\ u.buckets[a].count = IF a = b THEN c ELSE t.buckets[a].count
           /\ u.buckets[a].expand_mult = t.buckets[a].expand_mult
  <2>1. u = Changed(t, b, S, c, m)
    BY <1>1 DEF DeletedFrom, Changed, Table
  <2> HIDE DEF u, S, c, m, b, n
  <2> QED  BY <1>1, <1>4, <2>1, BucketChanged
<1>6. u.num_buckets = n
  BY <1>5 DEF Table
<1>7. Holds(u, I \ {k})
  <2>1. ASSUME NEW a \in 0 .. n - 1
        PROVE  /\ u.buckets[a].items = KeysInBucket(I \ {k}, n, a)
               /\ u.buckets[a].count = Cardinality(u.buckets[a].items)
    <3>1. /\ t.buckets[a].items = KeysInBucket(I, n, a)
          /\ t.buckets[a].count = Cardinality(t.buckets[a].items)
      BY <1>1 DEF Holds
    <3> HIDE DEF u, S, c, m, n
    <3>2. KeysInBucket(I \ {k}, n, a) =
            IF a = b THEN KeysInBucket(I, n, a) \ {k} ELSE KeysInBucket(I, n, a)
      BY DEF KeysInBucket, b
    <3> HIDE DEF b
    <3>3. CASE a = b
      BY <1>1, <1>2, <1>3, <1>5, <3>2, <3>3 DEF S
    <3>4. CASE a # b
      BY <1>5, <3>1, <3>2, <3>4
    <3> QED  BY <3>3, <3>4
  <2> HIDE DEF u, m, n
  <2> QED  BY <1>1, <1>3, <1>5, <1>6, <2>1 DEF Holds
<1>8. Bounded(u)
  <2>1. ASSUME NEW a \in 0 .. n - 1, ~t.noexpand
        PROVE  \/ ~Full(u.buckets[a])
               \/ u.buckets[a].count
                    <= (u.buckets[a].expand_mult + 1) * u.ideal_chain_maxlen
    <3> DEFINE bkt == t.buckets[a]
    <3>1. bkt.count \in Nat /\ bkt.expand_mult \in Nat /\ HASH_BKT_CAPACITY_THRESH \in Nat
          /\ t.ideal_chain_maxlen \in Nat
      BY <1>1, UthashAssumption DEF Table
    <3>2. \/ ~(bkt.count >= (bkt.expand_mult + 1) * HASH_BKT_CAPACITY_THRESH)
          \/ bkt.count <= (bkt.expand_mult + 1) * t.ideal_chain_maxlen
      BY <2>1 DEF Bounded, Full
    <3>3. u.buckets[a].count <= bkt.count /\ u.buckets[a].expand_mult = bkt.expand_mult
          /\ u.buckets[a].count \in Nat
      <4> HIDE DEF u, S, m
      <4> QED  BY <1>1, <1>4, <1>5, <3>1
    <3>4. /\ (bkt.expand_mult + 1) * HASH_BKT_CAPACITY_THRESH \in Nat
          /\ (bkt.expand_mult + 1) * t.ideal_chain_maxlen \in Nat
      BY <3>1
    <3> HIDE DEF u, bkt
    <3> QED  BY <1>5, <3>1, <3>2, <3>3, <3>4 DEF Full
  <2> HIDE DEF u
  <2> QED  BY <1>5, <1>6, <2>1 DEF Bounded
<1> QED  BY <1>5, <1>7, <1>8

-----------------------------------------------------------------------------
(* The list.                                                               *)

ClosedIn(h, S) == \A x \in S : h[x].next \in S \cup {NULL}

\* The items I are linked by h in both directions, from p to q, and every one
\* of them is reached from p.
InList(h, I, p, q) ==
  /\ NULL \notin I /\ p \in I /\ q \in I
  /\ h \in [I -> [prev : I \cup {NULL}, next : I \cup {NULL}]]
  /\ h[p].prev = NULL /\ h[q].next = NULL
  /\ \A x \in I : /\ h[x].next # NULL => h[h[x].next].prev = x
                  /\ h[x].prev # NULL => h[h[x].prev].next = x
                  /\ h[x].prev = NULL => x = p
                  /\ h[x].next = NULL => x = q
  /\ \A S \in SUBSET I : p \in S /\ ClosedIn(h, S) => S = I

LEMMA SingleInList ==
  ASSUME NEW k, k # NULL
  PROVE  InList([x \in {k} |-> [prev |-> NULL, next |-> NULL]], {k}, k, k)
BY DEF InList, ClosedIn

\* HASH_APPEND_LIST.
LEMMA AppendInList ==
  ASSUME NEW h, NEW I, NEW p, NEW q, InList(h, I, p, q),
         NEW k, k \notin I, k # NULL,
         NEW g \in [I \cup {k} -> [prev : I \cup {k, NULL}, next : I \cup {k, NULL}]],
         g[k].prev = q, g[k].next = NULL,
         \A x \in I : /\ g[x].prev = h[x].prev
                      /\ g[x].next = IF x = q THEN k ELSE h[x].next
  PROVE  InList(g, I \cup {k}, p, k)
<1>1. ASSUME NEW S \in SUBSET (I \cup {k}), p \in S, ClosedIn(g, S)
      PROVE  S = I \cup {k}
  <2> DEFINE T == S \cap I
  <2>1. ClosedIn(h, T)
    <3> SUFFICES ASSUME NEW x \in T
                 PROVE  h[x].next \in T \cup {NULL}
      BY DEF ClosedIn
    <3>1. CASE x = q
      BY <3>1 DEF InList
    <3>2. CASE x # q
      BY <1>1, <3>2 DEF InList, ClosedIn
    <3> QED  BY <3>1, <3>2
  <2>2. T = I
    BY <1>1, <2>1 DEF InList
  <2>3. q \in S
    BY <2>2 DEF InList
  <2>4. k \in S
    BY <1>1, <2>3 DEF InList, ClosedIn
  <2> QED  BY <2>2, <2>4
<1>2. \A x \in I : h[x].next \in I \cup {NULL} /\ h[x].prev \in I \cup {NULL}
  BY DEF InList
<1>3. ASSUME NEW x \in I \cup {k}
      PROVE  /\ g[x].next # NULL => g[g[x].next].prev = x
             /\ g[x].prev # NULL => g[g[x].prev].next = x
             /\ g[x].prev = NULL => x = p
             /\ g[x].next = NULL => x = k
  <2>1. CASE x = k
    BY <2>1 DEF InList
  <2>2. CASE x = q
    BY <1>2, <2>2 DEF InList
  <2>3. CASE x \in I \ {q}
    BY <1>2, <2>3 DEF InList
  <2> QED  BY <2>1, <2>2, <2>3
<1>4. g[p].prev = NULL
  BY DEF InList
<1>5. g \in [I \cup {k} -> [prev : (I \cup {k}) \cup {NULL}, next : (I \cup {k}) \cup {NULL}]]
  <2>1. I \cup {k, NULL} = (I \cup {k}) \cup {NULL}
    OBVIOUS
  <2> QED  BY <2>1
<1>6. NULL \notin I \cup {k} /\ p \in I \cup {k}
  BY DEF InList
<1> QED  BY <1>1, <1>3, <1>4, <1>5, <1>6 DEF InList

\* Only an item alone has neither a predecessor nor a successor.
LEMMA AloneInList ==
  ASSUME NEW h, NEW I, NEW p, NEW q, InList(h, I, p, q), NEW k \in I,
         h[k].prev = NULL, h[k].next = NULL
  PROVE  I = {k}
<1>1. k = p /\ ClosedIn(h, {k}) /\ {k} \in SUBSET I
  BY DEF InList, ClosedIn
<1> QED  BY <1>1 DEF InList

WalkIn(h, I, k) ==
  {x \in I : k # NULL /\ \A S \in SUBSET I : k \in S /\ ClosedIn(h, S) => x \in S}

\* From the head on, all items are met; from any other one, the item itself
\* and those from the next one on, and itself not again.
LEMMA WalkInList ==
  ASSUME NEW h, NEW I, NEW p, NEW q, InList(h, I, p, q)
  PROVE  /\ WalkIn(h, I, p) = I
         /\ WalkIn(h, I, NULL) = {}
         /\ \A k \in I : /\ k \in WalkIn(h, I, k)
                         /\ WalkIn(h, I, k) \ {k} = WalkIn(h, I, h[k].next)
<1>1. WalkIn(h, I, p) = I /\ WalkIn(h, I, NULL) = {}
  BY DEF WalkIn, InList
<1>2. \A k \in I : k \in WalkIn(h, I, k)
  BY DEF WalkIn, InList
<1> SUFFICES ASSUME NEW k \in I
             PROVE  WalkIn(h, I, k) \ {k} = WalkIn(h, I, h[k].next)
  BY <1>1, <1>2
<1> DEFINE y == h[k].next
           C == WalkIn(h, I, y)
<1>3. y \in I \cup {NULL} /\ NULL \notin I
  BY DEF InList
<1>4. C \in SUBSET I /\ ClosedIn(h, C)
  <2> SUFFICES ASSUME NEW x \in C, h[x].next # NULL
               PROVE  h[x].next \in C
    BY DEF ClosedIn, WalkIn
  <2>1. h[x].next \in I
    BY DEF InList, WalkIn
  <2> QED  BY <2>1 DEF WalkIn, ClosedIn
<1>5. y # NULL => y \in C
  BY <1>3 DEF WalkIn
<1>6. C \subseteq WalkIn(h, I, k)
  <2> SUFFICES ASSUME NEW x \in C, NEW S \in SUBSET I, k \in S, ClosedIn(h, S)
               PROVE  x \in S
    BY DEF WalkIn, InList
  <2>1. y # NULL
    BY DEF WalkIn
  <2>2. y \in S
    BY <2>1 DEF ClosedIn
  <2> QED  BY <2>1, <2>2 DEF WalkIn
<1>7. WalkIn(h, I, k) \subseteq C \cup {k}
  <2> DEFINE S == C \cup {k}
  <2>1. S \in SUBSET I /\ k \in S
    BY <1>4
  <2>2. ClosedIn(h, S)
    BY <1>3, <1>4, <1>5 DEF ClosedIn
  <2> HIDE DEF S
  <2> QED  BY <2>1, <2>2 DEF WalkIn, S
\* If k were met again, the items from y on would be a circle, which could not
\* be reached from p.
<1>8. k \notin C
  <2> SUFFICES ASSUME k \in C
               PROVE  FALSE
    OBVIOUS
  <2>0. y # NULL
    BY DEF WalkIn
  <2>1. ASSUME NEW x \in C
        PROVE  h[x].prev \in C
    <3> DEFINE S == {z \in C : h[z].prev \in C}
    <3>1. y \in S
      BY <1>3, <1>5, <2>0 DEF InList
    <3>2. ClosedIn(h, S)
      <4> SUFFICES ASSUME NEW z \in S, h[z].next # NULL
                   PROVE  h[z].next \in S
        BY DEF ClosedIn
      <4>1. h[z].next \in C
        BY <1>4 DEF ClosedIn
      <4>2. h[h[z].next].prev = z
        BY <1>4 DEF InList
      <4> QED  BY <4>1, <4>2
    <3>3. S \in SUBSET I
      BY <1>4
    <3> HIDE DEF S
    <3>4. x \in S
      BY <2>0, <3>1, <3>2, <3>3 DEF WalkIn
    <3> QED  BY <3>4 DEF S
  <2>2. p \notin C
    BY <1>3, <1>4, <2>1 DEF InList
  <2>3. ClosedIn(h, I \ C)
    <3> SUFFICES ASSUME NEW x \in I \ C
                 PROVE  h[x].next \in (I \ C) \cup {NULL}
      BY DEF ClosedIn
    <3> QED  BY <2>1 DEF InList
  <2>4. I \ C = I
    BY <2>2, <2>3 DEF InList
  <2> QED  BY <1>4, <2>4
<1> QED  BY <1>6, <1>7, <1>8

\* HASH_DELETE.
LEMMA RemoveInList ==
  ASSUME NEW h, NEW I, NEW p, NEW q, InList(h, I, p, q), NEW k \in I,
         ~(h[k].prev = NULL /\ h[k].next = NULL),
         NEW g \in [I \ {k} -> [prev : I \cup {NULL}, next : I \cup {NULL}]],
         \A x \in I \ {k} :
           /\ g[x].next = IF x = h[k].prev THEN h[k].next ELSE h[x].next
           /\ g[x].prev = IF x = h[k].next THEN h[k].prev ELSE h[x].prev
  PROVE  InList(g, I \ {k}, IF h[k].prev = NULL THEN h[k].next ELSE p,
                            IF k = q THEN h[k].prev ELSE q)
<1> DEFINE J == I \ {k}
           a == h[k].prev
           b == h[k].next
           p2 == IF a = NULL THEN b ELSE p
           q2 == IF k = q THEN a ELSE q
<1>1. \A x \in I : h[x].next \in I \cup {NULL} /\ h[x].prev \in I \cup {NULL}
  BY DEF InList
<1>2. a \in J \cup {NULL} /\ b \in J \cup {NULL} /\ ~(a = NULL /\ b = NULL)
  <2>1. b # k
    BY WalkInList
  <2>2. a # k
    BY <2>1 DEF InList
  <2> QED  BY <1>1, <2>1, <2>2
<1>3. /\ a = NULL <=> k = p
      /\ b = NULL <=> k = q
      /\ a # NULL => h[a].next = k
      /\ b # NULL => h[b].prev = k
  BY DEF InList
<1>4. p2 \in J /\ q2 \in J /\ NULL \notin J
  BY <1>2, <1>3 DEF InList
<1>5. \A x \in J : /\ h[x].next = k => x = a
                   /\ h[x].prev = k => x = b
  BY <1>1 DEF InList
<1>6. \A x \in J : g[x].next \in J \cup {NULL} /\ g[x].prev \in J \cup {NULL}
  BY <1>1, <1>2, <1>5
<1>7. g \in [J -> [prev : J \cup {NULL}, next : J \cup {NULL}]]
  BY <1>6
<1>8. g[p2].prev = NULL /\ g[q2].next = NULL
  <2>1. CASE a = NULL
    BY <1>2, <1>3, <1>4, <2>1 DEF InList
  <2>2. CASE a # NULL
    BY <1>2, <1>3, <1>4, <2>2 DEF InList
  <2> QED  BY <2>1, <2>2
<1>9. ASSUME NEW x \in J
      PROVE  /\ g[x].next # NULL => g[g[x].next].prev = x
             /\ g[x].prev # NULL => g[g[x].prev].next = x
             /\ g[x].prev = NULL => x = p2
             /\ g[x].next = NULL => x = q2
  <2>1. g[x].next # NULL => g[g[x].next].prev = x
    <3>1. CASE x = a
      BY <1>2, <1>3, <1>6, <3>1
    <3>2. CASE x # a
      <4>1. g[x].next = h[x].next
        BY <3>2
      <4>2. h[x].next # NULL => h[h[x].next].prev = x /\ h[x].next # b
        BY <1>3, <3>2 DEF InList
      <4> QED  BY <1>6, <4>1, <4>2
    <3> QED  BY <3>1, <3>2
  <2>2. g[x].prev # NULL => g[g[x].prev].next = x
    <3>1. CASE x = b
      BY <1>2, <1>3, <1>6, <3>1
    <3>2. CASE x # b
      <4>1. g[x].prev = h[x].prev
        BY <3>2
      <4>2. h[x].prev # NULL => h[h[x].prev].next = x /\ h[x].prev # a
        BY <1>3, <3>2 DEF InList
      <4> QED  BY <1>6, <4>1, <4>2
    <3> QED  BY <3>1, <3>2
  <2>3. g[x].prev = NULL => x = p2
    BY <1>3 DEF InList
  <2>4. g[x].next = NULL => x = q2
    BY <1>3 DEF InList
  <2> QED  BY <2>1, <2>2, <2>3, <2>4
<1>10. ASSUME NEW S \in SUBSET J, p2 \in S, ClosedIn(g, S)
       PROVE  S = J
  <2>1. CASE a = NULL \/ a \in S
    <3> DEFINE T == S \cup {k}
    <3>1. p \in T
      BY <1>3, <1>10
    <3>2. b \in S \cup {NULL}
      BY <1>10, <2>1 DEF ClosedIn
    <3>3. ClosedIn(h, T)
      <4> SUFFICES ASSUME NEW x \in T
                   PROVE  h[x].next \in T \cup {NULL}
        BY DEF ClosedIn
      <4>1. CASE x = k
        BY <3>2, <4>1
      <4>2. CASE x = a
        BY <1>3, <1>10, <4>2 DEF InList
      <4>3. CASE x \in S /\ x # a
        BY <1>10, <4>3 DEF ClosedIn
      <4> QED  BY <4>1, <4>2, <4>3
    <3> QED  BY <3>1, <3>3 DEF InList
  <2>2. CASE a # NULL /\ a \notin S
    <3>1. ClosedIn(h, S)
      BY <1>10, <2>2 DEF ClosedIn
    <3>2. S = I
      BY <1>10, <2>2, <3>1 DEF InList
    <3> QED  BY <1>2, <2>2, <3>2
  <2> QED  BY <2>1, <2>2
<1> HIDE DEF a, b, p2, q2, J
<1>11. InList(g, J, p2, q2)
  BY <1>4, <1>7, <1>8, <1>9, <1>10 DEF InList
<1> QED  BY <1>11 DEF a, b, p2, q2, J

-----------------------------------------------------------------------------
(* The inductive invariant.                                                *)

Caller ==
  /\ made \in BOOLEAN
  /\ pc \in {"idle", "find", "insert", "erase"}
  /\ key \in Keys \cup {NULL}
  /\ itr \in Items \cup {NULL}
  /\ pc # "idle" => made /\ key \in Keys /\ itr = NULL
  /\ ~made => head = NULL /\ itr = NULL

Contents ==
  /\ Items \subseteq Keys
  /\ head = NULL => hh = EmptyList /\ tbl = FreedTable
  /\ head # NULL => /\ Holds(tbl, Items) /\ Bounded(tbl)
                    /\ InList(hh, Items, head, tbl.tail)

IInv == Caller /\ Contents

LEMMA NoItems ==
  DOMAIN EmptyList = {}
BY DEF EmptyList

LEMMA HeadInItems ==
  ASSUME Contents
  PROVE  /\ head = NULL <=> Items = {}
         /\ head # NULL => head \in Items /\ tbl.tail \in Items
         /\ NULL \notin Keys
BY NoItems, UthashAssumption DEF Contents, Items, InList

\* A lookup finds exactly the items.
LEMMA FoundItem ==
  ASSUME Contents, NEW k \in Keys
  PROVE  /\ Found(k) \in {k, NULL}
         /\ Found(k) # NULL <=> k \in Items
<1>1. CASE head = NULL
  BY <1>1, HeadInItems DEF Found
<1>2. CASE head # NULL
  <2> DEFINE b == HASH_TO_BKT(k, tbl.num_buckets)
  <2>1. b \in 0 .. tbl.num_buckets - 1
    BY <1>2, HashType DEF Contents, Holds
  <2>2. tbl.buckets[b].items = KeysInBucket(Items, tbl.num_buckets, b)
    BY <1>2, <2>1 DEF Contents, Holds
  <2> QED  BY <1>2, <2>2, HeadInItems DEF Found, KeysInBucket
<1> QED  BY <1>1, <1>2

LEMMA InitInv == Init => IInv
BY NoItems DEF Init, IInv, Caller, Contents, Items, EmptyList

LEMMA InsertFirstInv ==
  ASSUME IInv, InsertFirst
  PROVE  Contents'
<1>1. key \in Keys /\ key # NULL
  BY UthashAssumption DEF IInv, Caller, InsertFirst
<1>2. Items' = {key} /\ head' = key /\ tbl' = AddedTo(NewTable(key), key)
  BY DEF InsertFirst, Items
<1>3. /\ Holds(AddedTo(NewTable(key), key), {} \cup {key})
      /\ AddedTo(NewTable(key), key).tail = key
      /\ Bounded(AddedTo(NewTable(key), key))
  BY <1>1, EmptyHolds, AddedHolds
<1>4. InList(hh', {key}, key, key)
  BY <1>1, SingleInList DEF InsertFirst
<1> QED  BY <1>1, <1>2, <1>3, <1>4 DEF Contents

\* HASH_MAKE_TABLE and HASH_APPEND_LIST set the tail, which nothing else reads.
LEMMA TailSet ==
  ASSUME NEW t, NEW I, Holds(t, I), Bounded(t), NEW k \in Keys \cup {NULL},
         NEW u, u = [t EXCEPT !.tail = k]
  PROVE  Holds(u, I) /\ Bounded(u) /\ u.tail = k
<1>1. /\ u \in Table(t.num_buckets) /\ u.tail = k
      /\ u.num_buckets = t.num_buckets /\ u.num_items = t.num_items
      /\ u.noexpand = t.noexpand /\ u.ideal_chain_maxlen = t.ideal_chain_maxlen
      /\ u.buckets = t.buckets
  BY DEF Holds, Table
<1> QED  BY <1>1 DEF Holds, Bounded

LEMMA InsertAnotherInv ==
  ASSUME IInv, InsertAnother
  PROVE  Contents'
<1>1. /\ key \in Keys \ Items /\ key # NULL /\ head # NULL /\ head' = head
      /\ hh' = Linked(key) /\ tbl' = AddedTo([tbl EXCEPT !.tail = key], key)
  BY UthashAssumption, FoundItem DEF IInv, Caller, InsertAnother
<1>2. Items \in SUBSET Keys /\ Holds(tbl, Items) /\ Bounded(tbl)
      /\ InList(hh, Items, head, tbl.tail)
  BY <1>1 DEF IInv, Contents
<1>3. Items' = Items \cup {key}
  BY <1>1 DEF Items, Linked
<1>4. Holds(tbl', Items \cup {key}) /\ Bounded(tbl') /\ tbl'.tail = key
  <2> DEFINE t == [tbl EXCEPT !.tail = key]
  <2>1. Holds(t, Items) /\ Bounded(t) /\ t.tail = key
    BY <1>1, <1>2, TailSet
  <2> HIDE DEF t
  <2> QED  BY <1>1, <1>2, <2>1, AddedHolds DEF t
<1>5. InList(hh', Items \cup {key}, head, key)
  <2> DEFINE g == Linked(key)
             q == tbl.tail
  <2>1. q \in Items /\ hh \in [Items -> [prev : Items \cup {NULL},
                                         next : Items \cup {NULL}]]
    BY <1>2 DEF InList
  <2>2. g \in [Items \cup {key} -> [prev : Items \cup {key, NULL},
                                    next : Items \cup {key, NULL}]]
    BY <2>1 DEF Linked, Items
  <2>3. g[key].prev = q /\ g[key].next = NULL
    BY DEF Linked
  <2>4. \A x \in Items : /\ g[x].prev = hh[x].prev
                         /\ g[x].next = IF x = q THEN key ELSE hh[x].next
    BY <1>1, <2>1 DEF Linked, Items
  <2> HIDE DEF g, q
  <2>5. InList(g, Items \cup {key}, head, key)
    BY <1>1, <1>2, <2>2, <2>3, <2>4, AppendInList DEF q
  <2> QED  BY <1>1, <2>5 DEF g
<1> QED  BY <1>1, <1>2, <1>3, <1>4, <1>5 DEF Contents

LEMMA EraseOtherInv ==
  ASSUME IInv, EraseOther
  PROVE  Contents'
<1> DEFINE p2 == IF hh[key].prev = NULL THEN hh[key].next ELSE head
           q2 == NewTail(key)
           t == [tbl EXCEPT !.tail = q2]
<1>1. /\ key \in Items /\ head # NULL /\ head' = p2 /\ hh' = Unlinked(key)
      /\ tbl' = DeletedFrom(t, key)
      /\ ~(hh[key].prev = NULL /\ hh[key].next = NULL)
  BY FoundItem, HeadInItems DEF IInv, Caller, EraseOther
<1>2. Items \in SUBSET Keys /\ Holds(tbl, Items) /\ Bounded(tbl)
      /\ InList(hh, Items, head, tbl.tail)
  BY <1>1 DEF IInv, Contents
<1>3. Items' = Items \ {key}
  BY <1>1 DEF Items, Unlinked
<1>4. InList(hh', Items \ {key}, p2, q2)
  <2> DEFINE g == Unlinked(key)
  <2>1. hh \in [Items -> [prev : Items \cup {NULL}, next : Items \cup {NULL}]]
    BY <1>2 DEF InList
  <2>2. NULL \notin Items
    BY <1>2 DEF InList
  <2>3. hh[key].prev # NULL => hh[hh[key].prev].next = key /\ hh[key].prev \in Items
    BY <1>1, <1>2 DEF InList
  <2>4. hh[key].next # NULL => hh[hh[key].next].prev = key /\ hh[key].next \in Items
    BY <1>1, <1>2 DEF InList
  <2>5. g \in [Items \ {key} -> [prev : Items \cup {NULL}, next : Items \cup {NULL}]]
    BY <1>1, <2>1 DEF Unlinked, Items
  <2>6. \A x \in Items \ {key} :
          /\ g[x].next = IF x = hh[key].prev THEN hh[key].next ELSE hh[x].next
          /\ g[x].prev = IF x = hh[key].next THEN hh[key].prev ELSE hh[x].prev
    <3>1. hh[key].prev # NULL => hh[key].prev # hh[key].next
      <4> SUFFICES ASSUME hh[key].next \in Items, hh[hh[key].next].next = key
                   PROVE  FALSE
        BY <2>3
      <4> DEFINE y == hh[key].next
                 W(x) == WalkIn(hh, Items, x)
      <4>1. W(key) \ {key} = W(y) /\ W(y) \ {y} = W(key) /\ key \in W(key)
        BY <1>1, <1>2, WalkInList
      <4> QED  BY <4>1
    <3> QED  BY <1>1, <2>1, <2>2, <3>1 DEF Unlinked, Items
  <2> HIDE DEF g
  <2>7. InList(g, Items \ {key}, p2, IF key = tbl.tail THEN hh[key].prev ELSE tbl.tail)
    BY <1>1, <1>2, <2>5, <2>6, RemoveInList
  <2> QED  BY <1>1, <2>7 DEF g, NewTail
<1>5. q2 \in Keys /\ p2 \in Items \ {key} /\ p2 # NULL
  BY <1>2, <1>4 DEF InList
<1>6. Holds(t, Items) /\ Bounded(t) /\ t.tail = q2
  <2> HIDE DEF q2
  <2> QED  BY <1>2, <1>5, TailSet
<1> HIDE DEF p2, q2, t
<1>7. Holds(tbl', Items \ {key}) /\ Bounded(tbl') /\ tbl'.tail = q2
  BY <1>1, <1>2, <1>6, DeletedHolds
<1> QED  BY <1>1, <1>2, <1>3, <1>4, <1>5, <1>7 DEF Contents

LEMMA NextInv ==
  ASSUME IInv, [Next]_vars
  PROVE  IInv'
<1> USE DEF IInv
<1>0. NULL \notin Keys
  BY UthashAssumption
<1>1. CASE create_table
  BY <1>1 DEF create_table, Caller, Contents, Items
<1>2. CASE destroy_table
  BY <1>2, NoItems DEF destroy_table, Idle, Caller, Contents, Items
<1>3. ASSUME NEW op \in {"find", "insert", "erase"}, NEW k \in Keys, call(op, k)
      PROVE  IInv'
  BY <1>3 DEF call, Idle, Caller, Contents, Items
<1>4. CASE find
  <2>1. itr' \in Items \cup {NULL}
    BY <1>4, FoundItem DEF find, Caller
  <2> QED  BY <1>4, <2>1 DEF find, Return, Caller, Contents, Items
<1>5. CASE InsertPresent
  BY <1>5 DEF InsertPresent, Return, Caller, Contents, Items
<1>6. CASE InsertFirst
  <2>1. Contents'
    BY <1>6, InsertFirstInv
  <2>2. Caller'
    BY <1>6 DEF InsertFirst, Return, Caller
  <2> QED  BY <2>1, <2>2
<1>7. CASE InsertAnother
  <2>1. Contents'
    BY <1>7, InsertAnotherInv
  <2>2. Caller'
    BY <1>7 DEF InsertAnother, Return, Caller
  <2> QED  BY <2>1, <2>2
<1>8. CASE EraseAbsent
  BY <1>8 DEF EraseAbsent, Return, Caller, Contents, Items
<1>9. CASE EraseLast
  BY <1>9, NoItems DEF EraseLast, Return, Caller, Contents, Items
<1>10. CASE EraseOther
  <2>1. Contents'
    BY <1>10, EraseOtherInv
  <2>2. Caller'
    BY <1>10 DEF EraseOther, Return, Caller
  <2> QED  BY <2>1, <2>2
<1>11. CASE begin_itr
  <2>1. itr' \in Items \cup {NULL}
    BY <1>11, HeadInItems DEF begin_itr
  <2> QED  BY <1>11, <2>1 DEF begin_itr, Idle, Caller, Contents, Items
<1>12. CASE increment_itr
  <2>1. itr' \in Items \cup {NULL}
    BY <1>12, HeadInItems DEF increment_itr, Caller, Contents, InList
  <2> QED  BY <1>12, <2>1 DEF increment_itr, Idle, Caller, Contents, Items
<1>13. CASE UNCHANGED vars
  BY <1>13 DEF vars, Caller, Contents, Items
<1> QED  BY <1>1, <1>2, <1>3, <1>4, <1>5, <1>6, <1>7, <1>8, <1>9, <1>10,
            <1>11, <1>12, <1>13 DEF Next, insert, erase

LEMMA Invariance == Spec => []IInv
<1>1. Init => IInv
  BY InitInv
<1>2. IInv /\ [Next]_vars => IInv'
  BY NextInv
<1> QED  BY <1>1, <1>2, PTL DEF Spec

-----------------------------------------------------------------------------
(* The theorems.                                                           *)

\* The links, the table and its buckets are well-formed after any sequence of
\* calls: the macros leave no link to an item that was deleted.
THEOREM TypeCorrect == Spec => []TypeOK
<1>1. IInv => TypeOK
  <2> SUFFICES ASSUME IInv
               PROVE  TypeOK
    OBVIOUS
  <2> USE DEF IInv
  <2>1. CASE head = NULL
    <3>1. hh = EmptyList /\ Items = {} /\ tbl = FreedTable
      BY <2>1, HeadInItems DEF Contents
    <3>2. hh \in [Items -> [prev : Items \cup {NULL}, next : Items \cup {NULL}]]
      BY <3>1 DEF EmptyList
    <3>3. FreedTable.num_buckets = 0 /\ FreedTable \in Table(0)
      BY DEF FreedTable, NewTable, Table, EmptyBuckets
    <3> QED  BY <2>1, <3>1, <3>2, <3>3 DEF TypeOK, Caller, Contents
  <2>2. CASE head # NULL
    BY <2>2, HeadInItems DEF TypeOK, Caller, Contents, Holds, InList
  <2> QED  BY <2>1, <2>2
<1> QED  BY <1>1, Invariance, PTL

\* HASH_FSCK would find nothing: list and buckets hold the same items, each in
\* the bucket it is looked up in, through expansions and deletions.
THEOREM ListAndBuckets == Spec => []ListAndBucketsAgree
<1>1. IInv => ListAndBucketsAgree
  <2> SUFFICES ASSUME IInv
               PROVE  ListAndBucketsAgree
    OBVIOUS
  <2> USE DEF IInv
  <2>1. CASE head = NULL
    <3>1. Items = {} /\ tbl = FreedTable
      BY <2>1, HeadInItems DEF Contents
    <3>2. FreedTable.num_items = 0 /\ DOMAIN FreedTable.buckets = {}
      BY DEF FreedTable, NewTable, EmptyBuckets
    <3> QED  BY <2>1, <3>1, <3>2, FS_EmptySet DEF ListAndBucketsAgree, Walk
  <2>2. CASE head # NULL
    <3>1. Holds(tbl, Items) /\ InList(hh, Items, head, tbl.tail) /\ Items \subseteq Keys
      BY <2>2 DEF Contents
    <3>2. DOMAIN tbl.buckets = 0 .. tbl.num_buckets - 1
      BY <3>1 DEF Holds, Table
    <3>3. UNION {tbl.buckets[b].items : b \in DOMAIN tbl.buckets} = Items
      BY <3>1, <3>2, HashType DEF Holds, KeysInBucket
    <3>4. Walk(head) = Items
      BY <3>1 DEF Walk, Closed, InList, ClosedIn
    <3> QED  BY <3>1, <3>2, <3>3, <3>4 DEF ListAndBucketsAgree, Holds, InList, KeysInBucket
  <2> QED  BY <2>1, <2>2
<1> QED  BY <1>1, Invariance, PTL

\* Until expansion is inhibited, no chain is longer than what makes its bucket
\* expand, or than that multiple of the ideal length which the last expansion
\* left it with.
THEOREM Chains == Spec => []ChainsBounded
<1>1. IInv => ChainsBounded
  <2> SUFFICES ASSUME IInv
               PROVE  ChainsBounded
    OBVIOUS
  <2>1. CASE head = NULL
    <3>1. tbl = FreedTable
      BY <2>1 DEF IInv, Contents
    <3>2. DOMAIN FreedTable.buckets = {}
      BY DEF FreedTable, NewTable, EmptyBuckets
    <3> QED  BY <3>1, <3>2 DEF ChainsBounded
  <2>2. CASE head # NULL
    <3>1. Bounded(tbl) /\ DOMAIN tbl.buckets = 0 .. tbl.num_buckets - 1
      BY <2>2 DEF IInv, Contents, Holds, Table
    <3> QED  BY <3>1 DEF ChainsBounded, Bounded
  <2> QED  BY <2>1, <2>2
<1> QED  BY <1>1, Invariance, PTL

LEMMA WalkFacts ==
  ASSUME IInv
  PROVE  /\ Walk(NULL) = {} /\ Walk(head) = Items
         /\ \A k \in Items : /\ Walk(k) \subseteq Items /\ k \in Walk(k)
                             /\ hh[k].next \in Items \cup {NULL}
                             /\ Walk(k) \ {k} = Walk(hh[k].next)
<1>1. \A k : Walk(k) = WalkIn(hh, Items, k)
  BY DEF Walk, WalkIn, Closed, ClosedIn
<1>2. CASE head = NULL
  BY <1>1, <1>2, HeadInItems DEF IInv, WalkIn
<1>3. CASE head # NULL
  <2>1. InList(hh, Items, head, tbl.tail)
    BY <1>3 DEF IInv, Contents
  <2>2. \A k \in Items : WalkIn(hh, Items, k) \subseteq Items
                         /\ hh[k].next \in Items \cup {NULL}
    BY <2>1 DEF WalkIn, InList
  <2> QED  BY <1>1, <2>1, <2>2, WalkInList
<1> QED  BY <1>2, <1>3

LEMMA FindImplements ==
  ASSUME IInv, find
  PROVE  Contract!find(key)
<1>1. made /\ key \in Keys /\ Items' = Items /\ made' = made
      /\ \A k : Walk(k)' = Walk(k)
  BY DEF find, Return, IInv, Caller, Items, Walk, Closed
<1>2. CASE key \in Items
  <2>1. itr' = key /\ key # NULL
    BY <1>1, <1>2, FoundItem, HeadInItems DEF find, IInv
  <2>2. AbstractItr' = [here |-> {key}, rest |-> Walk(key) \ {key}]
    BY <1>1, <2>1 DEF AbstractItr, Walk, Closed, find, Items
  <2>3. Walk(key) \ {key} \in SUBSET (Items \ {key})
    BY <1>2, WalkFacts
  <2>4. AbstractItr' \in [here : {{key}}, rest : SUBSET (Items \ {key})]
    BY <2>2, <2>3
  <2> QED  BY <1>1, <1>2, <2>4 DEF Contract!find, AbstractItr
<1>3. CASE key \notin Items
  <2>1. itr' = NULL
    BY <1>1, <1>3, FoundItem DEF find, IInv
  <2> QED  BY <1>1, <1>3, <2>1 DEF Contract!find, Contract!EndItr, AbstractItr
<1> QED  BY <1>2, <1>3

LEMMA InsertImplements ==
  ASSUME IInv, insert
  PROVE  Contract!insert(key)
<1>1. made /\ made' = made /\ AbstractItr' = [here |-> {}, rest |-> {}]
  BY DEF insert, InsertPresent, InsertFirst, InsertAnother, Return, IInv, Caller,
         AbstractItr
<1>2. Items' = Items \cup {key}
  <2>1. CASE InsertPresent
    BY <2>1, FoundItem DEF InsertPresent, IInv, Caller, Items
  <2>2. CASE InsertFirst
    BY <2>2, HeadInItems DEF InsertFirst, IInv, Items
  <2>3. CASE InsertAnother
    BY <2>3 DEF InsertAnother, Linked, Items
  <2> QED  BY <2>1, <2>2, <2>3 DEF insert
<1> QED  BY <1>1, <1>2 DEF Contract!insert, Contract!EndItr

LEMMA EraseImplements ==
  ASSUME IInv, erase
  PROVE  Contract!erase(key)
<1>1. made /\ made' = made /\ AbstractItr' = [here |-> {}, rest |-> {}]
  BY DEF erase, EraseAbsent, EraseLast, EraseOther, Return, IInv, Caller, AbstractItr
<1>2. Items' = Items \ {key}
  <2>1. CASE EraseAbsent
    BY <2>1, FoundItem DEF EraseAbsent, IInv, Caller, Items
  <2>2. CASE EraseLast
    <3>1. key \in Items
      BY <2>2, FoundItem DEF EraseLast, IInv, Caller
    <3>2. InList(hh, Items, head, tbl.tail)
      BY <3>1, HeadInItems DEF IInv, Contents
    <3>3. Items = {key}
      BY <2>2, <3>1, <3>2, AloneInList DEF EraseLast
    <3> QED  BY <2>2, <3>3, NoItems DEF EraseLast, Items
  <2>3. CASE EraseOther
    BY <2>3 DEF EraseOther, Unlinked, Items
  <2> QED  BY <2>1, <2>2, <2>3 DEF erase
<1> QED  BY <1>1, <1>2 DEF Contract!erase, Contract!EndItr

LEMMA BeginImplements ==
  ASSUME IInv, begin_itr
  PROVE  Contract!begin_itr
<1>1. made /\ UNCHANGED <<made, Items>> /\ itr' = head
      /\ \A k : Walk(k)' = Walk(k)
  BY DEF begin_itr, Idle, Items, Walk, Closed
<1>2. CASE head = NULL
  BY <1>1, <1>2, HeadInItems DEF IInv, AbstractItr, Contract!begin_itr, Contract!EndItr
<1>3. CASE head # NULL
  <2>1. head \in Items
    BY <1>3, HeadInItems DEF IInv
  <2>2. AbstractItr' = [here |-> {head}, rest |-> Items \ {head}]
    BY <1>1, <1>3, WalkFacts DEF AbstractItr, begin_itr, Walk, Closed, Items
  <2> QED  BY <1>1, <2>1, <2>2 DEF Contract!begin_itr
<1> QED  BY <1>2, <1>3

LEMMA IncrementImplements ==
  ASSUME IInv, increment_itr
  PROVE  Contract!increment_itr
<1> DEFINE y == hh[itr].next
<1>1. made /\ UNCHANGED <<made, Items>> /\ itr \in Items /\ itr # NULL /\ itr' = y
      /\ \A k : Walk(k)' = Walk(k)
  BY DEF increment_itr, Idle, Items, Walk, Closed, IInv, Caller
<1>2. y \in Items \cup {NULL} /\ Walk(itr) \ {itr} = Walk(y) /\ Walk(NULL) = {}
  BY <1>1, WalkFacts
<1>3. AbstractItr = [here |-> {itr}, rest |-> Walk(y)]
  BY <1>1, <1>2 DEF AbstractItr
<1>4. CASE y = NULL
  <2>1. AbstractItr' = [here |-> {}, rest |-> {}]
    BY <1>1, <1>4 DEF AbstractItr
  <2>2. AbstractItr.here # {} /\ AbstractItr.rest = {}
    BY <1>2, <1>3, <1>4
  <2> QED  BY <1>1, <2>1, <2>2
           DEF Contract!increment_itr, Contract!is_itr_valid, Contract!EndItr
<1>5. CASE y # NULL
  <2>1. y \in Walk(y)
    BY <1>2, <1>5, WalkFacts
  <2>2. AbstractItr' = [here |-> {y}, rest |-> Walk(y) \ {y}]
    <3>1. hh' = hh
      BY DEF increment_itr
    <3> HIDE DEF y
    <3> QED  BY <1>1, <1>5, <3>1 DEF AbstractItr, Walk, Closed, Items
  <2>3. AbstractItr.here # {} /\ AbstractItr.rest = Walk(y)
    BY <1>3
  <2> QED  BY <1>1, <2>1, <2>2, <2>3 DEF Contract!increment_itr, Contract!is_itr_valid
<1> QED  BY <1>4, <1>5

\* The uthash shim is the table the benchmark expects.
THEOREM Implements == Spec => ImplementsContract
<1>1. Init => Contract!TableInit
  BY NoItems DEF Init, Contract!TableInit, Contract!EndItr, AbstractItr, Items
<1>2. ASSUME IInv, [Next]_vars
      PROVE  [ContractStep]_vars
  <2>1. CASE create_table
    <3>1. Items = {} /\ itr = NULL
      BY <1>2, <2>1, HeadInItems DEF IInv, Caller, create_table
    <3> QED  BY <2>1, <3>1 DEF create_table, ContractStep, Contract!create_table,
                             Contract!EndItr, AbstractItr, Items
  <2>2. CASE destroy_table
    BY <2>2, NoItems DEF destroy_table, Idle, ContractStep, Contract!destroy_table,
                Contract!EndItr, AbstractItr, Items
  <2>3. ASSUME NEW op \in {"find", "insert", "erase"}, NEW k \in Keys, call(op, k)
        PROVE  [ContractStep]_vars
    BY <2>3 DEF call, Idle, ContractStep, Contract!release_itr, Contract!EndItr,
                AbstractItr, Items
  <2>4. CASE find
    BY <1>2, <2>4, FindImplements DEF ContractStep
  <2>5. CASE insert
    BY <1>2, <2>5, InsertImplements DEF ContractStep
  <2>6. CASE erase
    BY <1>2, <2>6, EraseImplements DEF ContractStep
  <2>7. CASE begin_itr
    BY <1>2, <2>7, BeginImplements DEF ContractStep
  <2>8. CASE increment_itr
    BY <1>2, <2>8, IncrementImplements DEF ContractStep
  <2>9. CASE UNCHANGED vars
    BY <2>9
  <2> QED  BY <1>2, <2>1, <2>2, <2>3, <2>4, <2>5, <2>6, <2>7, <2>8, <2>9 DEF Next
<1> QED  BY <1>1, <1>2, Invariance, PTL DEF Spec, ImplementsContract
===============================================================================
