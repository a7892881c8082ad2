---------------------------- MODULE VerstableProofs ----------------------------
(***************************************************************************)
(* Theorems about Verstable, for every set of keys, every hash function    *)
(* and every displacement limit.                                           *)
(***************************************************************************)
EXTENDS Verstable, Arithmetic

\* The hypothesis of the theorems: insertions find the memory for a rehash,
\* whether or not reserve() and shrink() do.  Without it a key that _evict took
\* out of its chain may stay out of it.
InsertHasMemory == "insert" \notin NoMemoryFor

-----------------------------------------------------------------------------
(* The inductive invariant.                                                *)

Displacements == 0 .. DISPLACEMENT_LIMIT - 1

\* A table, whatever its chains look like: no key is in two buckets, and all
\* are counted.
Stored(t) ==
  /\ IsTable(t)
  /\ t.mask = 0 => Occupied(t) = {}
  /\ t.count = Cardinality(Occupied(t))
  /\ \A b \in Occupied(t) : t.key[b] \in Keys
  /\ \A b, c \in Occupied(t) : t.key[b] = t.key[c] => b = c

\* The keys in the buckets S whose home is home.
Chain(t, S, home) == {b \in S : Home(t, t.key[b]) = home}

\* The bucket b of S is at displacement D[b], and points at the next one.
InChain(t, S, D, b) ==
  LET home == Home(t, t.key[b])
  IN  /\ home \in Chain(t, S, home)
      /\ b = Displaced(t, home, D[b])
      /\ D[b] = 0 <=> b = home
      /\ t.meta[b].first <=> b = home
      /\ t.meta[b].frag = Frag[t.key[b]]
      /\ D[b] < t.meta[b].next
      /\ ~IsLast(t, b) => /\ Link(t, home, b) \in Chain(t, S, home)
                          /\ D[Link(t, home, b)] = t.meta[b].next
      /\ \A c \in Chain(t, S, home) : D[b] < D[c] => t.meta[b].next <= D[c]

\* The chains are threaded through the buckets S in the order of D.
Threaded(t, S, D) ==
  /\ S \subseteq 0 .. t.mask
  /\ D \in [0 .. t.mask -> Displacements]
  /\ \A b \in S : t.key[b] \in Keys /\ InChain(t, S, D, b)

Linked(t) == \E D : Threaded(t, Occupied(t), D)

\* What the calls leave behind and take for granted.
Calls ==
  /\ ~made => pc = "idle" /\ table = EmptyTable(0) /\ itr = EndItr(table)
  /\ pc = "idle" => key = Garbage
  /\ pc = "insert" => key # Garbage
  /\ pc # "idle" => itr = EndItr(table)
  /\ pc \in {"idle", "insert"} => bucket = 0
  /\ pc \in {"rehash", "reinsert"} => bucket_count >= 8 /\ PowerOfTwo(bucket_count)
  /\ pc = "reinsert" => BucketCount(new_table) = bucket_count

\* A rehash has the keys of the buckets before the current one in its table,
\* or it has broken off, with fewer keys.
Reinserted ==
  \/ /\ Linked(new_table)
     /\ KeysIn(new_table, Occupied(new_table)) = KeysIn(table, 0 .. bucket - 1)
  \/ bucket = BucketCount(table) /\ new_table.count < table.count

Tables ==
  /\ Stored(table) /\ Stored(new_table)
  /\ (pc \in {"idle", "insert"} \/ key = Garbage) => Linked(table)
  /\ pc = "reinsert" => Reinserted

\* An iterator that knows a home bucket knows that of its key.
ItrRight ==
  is_itr_valid /\ itr.home # Unknown => itr.home = Home(table, table.key[itr.at])

IInv == TypeOK /\ Calls /\ Tables /\ ItrRight

-----------------------------------------------------------------------------
(* Numbers and chains.                                                     *)

LEMMA MinIs ==
  ASSUME NEW S \in SUBSET Nat, S # {}
  PROVE  Min(S) \in S /\ \A x \in S : Min(S) <= x
<1>1. \E x \in S : \A y \in S : x <= y
  BY LeastElement
<1> QED  BY <1>1 DEF Min

\* The least member of a set of numbers that n has none below.
LEMMA MinOf ==
  ASSUME NEW S \in SUBSET Nat, NEW n \in S, \A x \in S : n <= x
  PROVE  Min(S) = n
<1>1. Min(S) \in S /\ Min(S) <= n
  BY MinIs
<1>2. n <= Min(S) /\ Min(S) \in Nat /\ n \in Nat
  BY <1>1
<1> QED  BY <1>1, <1>2

\* A bounded set of numbers has a greatest one.
LEMMA GreatestElement ==
  ASSUME NEW m \in Nat, NEW S \in SUBSET (0 .. m), S # {}
  PROVE  \E x \in S : \A y \in S : y <= x
<1> DEFINE Below == {m - x : x \in S}
<1>1. Below \in SUBSET Nat /\ Below # {}
  <2>1. \A x \in S : m - x \in Nat
    OBVIOUS
  <2> QED  BY <2>1, Zenon
<1>2. PICK d \in Below : \A y \in Below : d <= y
  <2> HIDE DEF Below
  <2> QED  BY <1>1, LeastElement
<1>3. PICK x \in S : d = m - x
  BY <1>2
<1>4. ASSUME NEW y \in S
      PROVE  y <= x
  <2>1. m - y \in Below
    OBVIOUS
  <2>2. d <= m - y
    BY <1>2, <2>1
  <2> QED  BY <1>3, <2>2
<1> QED  BY <1>4

LEMMA LimitIs == DISPLACEMENT_LIMIT \in Nat /\ 2 <= DISPLACEMENT_LIMIT
  BY VerstableAssumption

LEMMA QuadraticIs ==
  ASSUME NEW d \in Nat
  PROVE  vt_quadratic(d) \in Nat
<1>1. d * d + d \in Nat
  BY SMT
<1> QED  BY <1>1, DivMod DEF vt_quadratic

LEMMA DisplacedIs ==
  ASSUME NEW t, t.mask \in Nat, NEW home \in Nat, NEW d \in Nat
  PROVE  Displaced(t, home, d) \in 0 .. t.mask
<1>1. home + vt_quadratic(d) \in Nat /\ t.mask + 1 \in Nat \ {0}
  BY QuadraticIs
<1>2. (home + vt_quadratic(d)) % (t.mask + 1) \in 0 .. (t.mask + 1) - 1
  BY <1>1, DivMod
<1> QED  BY <1>2 DEF Displaced

\* A key that is not displaced is at home.
LEMMA NotDisplaced ==
  ASSUME NEW t, t.mask \in Nat, NEW home \in 0 .. t.mask
  PROVE  Displaced(t, home, 0) = home
<1>1. vt_quadratic(0) = 0
  BY DEF vt_quadratic
<1>2. home % (t.mask + 1) = home
  BY ModSmall
<1> QED  BY <1>1, <1>2 DEF Displaced

LEMMA HomeIs ==
  ASSUME NEW t, t.mask \in Nat, NEW k \in Keys
  PROVE  Home(t, k) \in 0 .. t.mask
<1>1. Hash[k] \in Nat /\ t.mask + 1 \in Nat \ {0}
  BY VerstableAssumption
<1>2. Hash[k] % (t.mask + 1) \in 0 .. (t.mask + 1) - 1
  BY <1>1, DivMod
<1> QED  BY <1>2 DEF Home

LEMMA TableIs ==
  ASSUME NEW t, IsTable(t)
  PROVE  /\ t.mask \in Nat /\ t.count \in Nat
         /\ t.key \in [0 .. t.mask -> Keys \cup {Garbage}]
         /\ t.meta \in [0 .. t.mask -> [frag : 0 .. 15, first : BOOLEAN,
                                        next : 0 .. DISPLACEMENT_LIMIT]]
  BY DEF IsTable

\* A loop from bucket b on.
LEMMA WalkExists ==
  ASSUME NEW t, NEW home, NEW b
  PROVE  LET at == Walk(t, home, b)
         IN  /\ DOMAIN at = Displacements
             /\ at[0] = b
             /\ \A n \in 1 .. DISPLACEMENT_LIMIT - 1 :
                  at[n] = Following(t, home, at[n - 1])
<1> DEFINE Step(f, i) == IF i = 0 THEN b ELSE Following(t, home, f[i - 1])
           Fills(f, c) == f = [i \in 0 .. c |-> Step(f, i)]
           Exists == {c \in Nat : \E f : Fills(f, c)}
           last == DISPLACEMENT_LIMIT - 1
           at == CHOOSE f : Fills(f, last)
<1>0. last \in Nat
  BY LimitIs
<1>1. Walk(t, home, b) = at
  BY DEF Walk
<1>2. last \in Exists
  <2>1. 0 \in Exists
    <3>1. Fills([i \in 0 .. 0 |-> b], 0)
      OBVIOUS
    <3> QED  BY <3>1
  <2>2. ASSUME NEW c \in Nat, c \in Exists
        PROVE  c + 1 \in Exists
    <3>1. PICK f : Fills(f, c)
      BY <2>2
    <3> DEFINE g == [i \in 0 .. c + 1 |-> IF i = c + 1 THEN Step(f, i) ELSE f[i]]
    <3>2. \A i \in 0 .. c + 1 : Step(g, i) = Step(f, i)
      <4> SUFFICES ASSUME NEW i \in 1 .. c + 1
                   PROVE  g[i - 1] = f[i - 1]
        OBVIOUS
      <4> QED  OBVIOUS
    <3>3. \A i \in 0 .. c : f[i] = Step(f, i)
      BY <3>1
    <3>4. \A i \in 0 .. c + 1 : g[i] = Step(g, i)
      <4> SUFFICES ASSUME NEW i \in 0 .. c + 1
                   PROVE  g[i] = Step(g, i)
        OBVIOUS
      <4>1. g[i] = Step(f, i)
        <5> HIDE DEF Step
        <5> QED  BY <3>3
      <4> HIDE DEF g, Step
      <4> QED  BY <3>2, <4>1
    <3>5. Fills(g, c + 1)
      <4>1. g = [i \in 0 .. c + 1 |-> g[i]]
        OBVIOUS
      <4> HIDE DEF g, Step
      <4> QED  BY <3>4, <4>1
    <3> HIDE DEF Fills, g
    <3> QED  BY <3>5
  <2> HIDE DEF Exists, last
  <2> QED  BY <1>0, <2>1, <2>2, NatSetInduction
<1>3. Fills(at, last)
  <2> HIDE DEF Fills, last
  <2> QED  BY <1>2
<1>4. DOMAIN at = 0 .. last /\ \A i \in 0 .. last : at[i] = Step(at, i)
  <2> HIDE DEF at, last
  <2> QED  BY <1>3
<1>5. at[0] = b /\ \A i \in 1 .. last : at[i] = Following(t, home, at[i - 1])
  <2>1. at[0] = Step(at, 0)
    <3> HIDE DEF at, Step, last
    <3> QED  BY <1>0, <1>4
  <2>2. ASSUME NEW i \in 1 .. last
        PROVE  at[i] = Step(at, i) /\ i # 0
    <3> HIDE DEF at, Step, last
    <3> QED  BY <1>0, <1>4
  <2> HIDE DEF at, last
  <2> QED  BY <2>1, <2>2
<1> HIDE DEF at
<1> QED  BY <1>1, <1>4, <1>5 DEF Displacements

\* What the invariant says of a key in the chain of home.
LEMMA MemberIs ==
  ASSUME NEW t, IsTable(t), NEW S, NEW D, Threaded(t, S, D),
         NEW home, NEW b \in Chain(t, S, home)
  PROVE  /\ b \in S /\ b \in 0 .. t.mask /\ home \in 0 .. t.mask
         /\ t.key[b] \in Keys /\ Home(t, t.key[b]) = home
         /\ D[b] \in Nat /\ D[b] <= DISPLACEMENT_LIMIT - 1
         /\ home \in Chain(t, S, home)
         /\ b = Displaced(t, home, D[b])
         /\ D[b] = 0 <=> b = home
         /\ t.meta[b].first <=> b = home
         /\ t.meta[b].frag = Frag[t.key[b]]
         /\ t.meta[b].next \in Nat /\ t.meta[b].next <= DISPLACEMENT_LIMIT
         /\ D[b] < t.meta[b].next
<1>1. b \in S /\ Home(t, t.key[b]) = home
  BY DEF Chain
<1>2. b \in 0 .. t.mask /\ t.key[b] \in Keys /\ InChain(t, S, D, b)
  BY <1>1 DEF Threaded
<1>3. home \in 0 .. t.mask
  BY <1>1, <1>2, TableIs, HomeIs
<1>4. D[b] \in Nat /\ D[b] <= DISPLACEMENT_LIMIT - 1
  BY <1>2, LimitIs DEF Threaded, Displacements
<1>5. t.meta[b].next \in Nat /\ t.meta[b].next <= DISPLACEMENT_LIMIT
  BY <1>2, LimitIs, TableIs
<1> QED  BY <1>1, <1>2, <1>3, <1>4, <1>5 DEF InChain

\* The key it points at is the next one.
LEMMA NextIs ==
  ASSUME NEW t, NEW S, NEW D, Threaded(t, S, D),
         NEW home, NEW b \in Chain(t, S, home)
  PROVE  /\ ~IsLast(t, b) => /\ Link(t, home, b) \in Chain(t, S, home)
                             /\ D[Link(t, home, b)] = t.meta[b].next
         /\ \A c \in Chain(t, S, home) : D[b] < D[c] => t.meta[b].next <= D[c]
<1>1. b \in S /\ Home(t, t.key[b]) = home
  BY DEF Chain
<1> QED  BY <1>1 DEF Threaded, InChain

\* A chain has one key at each displacement.
LEMMA OneAtEach ==
  ASSUME NEW t, IsTable(t), NEW S, NEW D, Threaded(t, S, D),
         NEW home, NEW b \in Chain(t, S, home), NEW c \in Chain(t, S, home),
         D[b] = D[c]
  PROVE  b = c
<1>1. b = Displaced(t, home, D[b]) /\ c = Displaced(t, home, D[c])
  BY MemberIs
<1> QED  BY <1>1

\* A loop from bucket b on comes to each later key of the chain, past keys that
\* are in between only.
LEMMA WalkVisits ==
  ASSUME NEW t, IsTable(t), NEW S, NEW D, Threaded(t, S, D), NEW home,
         NEW b \in Chain(t, S, home), NEW c \in Chain(t, S, home), D[b] <= D[c]
  PROVE  LET at == Walk(t, home, b)
         IN  \E n \in Displacements :
               /\ at[n] = c
               /\ \A m \in 0 .. n - 1 : /\ at[m] \in Chain(t, S, home)
                                        /\ D[b] <= D[at[m]] /\ D[at[m]] < D[c]
<1> DEFINE at == Walk(t, home, b)
           Between(x) == /\ x \in Chain(t, S, home)
                         /\ D[b] <= D[x] /\ D[x] < D[c]
           Come(n) == at[n] = c /\ \A m \in 0 .. n - 1 : Between(at[m])
           Coming(n) == /\ at[n] \in Chain(t, S, home)
                        /\ D[b] + n <= D[at[n]] /\ D[at[n]] <= D[c]
                        /\ \A m \in 0 .. n - 1 : Between(at[m])
           T == {n \in Nat : n \in Displacements =>
                               Coming(n) \/ \E m \in 0 .. n : Come(m)}
<1>1. /\ at[0] = b
      /\ \A n \in 1 .. DISPLACEMENT_LIMIT - 1 :
           at[n] = Following(t, home, at[n - 1])
  BY WalkExists
<1>2. D[b] \in Nat /\ D[c] \in Nat /\ D[c] <= DISPLACEMENT_LIMIT - 1
  BY MemberIs
<1> HIDE DEF at
<1>3. 0 \in T
  <2>1. Coming(0)
    BY <1>1, <1>2
  <2> QED  BY <2>1
<1>4. ASSUME NEW n \in Nat, n \in T
      PROVE  n + 1 \in T
  <2> SUFFICES ASSUME n + 1 \in Displacements
               PROVE  Coming(n + 1) \/ \E m \in 0 .. n + 1 : Come(m)
    OBVIOUS
  <2>1. n \in Displacements /\ n + 1 \in 1 .. DISPLACEMENT_LIMIT - 1
    BY LimitIs DEF Displacements
  <2>2. CASE \E m \in 0 .. n : Come(m)
    <3> HIDE DEF Come
    <3> QED  BY <2>2
  <2>3. CASE Coming(n) /\ D[at[n]] = D[c]
    <3>1. at[n] = c
      BY <2>3, OneAtEach
    <3>2. Come(n)
      BY <2>3, <3>1
    <3> HIDE DEF Come
    <3> QED  BY <3>2
  <2>4. CASE Coming(n) /\ D[at[n]] # D[c]
    <3> DEFINE x == at[n]
    <3>1. x \in Chain(t, S, home)
      BY <2>4
    <3>a. D[x] <= D[c] /\ D[x] # D[c]
      BY <2>4
    <3>2. D[x] \in Nat /\ D[x] < D[c]
      <4> HIDE DEF x, Coming
      <4>1. D[x] \in Nat
        BY <3>1, MemberIs
      <4> QED  BY <1>2, <3>a, <4>1
    <3>3. t.meta[x].next <= D[c] /\ t.meta[x].next \in Nat /\ D[x] < t.meta[x].next
      <4> HIDE DEF x, Coming
      <4>1. /\ t.meta[x].next \in Nat /\ D[x] < t.meta[x].next
        BY <3>1, MemberIs
      <4>2. \A y \in Chain(t, S, home) : D[x] < D[y] => t.meta[x].next <= D[y]
        BY <3>1, NextIs
      <4> QED  BY <3>2, <4>1, <4>2
    <3>4. ~IsLast(t, x)
      BY <1>2, <3>3, LimitIs DEF IsLast
    <3>5. /\ Link(t, home, x) \in Chain(t, S, home)
          /\ D[Link(t, home, x)] = t.meta[x].next
      BY <3>1, <3>4, NextIs
    <3>6. at[n + 1] = Link(t, home, x)
      <4>1. at[n + 1] = Following(t, home, at[(n + 1) - 1])
        BY <1>1, <2>1
      <4> QED  BY <3>4, <4>1 DEF Following
    <3>7. \A m \in 0 .. (n + 1) - 1 : Between(at[m])
      <4>1. Between(at[n])
        BY <1>2, <2>4, <3>1, <3>2
      <4>2. \A m \in 0 .. n - 1 : Between(at[m])
        BY <2>4
      <4> HIDE DEF Between
      <4> QED  BY <4>1, <4>2
    <3>8. D[b] + (n + 1) <= D[at[n + 1]] /\ D[at[n + 1]] <= D[c]
      BY <1>2, <2>4, <3>2, <3>3, <3>5, <3>6
    <3>9. Coming(n + 1)
      BY <3>5, <3>6, <3>7, <3>8
    <3> QED  BY <3>9
  <2>5. Coming(n) \/ \E m \in 0 .. n : Come(m)
    BY <1>4, <2>1
  <2> HIDE DEF Coming, Come
  <2> QED  BY <2>2, <2>3, <2>4, <2>5
<1> DEFINE l == DISPLACEMENT_LIMIT - 1
<1>5. l \in Nat /\ l \in Displacements
  BY LimitIs DEF Displacements
<1>6. l \in T
  <2> HIDE DEF T, l
  <2> QED  BY <1>3, <1>4, <1>5, NatSetInduction
<1>7. Coming(l) \/ \E m \in 0 .. l : Come(m)
  BY <1>5, <1>6
<1>8. CASE Coming(l)
  <2>1. D[at[l]] = D[c]
    <3> DEFINE x == at[l]
    <3>0. x \in Chain(t, S, home)
      BY <1>8
    <3>1. D[x] \in Nat
      <4> HIDE DEF x
      <4> QED  BY <3>0, MemberIs
    <3> QED  BY <1>2, <1>5, <1>8, <3>1
  <2>2. at[l] = c
    BY <1>8, <2>1, OneAtEach
  <2>3. Come(l)
    BY <1>8, <2>2
  <2> QED  BY <1>5, <2>3 DEF at
<1>9. CASE \E m \in 0 .. l : Come(m)
  <2>1. PICK m \in 0 .. l : Come(m)
    BY <1>9
  <2>2. m \in Displacements
    BY LimitIs DEF Displacements
  <2> QED  BY <2>1, <2>2 DEF at
<1> QED  BY <1>7, <1>8, <1>9

\* It ends at the first key of the chain in Goal.
LEMMA WalkToIs ==
  ASSUME NEW t, IsTable(t), NEW S, NEW D, Threaded(t, S, D), NEW home,
         NEW b \in Chain(t, S, home), NEW c \in Chain(t, S, home), D[b] <= D[c],
         NEW Goal, c \in Goal,
         \A x \in Chain(t, S, home) : D[b] <= D[x] /\ D[x] < D[c] => x \notin Goal
  PROVE  WalkTo(t, home, b, Goal) = c
<1> DEFINE at == Walk(t, home, b)
           N == {n \in DOMAIN at : at[n] \in Goal}
<1>1. PICK n \in Displacements :
        /\ at[n] = c
        /\ \A m \in 0 .. n - 1 : /\ at[m] \in Chain(t, S, home)
                                 /\ D[b] <= D[at[m]] /\ D[at[m]] < D[c]
  BY WalkVisits
<1>2. DOMAIN at = Displacements
  BY WalkExists
<1>3. WalkTo(t, home, b, Goal) = at[Min(N)]
  BY DEF WalkTo
<1> HIDE DEF at
<1>4. N \in SUBSET Nat /\ n \in N /\ n \in Nat
  BY <1>1, <1>2, LimitIs DEF Displacements
<1>5. \A m \in N : n <= m
  <2> SUFFICES ASSUME NEW m \in N, ~(n <= m)
               PROVE  FALSE
    OBVIOUS
  <2>1. m \in 0 .. n - 1
    BY <1>4
  <2> QED  BY <1>1, <2>1
<1>6. Min(N) = n
  <2> HIDE DEF N
  <2> QED  BY <1>4, <1>5, MinOf
<1> QED  BY <1>1, <1>3, <1>6

\* The last key of a chain before displacement d points at the key that is at d,
\* or past it if there is none.
LEMMA PreviousIs ==
  ASSUME NEW t, IsTable(t), NEW S, NEW D, Threaded(t, S, D), NEW home,
         home \in Chain(t, S, home), NEW d \in 1 .. DISPLACEMENT_LIMIT - 1
  PROVE  \E p \in Chain(t, S, home) :
           /\ D[p] < d
           /\ \A x \in Chain(t, S, home) : D[x] < d => D[x] <= D[p]
           /\ IF \E c \in Chain(t, S, home) : D[c] = d
              THEN t.meta[p].next = d ELSE d < t.meta[p].next
<1> DEFINE C == Chain(t, S, home)
           Ds == {D[x] : x \in {y \in C : D[y] < d}}
<1>0. d \in Nat /\ d < DISPLACEMENT_LIMIT /\ 0 < d /\ DISPLACEMENT_LIMIT \in Nat
  BY LimitIs
<1>1. \A x \in C : D[x] \in Nat /\ D[x] <= DISPLACEMENT_LIMIT - 1
  BY MemberIs
<1>2. Ds \in SUBSET (0 .. d) /\ Ds # {}
  <2>1. D[home] = 0
    BY MemberIs
  <2>2. \A x \in C : D[x] < d => D[x] \in 0 .. d
    BY <1>0, <1>1
  <2>3. home \in {y \in C : D[y] < d}
    BY <1>0, <2>1
  <2>4. \A x \in {y \in C : D[y] < d} : D[x] \in 0 .. d
    BY <2>2
  <2> HIDE DEF C
  <2> QED  BY <2>3, <2>4, Zenon
<1>3. PICK m \in Ds : \A y \in Ds : y <= m
  <2> HIDE DEF Ds
  <2> QED  BY <1>0, <1>2, GreatestElement
<1>4. PICK p \in C : D[p] = m /\ D[p] < d
  BY <1>3
<1>5. \A x \in C : D[x] < d => D[x] <= D[p]
  BY <1>3, <1>4
<1>6. /\ t.meta[p].next \in Nat /\ D[p] < t.meta[p].next /\ D[p] \in Nat
      /\ ~IsLast(t, p) => /\ Link(t, home, p) \in Chain(t, S, home)
                          /\ D[Link(t, home, p)] = t.meta[p].next
      /\ \A c \in C : D[p] < D[c] => t.meta[p].next <= D[c]
  <2>1. t.meta[p].next \in Nat /\ D[p] < t.meta[p].next /\ D[p] \in Nat
    BY <1>4, MemberIs
  <2> QED  BY <1>4, <2>1, NextIs
<1> HIDE DEF Ds
<1>7. d <= t.meta[p].next
  <2> SUFFICES ASSUME t.meta[p].next < d
               PROVE  FALSE
    BY <1>0, <1>6
  <2>1. ~IsLast(t, p)
    BY <1>0 DEF IsLast
  <2>2. Link(t, home, p) \in C /\ D[Link(t, home, p)] = t.meta[p].next
    BY <1>6, <2>1
  <2>3. D[Link(t, home, p)] <= D[p]
    BY <1>5, <2>2
  <2> QED  BY <1>6, <2>2, <2>3
<1>8. ASSUME NEW c \in C, D[c] = d
      PROVE  t.meta[p].next = d
  BY <1>0, <1>4, <1>6, <1>7, <1>8
<1>9. ASSUME ~ \E c \in C : D[c] = d
      PROVE  d < t.meta[p].next
  <2> SUFFICES ASSUME t.meta[p].next = d
               PROVE  FALSE
    BY <1>0, <1>6, <1>7
  <2>1. ~IsLast(t, p)
    BY <1>0 DEF IsLast
  <2> QED  BY <1>6, <1>9, <2>1
<1> QED  BY <1>4, <1>5, <1>8, <1>9

\* _find_insert_location_in_chain.
LEMMA InsertLocationIs ==
  ASSUME NEW t, IsTable(t), NEW S, NEW D, Threaded(t, S, D), NEW home,
         home \in Chain(t, S, home), NEW d \in 1 .. DISPLACEMENT_LIMIT - 1,
         \A c \in Chain(t, S, home) : D[c] # d
  PROVE  LET p == insert_location(t, home, d)
         IN  /\ p \in Chain(t, S, home)
             /\ D[p] < d /\ d < t.meta[p].next
             /\ \A x \in Chain(t, S, home) : D[x] < d => D[x] <= D[p]
<1> DEFINE C == Chain(t, S, home)
           Goal == {x \in 0 .. t.mask : t.meta[x].next > d}
<1>1. PICK p \in C :
        /\ D[p] < d /\ d < t.meta[p].next
        /\ \A x \in C : D[x] < d => D[x] <= D[p]
  BY PreviousIs
<1>2. d \in Nat
  BY LimitIs
<1>3. \A x \in C : D[x] \in Nat /\ x \in 0 .. t.mask /\ t.meta[x].next \in Nat
  BY MemberIs
<1>4. p \in Goal
  BY <1>1, <1>2, <1>3
<1>5. ASSUME NEW x \in C, D[x] < D[p]
      PROVE  x \notin Goal
  <2>1. t.meta[x].next <= D[p]
    BY <1>5, NextIs
  <2> QED  BY <1>1, <1>2, <1>3, <2>1
<1>6. D[home] <= D[p]
  <2>1. D[home] = 0
    BY MemberIs
  <2> QED  BY <1>3, <2>1
<1>7. WalkTo(t, home, home, Goal) = p
  <2> HIDE DEF Goal
  <2> QED  BY <1>4, <1>5, <1>6, WalkToIs
<1> QED  BY <1>1, <1>7 DEF insert_location

\* The loop that looks for the key before the one in bucket c.
LEMMA BeforeIs ==
  ASSUME NEW t, IsTable(t), NEW S, NEW D, Threaded(t, S, D), NEW home,
         NEW b \in Chain(t, S, home), NEW c \in Chain(t, S, home), D[b] < D[c]
  PROVE  LET p == Before(t, home, b, c)
         IN  /\ p \in Chain(t, S, home)
             /\ D[p] < D[c] /\ t.meta[p].next = D[c]
             /\ \A x \in Chain(t, S, home) : D[x] < D[c] => D[x] <= D[p]
<1> DEFINE C == Chain(t, S, home)
           Goal == {x \in 0 .. t.mask : Link(t, home, x) = c}
<1>1. \A x \in C : /\ D[x] \in Nat /\ D[x] < DISPLACEMENT_LIMIT
                   /\ x \in 0 .. t.mask /\ t.meta[x].next \in Nat
  <2>1. \A x \in C : /\ D[x] \in Nat /\ D[x] <= DISPLACEMENT_LIMIT - 1
                     /\ x \in 0 .. t.mask /\ t.meta[x].next \in Nat
    BY MemberIs
  <2> QED  BY <2>1, LimitIs
<1>2. home \in C /\ D[c] \in 1 .. DISPLACEMENT_LIMIT - 1
  <2>1. home \in C
    BY MemberIs
  <2> QED  BY <1>1, <2>1, LimitIs
<1>3. PICK p \in C :
        /\ D[p] < D[c] /\ t.meta[p].next = D[c]
        /\ \A x \in C : D[x] < D[c] => D[x] <= D[p]
  <2> DEFINE d == D[c]
  <2>1. d \in 1 .. DISPLACEMENT_LIMIT - 1 /\ \E x \in C : D[x] = d
    BY <1>2
  <2> HIDE DEF d
  <2>2. \E p \in C : /\ D[p] < d /\ t.meta[p].next = d
                     /\ \A x \in C : D[x] < d => D[x] <= D[p]
    BY <1>2, <2>1, PreviousIs
  <2> QED  BY <2>2 DEF d
<1>4. p \in Goal
  <2>1. ~IsLast(t, p)
    BY <1>1, <1>3, LimitIs DEF IsLast
  <2>2. Link(t, home, p) \in C /\ D[Link(t, home, p)] = D[c]
    BY <1>3, <2>1, NextIs
  <2>3. Link(t, home, p) = c
    BY <2>2, OneAtEach
  <2> QED  BY <1>1, <2>3
<1>5. ASSUME NEW x \in C, D[x] < D[p]
      PROVE  x \notin Goal
  <2>1. t.meta[x].next <= D[p]
    BY <1>5, NextIs
  <2>2. ~IsLast(t, x) /\ t.meta[x].next # D[c]
    BY <1>1, <1>3, <2>1, LimitIs DEF IsLast
  <2>3. D[Link(t, home, x)] = t.meta[x].next
    BY <2>2, NextIs
  <2> QED  BY <2>2, <2>3
<1>6. D[b] <= D[p]
  BY <1>3
<1>7. WalkTo(t, home, b, Goal) = p
  <2> HIDE DEF Goal
  <2> QED  BY <1>4, <1>5, <1>6, WalkToIs
<1> QED  BY <1>3, <1>7 DEF Before

-----------------------------------------------------------------------------
(* Changes to a chain.                                                     *)

\* Homes and displacements depend on the mask alone.
LEMMA SameMask ==
  ASSUME NEW t, NEW t2, t2.mask = t.mask
  PROVE  /\ \A k : Home(t2, k) = Home(t, k)
         /\ \A home, d : Displaced(t2, home, d) = Displaced(t, home, d)
  BY DEF Home, Displaced

\* What is left as it was is still a member of its chain.
LEMMA StaysInChain ==
  ASSUME NEW t, NEW S, NEW D, NEW b, InChain(t, S, D, b),
         NEW t2, NEW S2, NEW D2, t2.mask = t.mask,
         t2.meta[b] = t.meta[b], t2.key[b] = t.key[b],
         Chain(t2, S2, Home(t, t.key[b])) = Chain(t, S, Home(t, t.key[b])),
         D2[b] = D[b],
         \A x \in Chain(t, S, Home(t, t.key[b])) : D2[x] = D[x]
  PROVE  InChain(t2, S2, D2, b)
<1> DEFINE home == Home(t, t.key[b])
<1>1. /\ Home(t2, t2.key[b]) = home
      /\ Displaced(t2, home, D2[b]) = Displaced(t, home, D[b])
      /\ IsLast(t2, b) = IsLast(t, b)
      /\ Link(t2, home, b) = Link(t, home, b)
  BY SameMask DEF IsLast, Link
<1>2. Chain(t2, S2, home) = Chain(t, S, home)
  OBVIOUS
<1> HIDE DEF home
<1> QED  BY <1>1, <1>2 DEF InChain, home

\* Table t2 is t with key k in bucket e, after that of bucket p in its chain.
JoinsAfter(t, S, t2, p, d, e, k) ==
  /\ t2.mask = t.mask
  /\ t2.key[e] = k /\ \A x \in S : t2.key[x] = t.key[x]
  /\ \A x \in S \ {p} : t2.meta[x] = t.meta[x]
  /\ t2.meta[p] = [t.meta[p] EXCEPT !.next = d]
  /\ t2.meta[e] = [frag |-> Frag[k], first |-> FALSE, next |-> t.meta[p].next]

\* What Joined does: key k goes to bucket e at displacement d from its home.
LEMMA JoinThreaded ==
  ASSUME NEW t, IsTable(t), NEW S, NEW D, Threaded(t, S, D), NEW home,
         home \in Chain(t, S, home), NEW d \in 1 .. DISPLACEMENT_LIMIT - 1,
         Displaced(t, home, d) \notin S,
         NEW k \in Keys, Home(t, k) = home,
         NEW t2, JoinsAfter(t, S, t2, insert_location(t, home, d), d,
                            Displaced(t, home, d), k)
  PROVE  LET e == Displaced(t, home, d)
         IN  Threaded(t2, S \cup {e}, [D EXCEPT ![e] = d])
<1> DEFINE C == Chain(t, S, home)
           e == Displaced(t, home, d)
           p == insert_location(t, home, d)
           S2 == S \cup {e}
           D2 == [D EXCEPT ![e] = d]
<1>j. /\ t2.mask = t.mask
      /\ t2.key[e] = k /\ \A x \in S : t2.key[x] = t.key[x]
      /\ \A x \in S \ {p} : t2.meta[x] = t.meta[x]
      /\ t2.meta[p] = [t.meta[p] EXCEPT !.next = d]
      /\ t2.meta[e] = [frag |-> Frag[k], first |-> FALSE, next |-> t.meta[p].next]
  BY DEF JoinsAfter
<1>e. e = Displaced(t, home, d) /\ e \notin S
  OBVIOUS
<1> HIDE DEF p
<1>1. d \in Nat /\ 0 < d /\ d < DISPLACEMENT_LIMIT /\ DISPLACEMENT_LIMIT \in Nat
  BY LimitIs
<1>2. home \in 0 .. t.mask /\ t.mask \in Nat /\ home \in S
  BY TableIs, MemberIs
<1>3. e \in 0 .. t.mask /\ e # home
  BY <1>1, <1>2, DisplacedIs
<1>4. \A c \in C : D[c] # d
  <2> SUFFICES ASSUME NEW c \in C, D[c] = d
               PROVE  FALSE
    OBVIOUS
  <2>1. c \in S /\ c = Displaced(t, home, D[c])
    BY MemberIs
  <2> QED  BY <2>1
<1>5. /\ p \in C /\ D[p] < d /\ d < t.meta[p].next
      /\ \A x \in C : D[x] < d => D[x] <= D[p]
  <2> HIDE DEF C
  <2> QED  BY <1>4, InsertLocationIs DEF C, p
<1>6. /\ D \in [0 .. t.mask -> Displacements] /\ S \subseteq 0 .. t.mask
      /\ \A b \in S : t.key[b] \in Keys /\ InChain(t, S, D, b)
  BY DEF Threaded
<1>7. D2 \in [0 .. t.mask -> Displacements] /\ D2[e] = d /\ \A x \in S : D2[x] = D[x]
  BY <1>1, <1>3, <1>6, <1>e DEF Displacements, D2
<1>8. /\ \A x : Home(t2, x) = Home(t, x)
      /\ \A h, x : Displaced(t2, h, x) = Displaced(t, h, x)
  BY <1>j, SameMask
<1>9. /\ Chain(t2, S2, home) = C \cup {e}
      /\ \A h : h # home => Chain(t2, S2, h) = Chain(t, S, h)
  BY <1>8, <1>j DEF Chain
<1>10. C \subseteq S /\ \A x \in C : Home(t, t.key[x]) = home
  BY DEF Chain
<1> HIDE DEF C, D2, S2, e
<1>11. p \in S /\ p # e
  BY <1>5, <1>10, <1>e
<1>12. /\ D[p] \in Nat /\ t.meta[p].next \in Nat
       /\ t.meta[p].next <= DISPLACEMENT_LIMIT
       /\ D[p] = 0 <=> p = home
       /\ t.meta[p].first <=> p = home
       /\ t.meta[p].frag = Frag[t.key[p]]
       /\ p = Displaced(t, home, D[p])
       /\ ~IsLast(t, p) => /\ Link(t, home, p) \in C
                           /\ D[Link(t, home, p)] = t.meta[p].next
       /\ \A c \in C : D[p] < D[c] => t.meta[p].next <= D[c]
  <2> USE DEF C
  <2> QED  BY <1>5, MemberIs, NextIs
<1>13. \A x \in C : D[x] \in Nat
  <2> USE DEF C
  <2> QED  BY MemberIs
<1>14. t2.meta[p].next = d /\ t2.meta[p].first = t.meta[p].first
       /\ t2.meta[p].frag = t.meta[p].frag
  <2>1. t.meta[p] \in [frag : 0 .. 15, first : BOOLEAN, next : 0 .. DISPLACEMENT_LIMIT]
    BY <1>6, <1>11, TableIs
  <2> QED  BY <1>j, <2>1
<1>15. /\ ~t2.meta[e].first /\ t2.meta[e].frag = Frag[k]
       /\ t2.meta[e].next = t.meta[p].next /\ t2.key[e] = k
       /\ \A x \in S : t2.key[x] = t.key[x]
       /\ \A x \in S \ {p} : t2.meta[x] = t.meta[x]
  BY <1>j
<1>16. home \in Chain(t2, S2, home) /\ home \in C
  BY <1>9 DEF C
<1>17. \A x \in C : D2[x] = D[x] /\ x # e
  BY <1>7, <1>10, <1>e
<1>18. \A x : /\ Link(t2, home, x) = Displaced(t, home, t2.meta[x].next)
              /\ Link(t, home, x) = Displaced(t, home, t.meta[x].next)
              /\ IsLast(t2, x) = (t2.meta[x].next = DISPLACEMENT_LIMIT)
              /\ IsLast(t, x) = (t.meta[x].next = DISPLACEMENT_LIMIT)
  BY <1>8 DEF Link, IsLast
<1>19. t2.key[e] \in Keys /\ InChain(t2, S2, D2, e)
  <2>1. Home(t2, t2.key[e]) = home
    BY <1>8, <1>15
  <2>2. /\ e = Displaced(t2, home, D2[e])
        /\ D2[e] = 0 <=> e = home
        /\ t2.meta[e].first <=> e = home
        /\ t2.meta[e].frag = Frag[t2.key[e]]
        /\ D2[e] < t2.meta[e].next
    BY <1>1, <1>3, <1>5, <1>7, <1>8, <1>15, <1>e
  <2>3. ASSUME ~IsLast(t2, e)
        PROVE  /\ Link(t2, home, e) \in Chain(t2, S2, home)
               /\ D2[Link(t2, home, e)] = t2.meta[e].next
    <3>1. ~IsLast(t, p) /\ Link(t2, home, e) = Link(t, home, p)
      BY <1>15, <1>18, <2>3
    <3>2. Link(t, home, p) \in C /\ D[Link(t, home, p)] = t.meta[p].next
      BY <1>12, <3>1
    <3> QED  BY <1>9, <1>15, <1>17, <3>1, <3>2
  <2>4. ASSUME NEW c \in Chain(t2, S2, home), D2[e] < D2[c]
        PROVE  t2.meta[e].next <= D2[c]
    <3>1. c \in C /\ D2[c] = D[c]
      BY <1>1, <1>7, <1>9, <1>17, <2>4
    <3>2. D[p] < D[c]
      BY <1>1, <1>5, <1>7, <1>12, <1>13, <2>4, <3>1
    <3> QED  BY <1>12, <1>15, <3>1, <3>2
  <2> QED  BY <1>15, <1>16, <2>1, <2>2, <2>3, <2>4 DEF InChain
<1>20. t2.key[p] \in Keys /\ InChain(t2, S2, D2, p)
  <2>1. /\ t2.key[p] = t.key[p] /\ t.key[p] \in Keys
        /\ Home(t2, t2.key[p]) = home /\ D2[p] = D[p]
    BY <1>5, <1>6, <1>8, <1>10, <1>11, <1>15, <1>17
  <2>2. /\ p = Displaced(t2, home, D2[p])
        /\ D2[p] = 0 <=> p = home
        /\ t2.meta[p].first <=> p = home
        /\ t2.meta[p].frag = Frag[t2.key[p]]
        /\ D2[p] < t2.meta[p].next
    BY <1>5, <1>8, <1>12, <1>14, <2>1
  <2>3. /\ Link(t2, home, p) \in Chain(t2, S2, home)
        /\ D2[Link(t2, home, p)] = t2.meta[p].next
    BY <1>7, <1>9, <1>14, <1>18, <1>e
  <2>4. ASSUME NEW c \in Chain(t2, S2, home), D2[p] < D2[c]
        PROVE  t2.meta[p].next <= D2[c]
    <3>1. CASE c = e
      BY <1>1, <1>7, <1>14, <3>1
    <3>2. CASE c \in C
      <4>1. D[p] < D[c] /\ D[c] \in Nat /\ D2[c] = D[c]
        BY <1>13, <1>17, <2>1, <2>4, <3>2
      <4>2. ~(D[c] < d)
        BY <1>5, <1>12, <3>2, <4>1
      <4> QED  BY <1>1, <1>14, <4>1, <4>2
    <3> QED  BY <1>9, <3>1, <3>2
  <2> QED  BY <1>16, <2>1, <2>2, <2>3, <2>4 DEF InChain
<1>21. ASSUME NEW b \in C \ {p}
       PROVE  t2.key[b] \in Keys /\ InChain(t2, S2, D2, b)
  <2>1. /\ t2.meta[b] = t.meta[b] /\ t2.key[b] = t.key[b] /\ D2[b] = D[b]
        /\ Home(t2, t2.key[b]) = home /\ Home(t, t.key[b]) = home
        /\ b \in S /\ D[b] \in Nat /\ t.key[b] \in Keys
    BY <1>6, <1>8, <1>10, <1>13, <1>15, <1>17
  <2>2. InChain(t, S, D, b)
    BY <1>6, <2>1
  <2>3. /\ b = Displaced(t, home, D[b])
        /\ D[b] = 0 <=> b = home
        /\ t.meta[b].first <=> b = home
        /\ t.meta[b].frag = Frag[t.key[b]]
        /\ D[b] < t.meta[b].next
        /\ ~IsLast(t, b) => /\ Link(t, home, b) \in C
                            /\ D[Link(t, home, b)] = t.meta[b].next
        /\ \A c \in C : D[b] < D[c] => t.meta[b].next <= D[c]
    BY <2>1, <2>2 DEF InChain, C
  <2>4. ASSUME NEW c \in Chain(t2, S2, home), D2[b] < D2[c]
        PROVE  t2.meta[b].next <= D2[c]
    <3>1. CASE c = e
      <4>1. D[b] <= D[p]
        BY <1>5, <1>7, <2>1, <2>4, <3>1
      <4>2. D[b] # D[p]
        BY <1>12, <2>3
      <4>3. t.meta[b].next <= D[p]
        BY <1>5, <1>12, <2>1, <2>3, <4>1, <4>2
      <4>4. t.meta[b].next \in Nat
        <5>1. b \in 0 .. t.mask
          BY <1>6, <2>1
        <5> QED  BY <1>1, <5>1, TableIs
      <4> QED  BY <1>1, <1>5, <1>7, <1>12, <2>1, <3>1, <4>3, <4>4
    <3>2. CASE c \in C
      BY <1>17, <2>1, <2>3, <2>4, <3>2
    <3> QED  BY <1>9, <3>1, <3>2
  <2>5. ~IsLast(t2, b) => /\ Link(t2, home, b) \in Chain(t2, S2, home)
                          /\ D2[Link(t2, home, b)] = t2.meta[b].next
    BY <1>9, <1>17, <1>18, <2>1, <2>3
  <2>6. /\ b = Displaced(t2, home, D2[b])
        /\ D2[b] = 0 <=> b = home
        /\ t2.meta[b].first <=> b = home
        /\ t2.meta[b].frag = Frag[t2.key[b]]
        /\ D2[b] < t2.meta[b].next
    BY <1>8, <2>1, <2>3
  <2> QED  BY <1>16, <2>1, <2>4, <2>5, <2>6 DEF InChain
<1>22. ASSUME NEW b \in S \ C
       PROVE  t2.key[b] \in Keys /\ InChain(t2, S2, D2, b)
  <2> DEFINE h == Home(t, t.key[b])
  <2>1. h # home
    BY DEF C, Chain
  <2>2. Chain(t2, S2, h) = Chain(t, S, h) /\ Chain(t, S, h) \subseteq S
    BY <1>9, <2>1 DEF Chain
  <2>3. InChain(t, S, D, b) /\ t.key[b] \in Keys
    BY <1>6
  <2>4. t2.meta[b] = t.meta[b] /\ t2.key[b] = t.key[b] /\ D2[b] = D[b]
    BY <1>5, <1>7, <1>15
  <2>5. \A x \in Chain(t, S, h) : D2[x] = D[x]
    BY <1>7, <2>2
  <2>6. InChain(t2, S2, D2, b)
    BY <1>j, <2>2, <2>3, <2>4, <2>5, StaysInChain
  <2> QED  BY <2>3, <2>4, <2>6
<1>23. \A b \in S2 : t2.key[b] \in Keys /\ InChain(t2, S2, D2, b)
  BY <1>19, <1>20, <1>21, <1>22 DEF S2
<1> QED  BY <1>3, <1>6, <1>7, <1>23, <1>j DEF Threaded, D2, S2, e

\* Table t2 is t without the key in bucket c, the one after that of bucket p.
LeavesAfter(t, S, t2, p, c) ==
  /\ t2.mask = t.mask
  /\ \A x \in S \ {c} : t2.key[x] = t.key[x]
  /\ \A x \in S \ {c, p} : t2.meta[x] = t.meta[x]
  /\ t2.meta[p] = [t.meta[p] EXCEPT !.next = t.meta[c].next]

\* A key that is not at home is unlinked.
LEMMA CutThreaded ==
  ASSUME NEW t, IsTable(t), NEW S, NEW D, Threaded(t, S, D), NEW home,
         NEW c \in Chain(t, S, home), c # home,
         NEW p \in Chain(t, S, home), D[p] < D[c], t.meta[p].next = D[c],
         \A x \in Chain(t, S, home) : D[x] < D[c] => D[x] <= D[p],
         NEW t2, LeavesAfter(t, S, t2, p, c)
  PROVE  Threaded(t2, S \ {c}, D)
<1> DEFINE C == Chain(t, S, home)
           S2 == S \ {c}
<1>1. /\ t2.mask = t.mask
      /\ \A x \in S2 : t2.key[x] = t.key[x]
      /\ \A x \in S2 \ {p} : t2.meta[x] = t.meta[x]
      /\ t2.meta[p] = [t.meta[p] EXCEPT !.next = t.meta[c].next]
  BY DEF LeavesAfter
<1>2. DISPLACEMENT_LIMIT \in Nat
  BY LimitIs
<1>3. /\ D \in [0 .. t.mask -> Displacements] /\ S \subseteq 0 .. t.mask
      /\ \A b \in S : t.key[b] \in Keys /\ InChain(t, S, D, b)
  BY DEF Threaded
<1>4. /\ \A x : Home(t2, x) = Home(t, x)
      /\ \A h, x : Displaced(t2, h, x) = Displaced(t, h, x)
  BY <1>1, SameMask
<1>5. \A x \in C : /\ x \in S /\ x \in 0 .. t.mask /\ Home(t, t.key[x]) = home
                   /\ t.key[x] \in Keys
                   /\ D[x] \in Nat /\ t.meta[x].next \in Nat
                   /\ t.meta[x].next <= DISPLACEMENT_LIMIT
                   /\ D[x] < t.meta[x].next /\ D[x] < DISPLACEMENT_LIMIT
                   /\ x = Displaced(t, home, D[x])
                   /\ D[x] = 0 <=> x = home
                   /\ t.meta[x].first <=> x = home
                   /\ t.meta[x].frag = Frag[t.key[x]]
  <2> SUFFICES ASSUME NEW x \in C
               PROVE  /\ x \in S /\ x \in 0 .. t.mask /\ Home(t, t.key[x]) = home
                      /\ t.key[x] \in Keys
                      /\ D[x] \in Nat /\ t.meta[x].next \in Nat
                      /\ t.meta[x].next <= DISPLACEMENT_LIMIT
                      /\ D[x] < t.meta[x].next /\ D[x] < DISPLACEMENT_LIMIT
                      /\ x = Displaced(t, home, D[x])
                      /\ D[x] = 0 <=> x = home
                      /\ t.meta[x].first <=> x = home
                      /\ t.meta[x].frag = Frag[t.key[x]]
    OBVIOUS
  <2>1. /\ x \in S /\ x \in 0 .. t.mask /\ Home(t, t.key[x]) = home
        /\ t.key[x] \in Keys
        /\ D[x] \in Nat /\ t.meta[x].next \in Nat
        /\ t.meta[x].next <= DISPLACEMENT_LIMIT
        /\ D[x] < t.meta[x].next /\ D[x] <= DISPLACEMENT_LIMIT - 1
        /\ x = Displaced(t, home, D[x])
        /\ D[x] = 0 <=> x = home
        /\ t.meta[x].first <=> x = home
        /\ t.meta[x].frag = Frag[t.key[x]]
    BY MemberIs
  <2> QED  BY <1>2, <2>1
<1>6. /\ home \in C
      /\ \A x \in C : ~IsLast(t, x) => /\ Link(t, home, x) \in C
                                       /\ D[Link(t, home, x)] = t.meta[x].next
      /\ \A x, y \in C : D[x] < D[y] => t.meta[x].next <= D[y]
      /\ \A x, y \in C : D[x] = D[y] => x = y
  <2>1. home \in C
    BY MemberIs
  <2>2. \A x, y \in C : D[x] = D[y] => x = y
    BY OneAtEach
  <2>3. \A x \in C : ~IsLast(t, x) => /\ Link(t, home, x) \in C
                                      /\ D[Link(t, home, x)] = t.meta[x].next
    BY NextIs
  <2>4. \A x, y \in C : D[x] < D[y] => t.meta[x].next <= D[y]
    BY NextIs
  <2> HIDE DEF C
  <2> QED  BY <2>1, <2>2, <2>3, <2>4
<1>7. /\ Chain(t2, S2, home) = C \ {c}
      /\ \A h : h # home => Chain(t2, S2, h) = Chain(t, S, h)
  BY <1>1, <1>4, <1>5 DEF Chain
<1>8. p \in C /\ p # c /\ p \in S2 /\ c \in C /\ home \in C \ {c} /\ C \subseteq S
  BY <1>5, <1>6
<1>9. /\ t2.meta[p].next = t.meta[c].next /\ t2.meta[p].first = t.meta[p].first
      /\ t2.meta[p].frag = t.meta[p].frag
  <2>1. t.meta[p] \in [frag : 0 .. 15, first : BOOLEAN, next : 0 .. DISPLACEMENT_LIMIT]
    BY <1>5, <1>8, TableIs
  <2> QED  BY <1>1, <2>1
<1> HIDE DEF C
<1>10. \A x : /\ Link(t2, home, x) = Displaced(t, home, t2.meta[x].next)
              /\ Link(t, home, x) = Displaced(t, home, t.meta[x].next)
              /\ IsLast(t2, x) = (t2.meta[x].next = DISPLACEMENT_LIMIT)
              /\ IsLast(t, x) = (t.meta[x].next = DISPLACEMENT_LIMIT)
  BY <1>4 DEF Link, IsLast
<1>11. t2.key[p] \in Keys /\ InChain(t2, S2, D, p)
  <2>1. t2.key[p] = t.key[p] /\ t.key[p] \in Keys /\ Home(t2, t2.key[p]) = home
    BY <1>1, <1>4, <1>5, <1>8
  <2>2. /\ p = Displaced(t2, home, D[p])
        /\ D[p] = 0 <=> p = home
        /\ t2.meta[p].first <=> p = home
        /\ t2.meta[p].frag = Frag[t2.key[p]]
        /\ D[p] < t2.meta[p].next
    BY <1>4, <1>5, <1>8, <1>9, <2>1
  <2>3. ASSUME ~IsLast(t2, p)
        PROVE  /\ Link(t2, home, p) \in Chain(t2, S2, home)
               /\ D[Link(t2, home, p)] = t2.meta[p].next
    <3>1. ~IsLast(t, c) /\ Link(t2, home, p) = Link(t, home, c)
      BY <1>9, <1>10, <2>3
    <3>2. Link(t, home, c) \in C /\ D[Link(t, home, c)] = t.meta[c].next
      BY <1>6, <1>8, <3>1
    <3>3. Link(t, home, c) # c
      BY <1>5, <1>8, <3>2
    <3> QED  BY <1>7, <1>9, <3>1, <3>2, <3>3
  <2>4. ASSUME NEW x \in Chain(t2, S2, home), D[p] < D[x]
        PROVE  t2.meta[p].next <= D[x]
    <3>1. x \in C /\ x # c
      BY <1>7
    <3>2. D[c] <= D[x] /\ D[x] # D[c]
      BY <1>6, <1>8, <2>4, <3>1
    <3>3. D[c] < D[x]
      BY <1>5, <1>8, <3>1, <3>2
    <3> QED  BY <1>6, <1>8, <1>9, <3>1, <3>3
  <2> QED  BY <1>7, <1>8, <2>1, <2>2, <2>3, <2>4 DEF InChain
<1>12. ASSUME NEW b \in C \ {c, p}
       PROVE  t2.key[b] \in Keys /\ InChain(t2, S2, D, b)
  <2>1. /\ t2.meta[b] = t.meta[b] /\ t2.key[b] = t.key[b] /\ t.key[b] \in Keys
        /\ Home(t2, t2.key[b]) = home /\ b \in S
    BY <1>1, <1>4, <1>5
  <2>2. /\ b = Displaced(t2, home, D[b])
        /\ D[b] = 0 <=> b = home
        /\ t2.meta[b].first <=> b = home
        /\ t2.meta[b].frag = Frag[t2.key[b]]
        /\ D[b] < t2.meta[b].next
    BY <1>4, <1>5, <2>1
  <2>3. ASSUME ~IsLast(t2, b)
        PROVE  /\ Link(t2, home, b) \in Chain(t2, S2, home)
               /\ D[Link(t2, home, b)] = t2.meta[b].next
    <3>1. ~IsLast(t, b) /\ Link(t2, home, b) = Link(t, home, b)
      BY <1>10, <2>1, <2>3
    <3>2. Link(t, home, b) \in C /\ D[Link(t, home, b)] = t.meta[b].next
      BY <1>6, <3>1
    <3>3. Link(t, home, b) # c
      <4> SUFFICES ASSUME t.meta[b].next = D[c]
                   PROVE  FALSE
        BY <3>2
      <4>1. D[b] <= D[p]
        <5>1. D[b] < D[c]
          BY <1>5
        <5> QED  BY <5>1 DEF C
      <4>2. D[b] # D[p]
        BY <1>6, <1>8
      <4>3. D[b] < D[p]
        BY <1>5, <1>8, <4>1, <4>2
      <4>4. t.meta[b].next <= D[p]
        BY <1>6, <1>8, <4>3
      <4> QED  BY <1>5, <1>8, <4>4
    <3> QED  BY <1>7, <2>1, <3>1, <3>2, <3>3
  <2>4. ASSUME NEW x \in Chain(t2, S2, home), D[b] < D[x]
        PROVE  t2.meta[b].next <= D[x]
    BY <1>6, <1>7, <2>1, <2>4
  <2> QED  BY <1>7, <1>8, <2>1, <2>2, <2>3, <2>4 DEF InChain
<1>13. ASSUME NEW b \in S \ C
       PROVE  t2.key[b] \in Keys /\ InChain(t2, S2, D, b)
  <2> DEFINE h == Home(t, t.key[b])
  <2>1. h # home
    BY DEF C, Chain
  <2>2. Chain(t2, S2, h) = Chain(t, S, h)
    BY <1>7, <2>1
  <2>3. InChain(t, S, D, b) /\ t.key[b] \in Keys
    BY <1>3
  <2>4. t2.meta[b] = t.meta[b] /\ t2.key[b] = t.key[b]
    BY <1>1, <1>8
  <2>5. InChain(t2, S2, D, b)
    BY <1>1, <2>2, <2>3, <2>4, StaysInChain
  <2> QED  BY <2>3, <2>4, <2>5
<1>14. \A b \in S2 : t2.key[b] \in Keys /\ InChain(t2, S2, D, b)
  BY <1>11, <1>12, <1>13
<1> QED  BY <1>1, <1>3, <1>14 DEF Threaded

\* Table t2 is t with key k alone in the chain of home.
StartsAt(t, S, t2, home, k) ==
  /\ t2.mask = t.mask
  /\ t2.key[home] = k /\ \A x \in S : t2.key[x] = t.key[x]
  /\ \A x \in S : t2.meta[x] = t.meta[x]
  /\ t2.meta[home] = [frag |-> Frag[k], first |-> TRUE,
                      next |-> DISPLACEMENT_LIMIT]

\* A key comes home.
LEMMA HomeThreaded ==
  ASSUME NEW t, IsTable(t), NEW S, NEW D, Threaded(t, S, D),
         NEW k \in Keys, Home(t, k) \notin S,
         NEW t2, StartsAt(t, S, t2, Home(t, k), k)
  PROVE  Threaded(t2, S \cup {Home(t, k)}, [D EXCEPT ![Home(t, k)] = 0])
<1> DEFINE home == Home(t, k)
           S2 == S \cup {home}
           D2 == [D EXCEPT ![home] = 0]
<1>1. /\ t2.mask = t.mask
      /\ t2.key[home] = k /\ \A x \in S : t2.key[x] = t.key[x]
      /\ \A x \in S : t2.meta[x] = t.meta[x]
      /\ t2.meta[home] = [frag |-> Frag[k], first |-> TRUE,
                          next |-> DISPLACEMENT_LIMIT]
  BY DEF StartsAt
<1>2. t.mask \in Nat /\ home \in 0 .. t.mask /\ home \notin S
  BY TableIs, HomeIs
<1>3. /\ D \in [0 .. t.mask -> Displacements] /\ S \subseteq 0 .. t.mask
      /\ \A b \in S : t.key[b] \in Keys /\ InChain(t, S, D, b)
  BY DEF Threaded
<1>4. /\ \A x : Home(t2, x) = Home(t, x)
      /\ \A h, x : Displaced(t2, h, x) = Displaced(t, h, x)
  BY <1>1, SameMask
<1>5. \A b \in S : Home(t, t.key[b]) # home
  <2> SUFFICES ASSUME NEW b \in S, Home(t, t.key[b]) = home
               PROVE  FALSE
    OBVIOUS
  <2>1. home \in Chain(t, S, home)
    BY <1>3 DEF InChain
  <2> QED  BY <1>2, <2>1 DEF Chain
<1>6. /\ D2 \in [0 .. t.mask -> Displacements] /\ D2[home] = 0
      /\ \A x \in S : D2[x] = D[x]
  BY <1>2, <1>3, LimitIs DEF Displacements
<1>7. Home(t2, t2.key[home]) = home /\ home = Displaced(t2, home, 0)
  BY <1>1, <1>2, <1>4, NotDisplaced
<1>8. /\ Chain(t2, S2, home) = {home}
      /\ \A h : h # home => Chain(t2, S2, h) = Chain(t, S, h)
  BY <1>1, <1>4, <1>5, <1>7 DEF Chain
<1> HIDE DEF home, D2
<1>9. t2.key[home] \in Keys /\ InChain(t2, S2, D2, home)
  <2>1. IsLast(t2, home) /\ t2.meta[home].first /\ t2.meta[home].frag = Frag[k]
        /\ 0 < t2.meta[home].next
    BY <1>1, LimitIs DEF IsLast
  <2>2. /\ home \in Chain(t2, S2, home)
        /\ home = Displaced(t2, home, D2[home])
        /\ D2[home] = 0 /\ D2[home] < t2.meta[home].next
        /\ t2.meta[home].frag = Frag[t2.key[home]]
    BY <1>1, <1>6, <1>7, <1>8, <2>1
  <2>4. \A c \in Chain(t2, S2, home) : ~(D2[home] < D2[c])
    <3>1. \A c \in Chain(t2, S2, home) : D2[c] = 0
      BY <1>6, <1>8
    <3> QED  BY <2>2, <3>1
  <2>3. t2.key[home] \in Keys
    BY <1>1
  <2> QED  BY <1>7, <2>1, <2>2, <2>3, <2>4 DEF InChain
<1>10. ASSUME NEW b \in S
       PROVE  t2.key[b] \in Keys /\ InChain(t2, S2, D2, b)
  <2> DEFINE h == Home(t, t.key[b])
  <2>1. Chain(t2, S2, h) = Chain(t, S, h) /\ Chain(t, S, h) \subseteq S
    BY <1>5, <1>8 DEF Chain
  <2>2. InChain(t, S, D, b) /\ t.key[b] \in Keys
    BY <1>3
  <2>3. t2.meta[b] = t.meta[b] /\ t2.key[b] = t.key[b] /\ D2[b] = D[b]
    BY <1>1, <1>6
  <2>4. \A x \in Chain(t, S, h) : D2[x] = D[x]
    BY <1>6, <2>1
  <2>5. InChain(t2, S2, D2, b)
    BY <1>1, <2>1, <2>2, <2>3, <2>4, StaysInChain
  <2> QED  BY <2>2, <2>3, <2>5
<1>11. \A b \in S2 : t2.key[b] \in Keys /\ InChain(t2, S2, D2, b)
  BY <1>9, <1>10
<1> QED  BY <1>1, <1>2, <1>3, <1>6, <1>11 DEF Threaded, home, D2

\* The only key of a chain goes.
LEMMA AloneThreaded ==
  ASSUME NEW t, IsTable(t), NEW S, NEW D, Threaded(t, S, D), NEW home,
         home \in Chain(t, S, home), IsLast(t, home),
         NEW t2, t2.mask = t.mask,
         \A x \in S \ {home} : t2.key[x] = t.key[x] /\ t2.meta[x] = t.meta[x]
  PROVE  Threaded(t2, S \ {home}, D)
<1> DEFINE S2 == S \ {home}
<1>1. /\ D \in [0 .. t.mask -> Displacements] /\ S \subseteq 0 .. t.mask
      /\ \A b \in S : t.key[b] \in Keys /\ InChain(t, S, D, b)
  BY DEF Threaded
<1>2. Chain(t, S, home) = {home}
  <2> SUFFICES ASSUME NEW c \in Chain(t, S, home), c # home
               PROVE  FALSE
    OBVIOUS
  <2>1. /\ D[home] \in Nat /\ D[home] = 0 /\ D[c] \in Nat /\ D[c] # 0
        /\ D[c] <= DISPLACEMENT_LIMIT - 1
    BY MemberIs
  <2>2. t.meta[home].next <= D[c]
    <3>1. \A x \in Chain(t, S, home) : D[home] < D[x] => t.meta[home].next <= D[x]
      BY NextIs
    <3> QED  BY <2>1, <3>1
  <2> QED  BY <2>1, <2>2, LimitIs DEF IsLast
<1>3. \A b \in S2 : Home(t, t.key[b]) # home
  BY <1>2 DEF Chain
<1>4. \A h : h # home => Chain(t2, S2, h) = Chain(t, S, h)
  <2>1. \A x : Home(t2, x) = Home(t, x)
    BY SameMask
  <2>2. Home(t, t.key[home]) = home
    BY DEF Chain
  <2> QED  BY <2>1, <2>2 DEF Chain
<1>5. ASSUME NEW b \in S2
      PROVE  t2.key[b] \in Keys /\ InChain(t2, S2, D, b)
  <2>1. Chain(t2, S2, Home(t, t.key[b])) = Chain(t, S, Home(t, t.key[b]))
    BY <1>3, <1>4
  <2>2. InChain(t, S, D, b) /\ t.key[b] \in Keys
    BY <1>1
  <2>3. InChain(t2, S2, D, b)
    BY <2>1, <2>2, StaysInChain
  <2> QED  BY <2>2, <2>3
<1> QED  BY <1>1, <1>5 DEF Threaded

\* A key takes the place of another one of its chain.
LEMMA MoveThreaded ==
  ASSUME NEW t, IsTable(t), NEW S, NEW D, Threaded(t, S, D), NEW home,
         NEW b \in Chain(t, S, home), NEW last \in Chain(t, S, home)
  PROVE  /\ Threaded(MoveTo(t, b, last), S, D)
         /\ \A h : Chain(MoveTo(t, b, last), S, h) = Chain(t, S, h)
<1> DEFINE t2 == MoveTo(t, b, last)
<1>1. /\ D \in [0 .. t.mask -> Displacements] /\ S \subseteq 0 .. t.mask
      /\ \A x \in S : t.key[x] \in Keys /\ InChain(t, S, D, x)
  BY DEF Threaded
<1>2. /\ b \in S /\ last \in S /\ b \in 0 .. t.mask /\ last \in 0 .. t.mask
      /\ Home(t, t.key[b]) = home /\ Home(t, t.key[last]) = home
      /\ t.meta[last].frag = Frag[t.key[last]]
  BY MemberIs
<1>3. /\ t2.mask = t.mask
      /\ t2.key = [t.key EXCEPT ![b] = t.key[last]]
      /\ t2.meta = [t.meta EXCEPT ![b] = [t.meta[b] EXCEPT !.frag = t.meta[last].frag]]
  <2>1. t \in [mask : Nat, count : Nat,
               key  : [0 .. t.mask -> Keys \cup {Garbage}],
               meta : [0 .. t.mask -> [frag : 0 .. 15, first : BOOLEAN,
                                       next : 0 .. DISPLACEMENT_LIMIT]]]
    BY DEF IsTable
  <2> QED  BY <2>1 DEF MoveTo
<1>4. /\ \A x \in S \ {b} : t2.key[x] = t.key[x] /\ t2.meta[x] = t.meta[x]
      /\ t2.key[b] = t.key[last] /\ t2.meta[b].frag = t.meta[last].frag
      /\ t2.meta[b].first = t.meta[b].first /\ t2.meta[b].next = t.meta[b].next
  <2>1. t.key \in [0 .. t.mask -> Keys \cup {Garbage}]
        /\ t.meta \in [0 .. t.mask -> [frag : 0 .. 15, first : BOOLEAN,
                                       next : 0 .. DISPLACEMENT_LIMIT]]
    BY TableIs
  <2> HIDE DEF t2
  <2>2. t2.meta[b] = [t.meta[b] EXCEPT !.frag = t.meta[last].frag]
    BY <1>2, <1>3, <2>1
  <2>3. t.meta[b] \in [frag : 0 .. 15, first : BOOLEAN, next : 0 .. DISPLACEMENT_LIMIT]
    BY <1>2, <2>1
  <2>4. /\ t2.meta[b].frag = t.meta[last].frag
        /\ t2.meta[b].first = t.meta[b].first /\ t2.meta[b].next = t.meta[b].next
    BY <2>2, <2>3
  <2>5. \A x \in S \ {b} : t2.key[x] = t.key[x] /\ t2.meta[x] = t.meta[x]
    BY <1>1, <1>3, <2>1
  <2>6. t2.key[b] = t.key[last]
    BY <1>2, <1>3, <2>1
  <2> QED  BY <2>4, <2>5, <2>6
<1> HIDE DEF t2
<1>5. /\ \A x : Home(t2, x) = Home(t, x)
      /\ \A h, x : Displaced(t2, h, x) = Displaced(t, h, x)
  BY <1>3, SameMask
<1>6. \A x \in S : /\ Home(t2, t2.key[x]) = Home(t, t.key[x])
                   /\ t2.meta[x].first = t.meta[x].first
                   /\ t2.meta[x].next = t.meta[x].next
  BY <1>2, <1>4, <1>5
<1>7. \A h : Chain(t2, S, h) = Chain(t, S, h)
  BY <1>6 DEF Chain
<1>8. ASSUME NEW x \in S
      PROVE  t2.key[x] \in Keys /\ InChain(t2, S, D, x)
  <2> DEFINE h == Home(t, t.key[x])
  <2>1. InChain(t, S, D, x) /\ t.key[x] \in Keys /\ Home(t2, t2.key[x]) = h
    BY <1>1, <1>6
  <2>2. t2.key[x] \in Keys /\ t2.meta[x].frag = Frag[t2.key[x]]
    BY <1>1, <1>2, <1>4, <2>1 DEF InChain
  <2>3. IsLast(t2, x) = IsLast(t, x) /\ Link(t2, h, x) = Link(t, h, x)
    BY <1>5, <1>6 DEF IsLast, Link
  <2> HIDE DEF h
  <2>4. /\ h \in Chain(t, S, h)
        /\ x = Displaced(t, h, D[x])
        /\ D[x] = 0 <=> x = h
        /\ t.meta[x].first <=> x = h
        /\ D[x] < t.meta[x].next
        /\ ~IsLast(t, x) => /\ Link(t, h, x) \in Chain(t, S, h)
                            /\ D[Link(t, h, x)] = t.meta[x].next
        /\ \A c \in Chain(t, S, h) : D[x] < D[c] => t.meta[x].next <= D[c]
    BY <2>1 DEF InChain, h
  <2> QED  BY <1>5, <1>6, <1>7, <2>1, <2>2, <2>3, <2>4 DEF InChain
<1>9. Threaded(t2, S, D)
  BY <1>1, <1>3, <1>8 DEF Threaded
<1> QED  BY <1>7, <1>9 DEF t2

-----------------------------------------------------------------------------
(* The functions of a table.                                               *)

LEMMA OccupiedIs ==
  ASSUME NEW t, IsTable(t)
  PROVE  /\ Occupied(t) \subseteq 0 .. t.mask /\ IsFiniteSet(Occupied(t))
         /\ \A b : b \in Occupied(t) <=> b \in 0 .. t.mask /\ t.meta[b] # Empty
         /\ \A b \in 0 .. t.mask : t.meta[b].first => b \in Occupied(t)
<1>1. t.mask \in Nat
  BY TableIs
<1>2. IsFiniteSet(0 .. t.mask)
  BY <1>1, FS_Interval
<1>3. /\ Occupied(t) \subseteq 0 .. t.mask
      /\ \A b : b \in Occupied(t) <=> b \in 0 .. t.mask /\ t.meta[b] # Empty
  BY DEF Occupied
<1>4. IsFiniteSet(Occupied(t))
  BY <1>2, <1>3, FS_Subset
<1>5. \A b \in 0 .. t.mask : t.meta[b].first => b \in Occupied(t)
  BY <1>3 DEF Empty
<1> QED  BY <1>3, <1>4, <1>5

\* Chains have ends.
LEMMA LastIs ==
  ASSUME NEW t, IsTable(t), NEW S, NEW D, Threaded(t, S, D),
         NEW home, NEW b \in Chain(t, S, home)
  PROVE  \E z \in Chain(t, S, home) :
           IsLast(t, z) /\ \A x \in Chain(t, S, home) : D[x] <= D[z]
<1> DEFINE C == Chain(t, S, home)
           Ds == {D[x] : x \in C}
           l == DISPLACEMENT_LIMIT - 1
<1>1. \A x \in C : D[x] \in Nat /\ D[x] <= l
  BY MemberIs
<1>2. l \in Nat
  BY LimitIs
<1>3. Ds \in SUBSET (0 .. l) /\ Ds # {}
  <2>1. \A x \in C : D[x] \in 0 .. l
    BY <1>1, <1>2
  <2>2. b \in C
    OBVIOUS
  <2> HIDE DEF C, l
  <2> QED  BY <2>1, <2>2, Zenon
<1>4. PICK m \in Ds : \A y \in Ds : y <= m
  <2> HIDE DEF Ds, l
  <2> QED  BY <1>2, <1>3, GreatestElement
<1>5. PICK z \in C : D[z] = m
  BY <1>4
<1>6. \A x \in C : D[x] <= D[z]
  BY <1>4, <1>5
<1>7. IsLast(t, z)
  <2> SUFFICES ASSUME ~IsLast(t, z)
               PROVE  FALSE
    OBVIOUS
  <2>1. Link(t, home, z) \in C /\ D[Link(t, home, z)] = t.meta[z].next
    BY NextIs
  <2>2. D[z] < t.meta[z].next /\ t.meta[z].next \in Nat /\ D[z] \in Nat
    BY MemberIs
  <2>3. t.meta[z].next <= D[z]
    BY <1>6, <2>1
  <2> QED  BY <2>2, <2>3
<1> QED  BY <1>6, <1>7

\* All before the last one point on.
LEMMA NotLast ==
  ASSUME NEW t, IsTable(t), NEW S, NEW D, Threaded(t, S, D), NEW home,
         NEW x \in Chain(t, S, home), NEW c \in Chain(t, S, home), D[x] < D[c]
  PROVE  ~IsLast(t, x)
<1>1. t.meta[x].next <= D[c]
  BY NextIs
<1>2. D[c] \in Nat /\ D[c] <= DISPLACEMENT_LIMIT - 1
  BY MemberIs
<1> QED  BY <1>1, <1>2, LimitIs DEF IsLast

\* A bucket whose home flag is set starts the chain of its own place.
LEMMA FirstIs ==
  ASSUME NEW t, IsTable(t), NEW D, Threaded(t, Occupied(t), D),
         NEW home \in 0 .. t.mask
  PROVE  t.meta[home].first <=> Chain(t, Occupied(t), home) # {}
<1> DEFINE Occ == Occupied(t)
<1>1. ASSUME t.meta[home].first
      PROVE  home \in Chain(t, Occ, home)
  <2>1. home \in Occ
    BY <1>1, OccupiedIs
  <2>2. InChain(t, Occ, D, home)
    BY <2>1 DEF Threaded
  <2>3. home = Home(t, t.key[home])
    BY <1>1, <2>2 DEF InChain
  <2> QED  BY <2>1, <2>3 DEF Chain
<1>2. ASSUME NEW c \in Chain(t, Occ, home)
      PROVE  t.meta[home].first
  <2>1. home \in Chain(t, Occ, home)
    BY MemberIs
  <2> QED  BY <2>1, MemberIs
<1> QED  BY <1>1, <1>2

\* _get finds the bucket of a key.
LEMMA GetIs ==
  ASSUME NEW t, Stored(t), Linked(t), NEW k \in Keys
  PROVE  get(t, k) = {b \in Occupied(t) : t.key[b] = k}
<1> DEFINE Occ == Occupied(t)
           home == Home(t, k)
           C == Chain(t, Occ, home)
           Goal == LastOnes(t) \cup {x \in 0 .. t.mask : Matches(t, x, k)}
           b == WalkTo(t, home, home, Goal)
           Held == {x \in Occ : t.key[x] = k}
<1>1. PICK D : Threaded(t, Occ, D)
  BY DEF Linked
<1>2. IsTable(t) /\ \A x, y \in Occ : t.key[x] = t.key[y] => x = y
  BY DEF Stored
<1>3. home \in 0 .. t.mask /\ t.mask \in Nat
  BY <1>2, TableIs, HomeIs
<1>4. get(t, k) = IF t.meta[home].first /\ Matches(t, b, k) THEN {b} ELSE {}
  BY DEF get
<1>5. t.meta[home].first <=> C # {}
  BY <1>1, <1>2, <1>3, FirstIs
<1>6. Held \subseteq C
  BY DEF Chain
<1>7. CASE C = {}
  BY <1>4, <1>5, <1>6, <1>7
<1>8. CASE C # {}
  <2>1. home \in C
    BY <1>1, <1>2, <1>8, MemberIs
  <2>2. \A x \in C : /\ x \in Occ /\ x \in 0 .. t.mask /\ D[x] \in Nat
                     /\ D[home] <= D[x] /\ t.meta[x].frag = Frag[t.key[x]]
    <3>1. \A x \in C : /\ x \in Occ /\ x \in 0 .. t.mask /\ D[x] \in Nat
                       /\ t.meta[x].frag = Frag[t.key[x]]
      BY <1>1, <1>2, MemberIs
    <3>2. D[home] = 0
      BY <1>1, <1>2, <2>1, MemberIs
    <3> HIDE DEF C
    <3> QED  BY <3>1, <3>2
  <2>3. CASE Held = {}
    <3>1. PICK z \in C : IsLast(t, z) /\ \A x \in C : D[x] <= D[z]
      <4> HIDE DEF home
      <4> QED  BY <1>1, <1>2, <2>1, LastIs
    <3>2. z \in Goal
      BY <2>2, <3>1 DEF LastOnes
    <3>3. \A x \in C : ~Matches(t, x, k)
      BY <2>2, <2>3 DEF Matches
    <3>4. ASSUME NEW x \in C, D[x] < D[z]
          PROVE  x \notin Goal
      <4>1. ~IsLast(t, x)
        BY <1>1, <1>2, <3>4, NotLast
      <4> QED  BY <3>3, <4>1 DEF LastOnes
    <3>5. b = z
      <4> HIDE DEF Goal, home
      <4> QED  BY <1>1, <1>2, <2>1, <2>2, <3>2, <3>4, WalkToIs
    <3>6. ~Matches(t, b, k)
      BY <3>1, <3>3, <3>5
    <3> HIDE DEF b
    <3> QED  BY <1>4, <2>3, <3>6, Zenon
  <2>4. CASE Held # {}
    <3>1. PICK c \in Held : TRUE
      BY <2>4
    <3>2. c \in C /\ t.key[c] = k /\ c \in Occ
      BY <1>6, <3>1
    <3>3. Matches(t, c, k)
      BY <2>2, <3>2 DEF Matches
    <3>4. c \in Goal
      BY <2>2, <3>2, <3>3
    <3>5. ASSUME NEW x \in C, D[x] < D[c]
          PROVE  x \notin Goal
      <4>1. ~IsLast(t, x)
        BY <1>1, <1>2, <3>2, <3>5, NotLast
      <4>2. x # c
        BY <2>2, <3>2, <3>5
      <4>3. ~Matches(t, x, k)
        BY <1>2, <2>2, <3>2, <4>2 DEF Matches
      <4> QED  BY <4>1, <4>3 DEF LastOnes
    <3>6. b = c
      <4> HIDE DEF Goal, home
      <4> QED  BY <1>1, <1>2, <2>1, <2>2, <3>2, <3>4, <3>5, WalkToIs
    <3>7. Held = {c}
      BY <1>2, <3>2
    <3>8. t.meta[home].first /\ Matches(t, b, k)
      BY <1>5, <1>8, <3>3, <3>6
    <3> HIDE DEF b
    <3> QED  BY <1>4, <3>6, <3>7, <3>8, Zenon
  <2> QED  BY <2>3, <2>4
<1> QED  BY <1>7, <1>8

\* _find_first_empty.
LEMMA FirstEmptyIs ==
  ASSUME NEW t, NEW home, find_first_empty(t, home) # 0
  PROVE  LET d == find_first_empty(t, home)
         IN  /\ d \in 1 .. DISPLACEMENT_LIMIT - 1
             /\ t.meta[Displaced(t, home, d)] = Empty
<1> DEFINE free == {d \in 1 .. DISPLACEMENT_LIMIT - 1 :
                      t.meta[Displaced(t, home, d)] = Empty}
<1>1. free # {} /\ find_first_empty(t, home) = Min(free)
  BY DEF find_first_empty
<1>2. free \in SUBSET Nat
  BY LimitIs
<1>3. Min(free) \in free
  <2> HIDE DEF free
  <2> QED  BY <1>1, <1>2, MinIs
<1> QED  BY <1>1, <1>3

Metadata == [frag : 0 .. 15, first : BOOLEAN, next : 0 .. DISPLACEMENT_LIMIT]

\* A table with other contents.
With(t, kk, mm, c) == [t EXCEPT !.key = kk, !.meta = mm, !.count = c]

LEMMA Changed ==
  ASSUME NEW t, IsTable(t), NEW c \in Nat,
         NEW kk \in [0 .. t.mask -> Keys \cup {Garbage}],
         NEW mm \in [0 .. t.mask -> Metadata]
  PROVE  LET t2 == With(t, kk, mm, c)
         IN  /\ IsTable(t2) /\ t2.mask = t.mask
             /\ t2.count = c /\ t2.key = kk /\ t2.meta = mm
<1> DEFINE t2 == With(t, kk, mm, c)
<1>1. t \in [mask : Nat, count : Nat,
             key  : [0 .. t.mask -> Keys \cup {Garbage}],
             meta : [0 .. t.mask -> Metadata]]
  BY DEF IsTable, Metadata
<1>2. /\ t2.mask = t.mask /\ t2.count = c /\ t2.key = kk /\ t2.meta = mm
      /\ t2 = [mask |-> t.mask, count |-> c, key |-> kk, meta |-> mm]
  <2>1. t = [mask |-> t.mask, count |-> t.count, key |-> t.key, meta |-> t.meta]
    BY <1>1
  <2>2. t2 = [[mask |-> t.mask, count |-> t.count, key |-> t.key, meta |-> t.meta]
                EXCEPT !.key = kk, !.meta = mm, !.count = c]
    BY <2>1 DEF With
  <2> HIDE DEF t2
  <2>3. t2 = [mask |-> t.mask, count |-> c, key |-> kk, meta |-> mm]
    BY <2>2
  <2> QED  BY <2>3
<1> HIDE DEF t2
<1>3. t.mask # 0 => t.mask >= 7 /\ PowerOfTwo(t.mask + 1)
  BY DEF IsTable
<1>4. t.mask \in Nat
  BY TableIs
<1>5. t2 \in [mask : Nat, count : Nat,
              key  : [0 .. t2.mask -> Keys \cup {Garbage}],
              meta : [0 .. t2.mask -> Metadata]]
  BY <1>2, <1>4
<1> QED  BY <1>2, <1>3, <1>5 DEF IsTable, Metadata, t2

\* Table t with key k in the chain of its home, and a count of c.
WithJoined(t, k, c) ==
  LET home == Home(t, k)
      d == find_first_empty(t, home)
  IN  With(t, [t.key EXCEPT ![Displaced(t, home, d)] = k],
              Joined(t, home, d, Frag[k]), c)

\* Table t2 is t with key k added in the empty bucket e, and a count of c; its
\* chains are threaded through S and e.
Gains(t, S, k, c, t2, e) ==
  /\ e \in 0 .. t.mask /\ e \notin Occupied(t)
  /\ IsTable(t2) /\ t2.mask = t.mask /\ t2.count = c
  /\ t2.key = [t.key EXCEPT ![e] = k]
  /\ Occupied(t2) = Occupied(t) \cup {e}
  /\ \A x \in (0 .. t.mask) \ (S \cup {e}) : t2.meta[x] = t.meta[x]
  /\ \E D2 : Threaded(t2, S \cup {e}, D2)

\* A key joins a chain in the earliest empty bucket.
LEMMA JoinIs ==
  ASSUME NEW t, IsTable(t), NEW S, NEW D, Threaded(t, S, D),
         S \subseteq Occupied(t), NEW k \in Keys,
         Home(t, k) \in Chain(t, S, Home(t, k)), NEW c \in Nat,
         find_first_empty(t, Home(t, k)) # 0,
         NEW t2, t2 = WithJoined(t, k, c)
  PROVE  \E e : Gains(t, S, k, c, t2, e)
<1> DEFINE home == Home(t, k)
           d == find_first_empty(t, home)
           e == Displaced(t, home, d)
           p == insert_location(t, home, d)
           kk == [t.key EXCEPT ![e] = k]
           mm == Joined(t, home, d, Frag[k])
<1>1. d \in 1 .. DISPLACEMENT_LIMIT - 1 /\ t.meta[e] = Empty
  BY FirstEmptyIs
<1>2. d \in Nat /\ 0 < d /\ d <= DISPLACEMENT_LIMIT
  BY <1>1, LimitIs
<1>3. home \in Chain(t, S, home) /\ home \in 0 .. t.mask /\ t.mask \in Nat
  BY TableIs, HomeIs
<1>4. e \in 0 .. t.mask
  BY <1>2, <1>3, DisplacedIs
<1>5. e \notin Occupied(t) /\ e \notin S
  BY <1>1, OccupiedIs
<1>6. \A x \in Chain(t, S, home) : D[x] # d
  <2> SUFFICES ASSUME NEW x \in Chain(t, S, home), D[x] = d
               PROVE  FALSE
    OBVIOUS
  <2>1. x \in S /\ x = Displaced(t, home, D[x])
    <3> HIDE DEF home, d
    <3> QED  BY MemberIs
  <2> HIDE DEF home, d
  <2> QED  BY <1>5, <2>1
<1>7. p \in Chain(t, S, home) /\ d < t.meta[p].next
  <2> HIDE DEF home, d
  <2> QED  BY <1>1, <1>3, <1>6, InsertLocationIs
<1>8. p \in S /\ p \in 0 .. t.mask /\ p # e
  BY <1>5, <1>7 DEF Chain, Threaded
<1>9. t.key \in [0 .. t.mask -> Keys \cup {Garbage}] /\ t.meta \in [0 .. t.mask -> Metadata]
  BY TableIs DEF Metadata
<1>10. mm = [t.meta EXCEPT ![e] = [frag |-> Frag[k], first |-> FALSE,
                                   next |-> t.meta[p].next],
                           ![p].next = d]
  BY DEF Joined
<1>11. Frag[k] \in 0 .. 15
  BY VerstableAssumption
<1>12. t2 = With(t, kk, mm, c)
  BY DEF WithJoined
<1> HIDE DEF e, p, d, home, mm
<1>13. t.meta[p] \in Metadata
  BY <1>8, <1>9
<1>14. kk \in [0 .. t.mask -> Keys \cup {Garbage}]
  BY <1>4, <1>9
<1>15. t.meta[p].next \in 0 .. DISPLACEMENT_LIMIT /\ d \in 0 .. DISPLACEMENT_LIMIT
  BY <1>2, <1>13 DEF Metadata
<1>16. /\ mm \in [0 .. t.mask -> Metadata]
       /\ mm[e] = [frag |-> Frag[k], first |-> FALSE, next |-> t.meta[p].next]
       /\ mm[p] = [t.meta[p] EXCEPT !.next = d]
       /\ \A x \in (0 .. t.mask) \ {e, p} : mm[x] = t.meta[x]
  <2> DEFINE m1 == [frag |-> Frag[k], first |-> FALSE, next |-> t.meta[p].next]
             m2 == [t.meta[p] EXCEPT !.next = d]
  <2>1. m1 \in Metadata
    BY <1>11, <1>15 DEF Metadata
  <2>2. m2 \in Metadata
    BY <1>13, <1>15 DEF Metadata
  <2>3. mm = [[t.meta EXCEPT ![e] = m1] EXCEPT ![p] = m2]
    BY <1>4, <1>8, <1>9, <1>10
  <2> HIDE DEF m1, m2
  <2>4. mm = [x \in 0 .. t.mask |-> IF x = p THEN m2 ELSE IF x = e THEN m1 ELSE t.meta[x]]
    BY <1>4, <1>8, <1>9, <2>3
  <2>5. \A x \in 0 .. t.mask :
          mm[x] = IF x = p THEN m2 ELSE IF x = e THEN m1 ELSE t.meta[x]
    BY <2>4
  <2>6. mm \in [0 .. t.mask -> Metadata]
    BY <1>9, <2>1, <2>2, <2>4
  <2>7. mm[e] = m1 /\ mm[p] = m2 /\ \A x \in (0 .. t.mask) \ {e, p} : mm[x] = t.meta[x]
    BY <1>4, <1>8, <2>5
  <2> QED  BY <2>6, <2>7 DEF m1, m2
<1>17. /\ IsTable(t2) /\ t2.mask = t.mask
       /\ t2.count = c /\ t2.key = kk /\ t2.meta = mm
  <2>1. mm \in [0 .. t.mask -> Metadata]
    BY <1>16
  <2> HIDE DEF kk
  <2> QED  BY <1>12, <1>14, <2>1, Changed
<1>18. /\ t2.key[e] = k /\ \A x \in S : t2.key[x] = t.key[x]
       /\ \A x \in S \ {p} : t2.meta[x] = t.meta[x]
  <2>1. S \subseteq 0 .. t.mask
    BY DEF Threaded
  <2>2. t2.key[e] = k /\ \A x \in S : t2.key[x] = t.key[x]
    BY <1>4, <1>5, <1>9, <1>17, <2>1
  <2>3. \A x \in S \ {p} : t2.meta[x] = t.meta[x]
    BY <1>5, <1>16, <1>17, <2>1
  <2> QED  BY <2>2, <2>3
<1>19. JoinsAfter(t, S, t2, p, d, e, k)
  BY <1>16, <1>17, <1>18 DEF JoinsAfter
<1>20. Threaded(t2, S \cup {e}, [D EXCEPT ![e] = d])
  <2>1. e = Displaced(t, home, d) /\ p = insert_location(t, home, d) /\ Home(t, k) = home
    BY DEF e, p, home
  <2>2. Displaced(t, home, d) \notin S
    BY <1>5, <2>1
  <2>3. JoinsAfter(t, S, t2, insert_location(t, home, d), d, Displaced(t, home, d), k)
    BY <1>19, <2>1
  <2>4. LET ee == Displaced(t, home, d)
        IN  Threaded(t2, S \cup {ee}, [D EXCEPT ![ee] = d])
    BY <1>1, <1>3, <2>1, <2>2, <2>3, JoinThreaded
  <2> QED  BY <2>1, <2>4
<1>21. Occupied(t2) = Occupied(t) \cup {e}
  <2>1. t2.meta[e] # Empty /\ t2.meta[p] # Empty
    <3>1. t2.meta[e].next # 0 /\ t2.meta[p].next # 0
      <4>1. t2.meta[p].next = d
        BY <1>13, <1>16, <1>17 DEF Metadata
      <4>2. t2.meta[e].next = t.meta[p].next
        BY <1>16, <1>17
      <4>3. d # 0 /\ t.meta[p].next # 0
        BY <1>2, <1>7, <1>15
      <4> QED  BY <4>1, <4>2, <4>3
    <3> QED  BY <3>1 DEF Empty
  <2>2. \A x \in (0 .. t.mask) \ {e, p} : t2.meta[x] = t.meta[x]
    BY <1>16, <1>17
  <2>3. p \in Occupied(t)
    BY <1>8
  <2> QED  BY <1>4, <1>8, <1>17, <2>1, <2>2, <2>3 DEF Occupied
<1>22. \A x \in (0 .. t.mask) \ (S \cup {e}) : t2.meta[x] = t.meta[x]
  BY <1>8, <1>16, <1>17
<1> QED  BY <1>4, <1>5, <1>17, <1>20, <1>21, <1>22 DEF Gains

LEMMA RecordIs ==
  ASSUME NEW t, IsTable(t)
  PROVE  t = [mask |-> t.mask, count |-> t.count, key |-> t.key, meta |-> t.meta]
<1>1. t \in [mask : Nat, count : Nat,
             key  : [0 .. t.mask -> Keys \cup {Garbage}],
             meta : [0 .. t.mask -> Metadata]]
  BY DEF IsTable, Metadata
<1> QED  BY <1>1

\* One metadatum gets another displacement.
LEMMA Pointed ==
  ASSUME NEW t, IsTable(t), NEW p \in 0 .. t.mask,
         NEW n \in 0 .. DISPLACEMENT_LIMIT
  PROVE  LET mm == [t.meta EXCEPT ![p].next = n]
         IN  /\ mm \in [0 .. t.mask -> Metadata]
             /\ mm[p] = [t.meta[p] EXCEPT !.next = n] /\ mm[p].next = n
             /\ \A x \in (0 .. t.mask) \ {p} : mm[x] = t.meta[x]
<1> DEFINE mm == [t.meta EXCEPT ![p].next = n]
           m1 == [t.meta[p] EXCEPT !.next = n]
<1>1. t.meta \in [0 .. t.mask -> Metadata]
  BY TableIs DEF Metadata
<1>2. t.meta[p] \in Metadata
  BY <1>1
<1>3. m1 \in Metadata /\ m1.next = n
  BY <1>2 DEF Metadata
<1>4. mm = [t.meta EXCEPT ![p] = m1]
  BY <1>1
<1> HIDE DEF mm, m1
<1>5. /\ mm \in [0 .. t.mask -> Metadata] /\ mm[p] = m1
      /\ \A x \in (0 .. t.mask) \ {p} : mm[x] = t.meta[x]
  BY <1>1, <1>3, <1>4
<1> QED  BY <1>3, <1>5 DEF mm, m1

\* _evict.
LEMMA EvictIs ==
  ASSUME NEW t, IsTable(t), NEW D, Threaded(t, Occupied(t), D),
         NEW b \in Occupied(t), Home(t, t.key[b]) # b
  PROVE  LET r == evict(t, b)
             t2 == r.table
         IN  /\ r.ok \in BOOLEAN
             /\ IsTable(t2) /\ t2.mask = t.mask /\ t2.count = t.count
             /\ ~r.ok => t2.key = t.key /\ Occupied(t2) = Occupied(t)
             /\ r.ok => \E e \in 0 .. t.mask :
                          /\ e \notin Occupied(t)
                          /\ t2.key = [t.key EXCEPT ![e] = t.key[b]]
                          /\ Occupied(t2) = Occupied(t) \cup {e}
                          /\ \E D2 : Threaded(t2, (Occupied(t) \ {b}) \cup {e}, D2)
<1> DEFINE Occ == Occupied(t)
           k == t.key[b]
           home == Home(t, k)
           C == Chain(t, Occ, home)
           p == Before(t, home, home, b)
           n == t.meta[b].next
           mm == [t.meta EXCEPT ![p].next = n]
           cut == [t EXCEPT !.meta[p].next = n]
           d == find_first_empty(cut, home)
           S == Occ \ {b}
           joined == [cut EXCEPT !.key[Displaced(t, home, d)] = k,
                                 !.meta = Joined(cut, home, d, t.meta[b].frag)]
<1>1. evict(t, b) = IF d = 0 THEN [ok |-> FALSE, table |-> cut]
                    ELSE [ok |-> TRUE, table |-> joined]
  BY DEF evict
<1>2. b \in C
  BY DEF Chain
<1>3. /\ b \in 0 .. t.mask /\ k \in Keys /\ home \in C /\ D[b] # 0 /\ D[b] \in Nat
      /\ D[home] = 0 /\ home \in 0 .. t.mask
      /\ n \in 0 .. DISPLACEMENT_LIMIT /\ t.meta[b].frag = Frag[k] /\ D[b] < n
  <2> HIDE DEF home
  <2>1. /\ b \in 0 .. t.mask /\ k \in Keys /\ home \in C /\ D[b] \in Nat
        /\ D[b] = 0 <=> b = home
        /\ home \in 0 .. t.mask
        /\ n \in Nat /\ n <= DISPLACEMENT_LIMIT
        /\ t.meta[b].frag = Frag[k] /\ D[b] < n
    BY <1>2, MemberIs
  <2>2. D[home] = 0
    BY <2>1, MemberIs
  <2>3. b # home
    BY DEF home
  <2> QED  BY <2>1, <2>2, <2>3, LimitIs
<1>4. /\ p \in C /\ D[p] < D[b] /\ t.meta[p].next = D[b]
      /\ \A x \in C : D[x] < D[b] => D[x] <= D[p]
  <2>1. D[home] < D[b]
    BY <1>3
  <2> HIDE DEF home
  <2> QED  BY <1>2, <1>3, <2>1, BeforeIs
<1>5. p \in Occ /\ p \in 0 .. t.mask /\ p # b
  <2>1. p \in Occ
    BY <1>4 DEF Chain
  <2>2. p # b
    BY <1>3, <1>4
  <2> QED  BY <2>1, <2>2, OccupiedIs
<1> HIDE DEF p
<1>6. /\ mm \in [0 .. t.mask -> Metadata]
      /\ mm[p] = [t.meta[p] EXCEPT !.next = n] /\ mm[p].next = n
      /\ \A x \in (0 .. t.mask) \ {p} : mm[x] = t.meta[x]
  <2> HIDE DEF n
  <2> QED  BY <1>3, <1>5, Pointed
<1>7. cut = With(t, t.key, mm, t.count)
  <2>1. t = [mask |-> t.mask, count |-> t.count, key |-> t.key, meta |-> t.meta]
    BY RecordIs
  <2>2. cut = [t EXCEPT !.meta = mm]
    BY <2>1
  <2> HIDE DEF cut, mm
  <2>3. [t EXCEPT !.meta = mm] = With(t, t.key, mm, t.count)
    BY <2>1 DEF With
  <2> QED  BY <2>2, <2>3
<1> HIDE DEF cut, mm, n
<1>8. /\ IsTable(cut) /\ cut.mask = t.mask /\ cut.count = t.count
      /\ cut.key = t.key /\ cut.meta = mm
  <2>1. t.key \in [0 .. t.mask -> Keys \cup {Garbage}] /\ t.count \in Nat
    BY TableIs
  <2> QED  BY <1>6, <1>7, <2>1, Changed
<1>9. Occupied(cut) = Occ
  <2>1. mm[p] # Empty
    BY <1>3, <1>6 DEF Empty
  <2> QED  BY <1>5, <1>6, <1>8, <2>1 DEF Occupied
<1>10. Threaded(cut, S, D)
  <2>1. LeavesAfter(t, Occ, cut, p, b)
    <3>1. \A x \in Occ \ {b, p} : cut.meta[x] = t.meta[x]
      BY <1>6, <1>8, OccupiedIs
    <3>2. cut.meta[p] = [t.meta[p] EXCEPT !.next = t.meta[b].next]
      BY <1>6, <1>8 DEF n
    <3> QED  BY <1>8, <3>1, <3>2 DEF LeavesAfter
  <2>2. b # home
    OBVIOUS
  <2> HIDE DEF home
  <2> QED  BY <1>2, <1>4, <2>1, <2>2, CutThreaded
<1>11. Home(cut, k) = home /\ \A x : Displaced(cut, home, x) = Displaced(t, home, x)
  BY <1>8, SameMask
<1>12. CASE d = 0
  BY <1>1, <1>8, <1>9, <1>12
<1>13. CASE d # 0
  <2>1. joined = WithJoined(cut, k, cut.count)
    <3>1. cut = [mask |-> cut.mask, count |-> cut.count, key |-> cut.key,
                 meta |-> cut.meta]
      BY <1>8, RecordIs
    <3> DEFINE e == Displaced(t, home, d)
               jm == Joined(cut, home, d, t.meta[b].frag)
               kk == [cut.key EXCEPT ![e] = k]
    <3>2. joined = [cut EXCEPT !.key = kk, !.meta = jm]
      OBVIOUS
    <3>3. [cut EXCEPT !.key = kk, !.meta = jm] = With(cut, kk, jm, cut.count)
      <4> HIDE DEF kk, jm
      <4> QED  BY <3>1 DEF With
    <3>4. jm = Joined(cut, home, d, Frag[k])
      BY <1>3
    <3>5. WithJoined(cut, k, cut.count) = With(cut, kk, jm, cut.count)
      <4> HIDE DEF jm
      <4> QED  BY <1>11, <3>4 DEF WithJoined
    <3> QED  BY <3>2, <3>3, <3>5
  <2>2. Home(cut, k) \in Chain(cut, S, Home(cut, k))
    <3>1. home \in S /\ Home(t, t.key[home]) = home
      BY <1>3 DEF Chain
    <3>2. Home(cut, cut.key[home]) = Home(t, t.key[home])
      BY <1>8, SameMask
    <3> HIDE DEF home, S
    <3> QED  BY <1>11, <3>1, <3>2 DEF Chain
  <2>3. cut.count \in Nat /\ S \subseteq Occupied(cut)
    BY <1>8, <1>9, TableIs
  <2>4. find_first_empty(cut, Home(cut, k)) # 0
    BY <1>11, <1>13
  <2>a. k \in Keys /\ IsTable(cut)
    BY <1>3, <1>8
  <2> HIDE DEF joined, S, k, home, d, C, Occ
  <2>5. \E e : Gains(cut, S, k, cut.count, joined, e)
    BY <1>10, <2>a, <2>1, <2>2, <2>3, <2>4, JoinIs
  <2>6. evict(t, b) = [ok |-> TRUE, table |-> joined]
    BY <1>1, <1>13
  <2> QED  BY <1>8, <1>9, <2>5, <2>6 DEF S, k, Occ, Gains
<1> QED  BY <1>12, <1>13

\* Table t2 is t with key k added: it is in bucket b, whose key, if it had one,
\* is in the bucket e that was empty.
Adds(t, k, t2, e, b) ==
  /\ e \in 0 .. t.mask /\ e \notin Occupied(t) /\ b \in Occupied(t) \cup {e}
  /\ IsTable(t2) /\ t2.mask = t.mask /\ t2.count = t.count + 1
  /\ Occupied(t2) = Occupied(t) \cup {e}
  /\ t2.key[b] = k /\ (b # e => t2.key[e] = t.key[b])
  /\ \A x \in Occupied(t) \ {b} : t2.key[x] = t.key[x]

LEMMA KeysInIs ==
  ASSUME NEW t, NEW k
  PROVE  k \in KeysIn(t, Occupied(t)) <=> \E b \in Occupied(t) : t.key[b] = k
<1>1. KeysIn(t, Occupied(t)) = {t.key[b] : b \in Occupied(t)}
  BY Zenon DEF KeysIn
<1> QED  BY <1>1, Zenon

LEMMA AddsIs ==
  ASSUME NEW t, Stored(t), t.mask # 0, NEW k \in Keys,
         \A x \in Occupied(t) : t.key[x] # k,
         NEW t2, NEW e, NEW b, Adds(t, k, t2, e, b)
  PROVE  /\ Stored(t2) /\ t2.mask = t.mask
         /\ KeysIn(t2, Occupied(t2)) = KeysIn(t, Occupied(t)) \cup {k}
<1> DEFINE Occ == Occupied(t)
<1>1. /\ IsTable(t) /\ t.count = Cardinality(Occ)
      /\ \A x \in Occ : t.key[x] \in Keys
      /\ \A x, y \in Occ : t.key[x] = t.key[y] => x = y
  BY DEF Stored
<1>2. /\ e \notin Occ /\ b \in Occ \cup {e}
      /\ IsTable(t2) /\ t2.mask = t.mask /\ t2.count = t.count + 1
      /\ Occupied(t2) = Occ \cup {e}
      /\ t2.key[b] = k /\ (b # e => t2.key[e] = t.key[b])
      /\ \A x \in Occ \ {b} : t2.key[x] = t.key[x]
  BY DEF Adds
<1>3. \A x \in Occ : t.key[x] # k
  OBVIOUS
<1>4. t2.count = Cardinality(Occ \cup {e})
  <2>1. IsFiniteSet(Occ)
    BY <1>1, OccupiedIs
  <2> HIDE DEF Occ
  <2> QED  BY <1>1, <1>2, <2>1, FS_AddElement
<1> HIDE DEF Occ
<1>5. \A x \in Occ \cup {e} : t2.key[x] \in Keys
  BY <1>1, <1>2
<1>6. \A x, y \in Occ \cup {e} : t2.key[x] = t2.key[y] => x = y
  BY <1>1, <1>2, <1>3
<1>7. Stored(t2)
  BY <1>2, <1>4, <1>5, <1>6 DEF Stored
<1>8. \A v : (\E x \in Occ \cup {e} : t2.key[x] = v)
               <=> v = k \/ \E x \in Occ : t.key[x] = v
  BY <1>2
<1>9. \A v : v \in KeysIn(t2, Occupied(t2)) <=> v \in KeysIn(t, Occ) \cup {k}
  <2>1. \A v : v \in KeysIn(t2, Occupied(t2))
                 <=> \E x \in Occ \cup {e} : t2.key[x] = v
    BY <1>2, KeysInIs
  <2>2. \A v : v \in KeysIn(t, Occ) <=> \E x \in Occ : t.key[x] = v
    BY KeysInIs DEF Occ
  <2> QED  BY <1>8, <2>1, <2>2
<1> QED  BY <1>2, <1>7, <1>9 DEF Occ

\* What an attempt to insert key k makes of table t.
Attempt(t, k, r) ==
  /\ r.ok \in BOOLEAN
  /\ IsTable(r.table) /\ r.table.mask = t.mask
  /\ ~r.ok => /\ r.table.count = t.count /\ r.table.key = t.key
              /\ Occupied(r.table) = Occupied(t)
  /\ r.ok => /\ t.mask # 0 /\ Linked(r.table)
             /\ \E e, b : Adds(t, k, r.table, e, b)

\* A placeholder has no room.
LEMMA RoomIs ==
  ASSUME NEW t, IsTable(t), ~Overloaded(t)
  PROVE  t.mask # 0
<1>1. t.count \in Nat
  BY TableIs
<1> QED  BY <1>1 DEF Overloaded, BucketCount

LEMMA FailedIs ==
  ASSUME NEW t, IsTable(t), NEW k
  PROVE  Attempt(t, k, Failed(t))
  BY DEF Attempt, Failed

LEMMA InChainIs ==
  ASSUME NEW t, Stored(t), Linked(t), NEW k \in Keys, t.meta[Home(t, k)].first
  PROVE  Attempt(t, k, InsertInChain(t, k))
<1> DEFINE home == Home(t, k)
           d == find_first_empty(t, home)
           joined == [t EXCEPT !.key[Displaced(t, home, d)] = k,
                               !.meta = Joined(t, home, d, Frag[k]),
                               !.count = t.count + 1]
<1>1. IsTable(t)
  BY DEF Stored
<1>2. CASE Overloaded(t) \/ d = 0
  <2>1. InsertInChain(t, k) = Failed(t)
    BY <1>2 DEF InsertInChain
  <2> QED  BY <1>1, <2>1, FailedIs
<1>3. CASE ~Overloaded(t) /\ d # 0
  <2>1. InsertInChain(t, k) = [ok |-> TRUE, table |-> joined]
    BY <1>3 DEF InsertInChain
  <2>2. t.mask # 0
    BY <1>1, <1>3, RoomIs
  <2>3. joined = WithJoined(t, k, t.count + 1)
    <3>1. t = [mask |-> t.mask, count |-> t.count, key |-> t.key, meta |-> t.meta]
      BY <1>1, RecordIs
    <3> DEFINE e == Displaced(t, home, d)
               jm == Joined(t, home, d, Frag[k])
               kk == [t.key EXCEPT ![e] = k]
               c == t.count + 1
    <3>2. joined = [t EXCEPT !.key = kk, !.meta = jm, !.count = c]
      OBVIOUS
    <3>3. [t EXCEPT !.key = kk, !.meta = jm, !.count = c] = With(t, kk, jm, c)
      <4> HIDE DEF kk, jm, c
      <4> QED  BY <3>1 DEF With
    <3>4. WithJoined(t, k, t.count + 1) = With(t, kk, jm, c)
      BY DEF WithJoined
    <3> QED  BY <3>2, <3>3, <3>4
  <2>4. PICK D : Threaded(t, Occupied(t), D)
    BY DEF Linked
  <2>5. home \in 0 .. t.mask
    BY <1>1, TableIs, HomeIs
  <2>6. home \in Chain(t, Occupied(t), home)
    <3>1. Chain(t, Occupied(t), home) # {}
      <4>1. t.meta[home].first
        OBVIOUS
      <4> HIDE DEF home
      <4> QED  BY <1>1, <2>4, <2>5, <4>1, FirstIs
    <3> HIDE DEF home
    <3> QED  BY <1>1, <2>4, <3>1, MemberIs
  <2>7. t.count + 1 \in Nat
    BY <1>1, TableIs
  <2> HIDE DEF joined
  <2>8. PICK e : Gains(t, Occupied(t), k, t.count + 1, joined, e)
    <3>1. Occupied(t) \subseteq Occupied(t)
      OBVIOUS
    <3>2. find_first_empty(t, Home(t, k)) # 0
      BY <1>3
    <3>3. Home(t, k) \in Chain(t, Occupied(t), Home(t, k))
      BY <2>6
    <3> HIDE DEF home, d
    <3> QED  BY <1>1, <2>3, <2>4, <2>7, <3>1, <3>2, <3>3, JoinIs
  <2>9. Linked(joined)
    BY <2>8 DEF Gains, Linked
  <2>10. Adds(t, k, joined, e, e)
    <3>1. /\ e \in 0 .. t.mask /\ e \notin Occupied(t)
          /\ IsTable(joined) /\ joined.mask = t.mask
          /\ joined.count = t.count + 1
          /\ joined.key = [t.key EXCEPT ![e] = k]
          /\ Occupied(joined) = Occupied(t) \cup {e}
      BY <2>8 DEF Gains
    <3>2. t.key \in [0 .. t.mask -> Keys \cup {Garbage}]
          /\ Occupied(t) \subseteq 0 .. t.mask
      BY <1>1, TableIs, OccupiedIs
    <3>3. joined.key[e] = k /\ \A x \in Occupied(t) \ {e} : joined.key[x] = t.key[x]
      BY <3>1, <3>2
    <3> QED  BY <3>1, <3>3 DEF Adds
  <2> HIDE DEF home, d
  <2> QED  BY <2>1, <2>2, <2>9, <2>10 DEF Attempt, Adds
<1> QED  BY <1>2, <1>3

\* Table t with key k in its home bucket, and a count of c.
Settled(t, k, c) ==
  With(t, [t.key EXCEPT ![Home(t, k)] = k],
          [t.meta EXCEPT ![Home(t, k)] = [frag |-> Frag[k], first |-> TRUE,
                                          next |-> DISPLACEMENT_LIMIT]], c)

LEMMA SettledIs ==
  ASSUME NEW t, IsTable(t), NEW S, NEW D, Threaded(t, S, D), NEW k \in Keys,
         Home(t, k) \notin S, S \subseteq Occupied(t),
         Occupied(t) \subseteq S \cup {Home(t, k)}, NEW c \in Nat,
         NEW t2, t2 = Settled(t, k, c)
  PROVE  /\ IsTable(t2) /\ t2.mask = t.mask /\ t2.count = c
         /\ t2.key = [t.key EXCEPT ![Home(t, k)] = k]
         /\ Occupied(t2) = S \cup {Home(t, k)} /\ Linked(t2)
<1> DEFINE home == Home(t, k)
           m == [frag |-> Frag[k], first |-> TRUE, next |-> DISPLACEMENT_LIMIT]
           kk == [t.key EXCEPT ![home] = k]
           mm == [t.meta EXCEPT ![home] = m]
<1>1. home \in 0 .. t.mask
  BY TableIs, HomeIs
<1>2. t.key \in [0 .. t.mask -> Keys \cup {Garbage}] /\ t.meta \in [0 .. t.mask -> Metadata]
  BY TableIs DEF Metadata
<1>3. m \in Metadata /\ m # Empty
  BY VerstableAssumption, LimitIs DEF Metadata, Empty
<1>4. t2 = With(t, kk, mm, c)
  BY DEF Settled
<1>5. S \subseteq Occupied(t) /\ Occupied(t) \subseteq 0 .. t.mask
  BY OccupiedIs
<1>6. home \notin S /\ Occupied(t) \subseteq S \cup {home}
  OBVIOUS
<1> HIDE DEF home
<1>7. kk \in [0 .. t.mask -> Keys \cup {Garbage}]
  BY <1>1, <1>2
<1>8. mm \in [0 .. t.mask -> Metadata]
  <2> HIDE DEF m
  <2> QED  BY <1>1, <1>2, <1>3
<1>9. /\ IsTable(t2) /\ t2.mask = t.mask
      /\ t2.count = c /\ t2.key = kk /\ t2.meta = mm
  <2> HIDE DEF kk, mm
  <2> QED  BY <1>4, <1>7, <1>8, Changed
<1>10. /\ t2.key[home] = k /\ \A x \in S : t2.key[x] = t.key[x]
       /\ t2.meta[home] = m /\ \A x \in (0 .. t.mask) \ {home} : t2.meta[x] = t.meta[x]
  <2> HIDE DEF m
  <2> QED  BY <1>1, <1>2, <1>5, <1>6, <1>9
<1>11. Occupied(t2) = S \cup {home}
  <2> SUFFICES ASSUME NEW x \in 0 .. t.mask
               PROVE  t2.meta[x] # Empty <=> x \in S \cup {home}
    BY <1>1, <1>5, <1>9 DEF Occupied
  <2>1. CASE x = home
    <3> HIDE DEF m
    <3> QED  BY <1>3, <1>10, <2>1
  <2>2. CASE x # home
    <3>1. t2.meta[x] = t.meta[x]
      BY <1>10, <2>2
    <3>2. x \in S <=> t.meta[x] # Empty
      BY <1>5, <1>6, <2>2 DEF Occupied
    <3> QED  BY <2>2, <3>1, <3>2
  <2> QED  BY <2>1, <2>2
<1>12. StartsAt(t, S, t2, Home(t, k), k)
  <2>1. \A x \in S : t2.meta[x] = t.meta[x]
    BY <1>5, <1>6, <1>10
  <2> QED  BY <1>9, <1>10, <2>1 DEF StartsAt, home
<1>13. Threaded(t2, S \cup {Home(t, k)}, [D EXCEPT ![Home(t, k)] = 0])
  BY <1>12, HomeThreaded
<1>14. Linked(t2)
  BY <1>11, <1>13 DEF Linked, home
<1> QED  BY <1>9, <1>11, <1>14 DEF home

LEMMA AtHomeIs ==
  ASSUME NEW t, Stored(t), Linked(t), NEW k \in Keys, ~t.meta[Home(t, k)].first
  PROVE  Attempt(t, k, InsertAtHome(t, k))
<1> DEFINE home == Home(t, k)
           Occ == Occupied(t)
           vacated == IF t.meta[home] = Empty THEN [ok |-> TRUE, table |-> t]
                                              ELSE evict(t, home)
           t1 == vacated.table
           t2 == [t1 EXCEPT !.key[home] = k,
                            !.meta[home] = [frag |-> Frag[k], first |-> TRUE,
                                            next |-> DISPLACEMENT_LIMIT],
                            !.count = t.count + 1]
           At == InsertAtHome(t, k)
<1>1. IsTable(t)
  BY DEF Stored
<1>2. PICK D : Threaded(t, Occ, D)
  BY DEF Linked
<1>3. home \in 0 .. t.mask /\ t.count + 1 \in Nat
      /\ t.key \in [0 .. t.mask -> Keys \cup {Garbage}]
  BY <1>1, TableIs, HomeIs
<1>4. At = IF Overloaded(t) THEN Failed(t) ELSE IF ~vacated.ok THEN vacated
           ELSE [ok |-> TRUE, table |-> t2]
  BY DEF InsertAtHome
<1>5. CASE Overloaded(t)
  BY <1>1, <1>4, <1>5, FailedIs
<1>6. /\ vacated.ok \in BOOLEAN
      /\ IsTable(t1) /\ t1.mask = t.mask /\ t1.count = t.count
      /\ ~vacated.ok => t1.key = t.key /\ Occupied(t1) = Occ
      /\ vacated.ok =>
           \E e \in 0 .. t.mask :
             /\ e \notin Occ
             /\ IF home \in Occ
                THEN /\ Occupied(t1) = Occ \cup {e}
                     /\ t1.key = [t.key EXCEPT ![e] = t.key[home]]
                     /\ \E D2 : Threaded(t1, (Occ \ {home}) \cup {e}, D2)
                ELSE e = home /\ t1 = t
  <2>1. CASE t.meta[home] = Empty
    <3>1. vacated = [ok |-> TRUE, table |-> t]
      BY <2>1
    <3>2. home \notin Occ
      BY <1>1, <2>1, OccupiedIs
    <3> HIDE DEF vacated
    <3> QED  BY <1>1, <1>3, <3>1, <3>2
  <2>2. CASE t.meta[home] # Empty
    <3>1. vacated = evict(t, home)
      BY <2>2
    <3>2. home \in Occ
      BY <1>1, <1>3, <2>2, OccupiedIs
    <3>3. Home(t, t.key[home]) # home
      <4>1. home \in Chain(t, Occ, Home(t, t.key[home]))
        BY <3>2 DEF Chain
      <4>2. t.meta[home].first <=> home = Home(t, t.key[home])
        <5> HIDE DEF home, Occ
        <5> QED  BY <1>1, <1>2, <4>1, MemberIs
      <4> QED  BY <4>2
    <3> HIDE DEF vacated, home
    <3>4. /\ vacated.ok \in BOOLEAN
          /\ IsTable(t1) /\ t1.mask = t.mask /\ t1.count = t.count
          /\ ~vacated.ok => t1.key = t.key /\ Occupied(t1) = Occ
          /\ vacated.ok => \E e \in 0 .. t.mask :
               /\ e \notin Occ
               /\ t1.key = [t.key EXCEPT ![e] = t.key[home]]
               /\ Occupied(t1) = Occ \cup {e}
               /\ \E D2 : Threaded(t1, (Occ \ {home}) \cup {e}, D2)
      BY <1>1, <1>2, <3>1, <3>2, <3>3, EvictIs
    <3> HIDE DEF Occ
    <3> QED  BY <3>2, <3>4
  <2> QED  BY <2>1, <2>2
<1>7. CASE ~Overloaded(t) /\ ~vacated.ok
  <2>1. At = vacated
    BY <1>4, <1>7
  <2> HIDE DEF vacated
  <2> QED  BY <1>6, <1>7, <2>1 DEF Attempt
<1>8. CASE ~Overloaded(t) /\ vacated.ok
  <2>1. At = [ok |-> TRUE, table |-> t2]
    BY <1>4, <1>8
  <2> HIDE DEF At, vacated
  <2>2. t.mask # 0
    BY <1>1, <1>8, RoomIs
  <2>3. PICK e \in 0 .. t.mask :
          /\ e \notin Occ
          /\ IF home \in Occ
             THEN /\ Occupied(t1) = Occ \cup {e}
                  /\ t1.key = [t.key EXCEPT ![e] = t.key[home]]
                  /\ \E D2 : Threaded(t1, (Occ \ {home}) \cup {e}, D2)
             ELSE e = home /\ t1 = t
    BY <1>6, <1>8
  <2>4. Home(t1, k) = home
    BY <1>6, SameMask
  <2>5. t2 = Settled(t1, k, t.count + 1)
    <3>1. t1 = [mask |-> t1.mask, count |-> t1.count, key |-> t1.key, meta |-> t1.meta]
      BY <1>6, RecordIs
    <3> DEFINE m == [frag |-> Frag[k], first |-> TRUE, next |-> DISPLACEMENT_LIMIT]
               kk == [t1.key EXCEPT ![home] = k]
               mm == [t1.meta EXCEPT ![home] = m]
               c == t.count + 1
    <3>2. t2 = [t1 EXCEPT !.key = kk, !.meta = mm, !.count = c]
      OBVIOUS
    <3>3. [t1 EXCEPT !.key = kk, !.meta = mm, !.count = c] = With(t1, kk, mm, c)
      <4> HIDE DEF kk, mm, c
      <4> QED  BY <3>1 DEF With
    <3>4. Settled(t1, k, t.count + 1) = With(t1, kk, mm, c)
      <4> HIDE DEF home, t1
      <4> QED  BY <2>4 DEF Settled
    <3> QED  BY <3>2, <3>3, <3>4
  <2> DEFINE S == IF home \in Occ THEN (Occ \ {home}) \cup {e} ELSE Occ
  <2>6. PICK D2 : Threaded(t1, S, D2)
    <3> HIDE DEF Occ, t1
    <3>1. Threaded(t, Occ, D)
      BY <1>2
    <3> QED  BY <2>3, <3>1
  <2>7. /\ home \notin S /\ S \subseteq Occupied(t1)
        /\ Occupied(t1) \subseteq S \cup {home}
        /\ S \cup {home} = Occ \cup {e}
    BY <2>3
  <2> HIDE DEF S, t2
  <2>8. /\ IsTable(t2) /\ t2.mask = t1.mask /\ t2.count = t.count + 1
        /\ t2.key = [t1.key EXCEPT ![home] = k]
        /\ Occupied(t2) = S \cup {home} /\ Linked(t2)
    <3>1. Home(t1, k) \notin S /\ Occupied(t1) \subseteq S \cup {Home(t1, k)}
      BY <2>4, <2>7
    <3> HIDE DEF home, t1
    <3>2. /\ IsTable(t2) /\ t2.mask = t1.mask /\ t2.count = t.count + 1
          /\ t2.key = [t1.key EXCEPT ![Home(t1, k)] = k]
          /\ Occupied(t2) = S \cup {Home(t1, k)} /\ Linked(t2)
      BY <1>3, <1>6, <2>5, <2>6, <2>7, <3>1, SettledIs
    <3> QED  BY <2>4, <3>2
  <2>9. Adds(t, k, t2, e, home)
    <3>1. t2.key[home] = k
      BY <1>3, <1>6, <2>3, <2>8, TableIs
    <3>2. home # e => t2.key[e] = t.key[home]
      BY <1>3, <2>3, <2>8
    <3>3. \A x \in Occ \ {home} : t2.key[x] = t.key[x]
      <4>1. Occ \subseteq 0 .. t.mask
        BY <1>1, OccupiedIs
      <4> HIDE DEF Occ, home
      <4> QED  BY <1>3, <2>3, <2>8, <4>1
    <3>4. home \in Occ \cup {e} /\ Occupied(t2) = Occ \cup {e} /\ t2.mask = t.mask
      BY <1>6, <2>3, <2>7, <2>8
    <3> QED  BY <2>3, <2>8, <3>1, <3>2, <3>3, <3>4 DEF Adds
  <2>10. Linked(t2)
    BY <2>8
  <2> HIDE DEF home
  <2> QED  BY <2>1, <2>2, <2>9, <2>10 DEF Attempt, Adds, At
<1> QED  BY <1>5, <1>6, <1>7, <1>8

\* _insert_raw of a key that is not there.
LEMMA InsertNewIs ==
  ASSUME NEW t, Stored(t), Linked(t), NEW k \in Keys, NEW unique \in BOOLEAN,
         \A b \in Occupied(t) : t.key[b] # k
  PROVE  Attempt(t, k, insert_raw(t, k, unique))
<1>1. Present(t, k) = {}
  BY GetIs DEF Present
<1>2. insert_raw(t, k, unique) =
        IF ~t.meta[Home(t, k)].first THEN InsertAtHome(t, k) ELSE InsertInChain(t, k)
  BY <1>1 DEF insert_raw
<1> QED  BY <1>2, AtHomeIs, InChainIs

\* _insert_raw of a key that may be there.
LEMMA InsertOldIs ==
  ASSUME NEW t, Stored(t), Linked(t), NEW k \in Keys,
         NEW b \in Occupied(t), t.key[b] = k
  PROVE  insert_raw(t, k, FALSE) = [ok |-> TRUE, table |-> t]
<1>1. Present(t, k) # {}
  BY GetIs DEF Present
<1>2. t.meta[Home(t, k)].first
  <2>1. get(t, k) # {}
    BY <1>1 DEF Present
  <2> DEFINE x == WalkTo(t, Home(t, k), Home(t, k),
                  LastOnes(t) \cup {y \in 0 .. t.mask : Matches(t, y, k)})
  <2>2. get(t, k) = IF t.meta[Home(t, k)].first /\ Matches(t, x, k) THEN {x} ELSE {}
    BY DEF get
  <2> QED  BY <2>1, <2>2
<1> QED  BY <1>1, <1>2 DEF insert_raw

\* What is true of a table whose keys an attempt may have lost from their
\* chains.
LEMMA AttemptStored ==
  ASSUME NEW t, Stored(t), NEW k \in Keys, \A b \in Occupied(t) : t.key[b] # k,
         NEW r, Attempt(t, k, r)
  PROVE  /\ Stored(r.table) /\ r.table.mask = t.mask
         /\ ~r.ok => /\ r.table.count = t.count
                     /\ KeysIn(r.table, Occupied(r.table)) = KeysIn(t, Occupied(t))
         /\ r.ok => /\ Linked(r.table)
                    /\ KeysIn(r.table, Occupied(r.table)) =
                         KeysIn(t, Occupied(t)) \cup {k}
<1>1. CASE ~r.ok
  <2>1. /\ IsTable(r.table) /\ r.table.mask = t.mask /\ r.table.count = t.count
        /\ r.table.key = t.key /\ Occupied(r.table) = Occupied(t)
    BY <1>1 DEF Attempt
  <2>2. Stored(r.table)
    BY <2>1 DEF Stored
  <2> QED  BY <1>1, <2>1, <2>2 DEF KeysIn
<1>2. CASE r.ok
  <2>1. PICK e, b : Adds(t, k, r.table, e, b)
    BY <1>2 DEF Attempt
  <2>2. t.mask # 0 /\ Linked(r.table)
    BY <1>2 DEF Attempt
  <2>3. /\ Stored(r.table) /\ r.table.mask = t.mask
        /\ KeysIn(r.table, Occupied(r.table)) = KeysIn(t, Occupied(t)) \cup {k}
    BY <2>1, <2>2, AddsIs
  <2> QED  BY <1>2, <2>2, <2>3
<1>3. r.ok \in BOOLEAN
  BY DEF Attempt
<1> QED  BY <1>1, <1>2, <1>3

\* _insert_raw.
LEMMA InsertIs ==
  ASSUME NEW t, Stored(t), Linked(t), NEW k \in Keys, NEW unique \in BOOLEAN,
         unique => \A b \in Occupied(t) : t.key[b] # k
  PROVE  LET r == insert_raw(t, k, unique)
             Held == KeysIn(t, Occupied(t))
         IN  /\ r.ok \in BOOLEAN
             /\ Stored(r.table) /\ r.table.mask = t.mask
             /\ ~r.ok => /\ r.table.count = t.count
                         /\ KeysIn(r.table, Occupied(r.table)) = Held
             /\ r.ok => /\ Linked(r.table)
                        /\ KeysIn(r.table, Occupied(r.table)) = Held \cup {k}
<1>1. CASE \A b \in Occupied(t) : t.key[b] # k
  <2> DEFINE r == insert_raw(t, k, unique)
  <2>1. Attempt(t, k, r)
    BY <1>1, InsertNewIs
  <2>2. r.ok \in BOOLEAN
    BY <2>1 DEF Attempt
  <2> HIDE DEF r
  <2>3. /\ Stored(r.table) /\ r.table.mask = t.mask
        /\ ~r.ok => /\ r.table.count = t.count
                    /\ KeysIn(r.table, Occupied(r.table)) = KeysIn(t, Occupied(t))
        /\ r.ok => /\ Linked(r.table)
                   /\ KeysIn(r.table, Occupied(r.table)) =
                        KeysIn(t, Occupied(t)) \cup {k}
    BY <1>1, <2>1, AttemptStored
  <2> QED  BY <2>2, <2>3 DEF r
<1>2. CASE \E b \in Occupied(t) : t.key[b] = k
  <2>1. ~unique
    BY <1>2
  <2>2. insert_raw(t, k, unique) = [ok |-> TRUE, table |-> t]
    BY <1>2, <2>1, InsertOldIs
  <2>3. k \in KeysIn(t, Occupied(t))
    BY <1>2, KeysInIs
  <2> QED  BY <2>2, <2>3
<1> QED  BY <1>1, <1>2

\* The bucket last of t is emptied; what is left has the metadata mm.
Emptied(t, mm, last) ==
  With(t, [t.key EXCEPT ![last] = Garbage], [mm EXCEPT ![last] = Empty], t.count - 1)

IsEmptied(t, mm, last, t2) ==
  /\ IsTable(t2) /\ t2.mask = t.mask /\ t2.count = t.count - 1
  /\ Occupied(t2) = Occupied(t) \ {last}
  /\ \A x \in (0 .. t.mask) \ {last} : /\ t2.key[x] = t.key[x]
                                       /\ t2.meta[x] = mm[x]

SameBut(t, mm, last) ==
  \A x \in (0 .. t.mask) \ {last} : mm[x] = Empty <=> t.meta[x] = Empty

LEMMA EmptiedIs ==
  ASSUME NEW t, IsTable(t), NEW last \in Occupied(t), t.count - 1 \in Nat,
         NEW mm \in [0 .. t.mask -> Metadata],
         SameBut(t, mm, last),
         NEW t2, t2 = Emptied(t, mm, last)
  PROVE  IsEmptied(t, mm, last, t2)
<1> DEFINE kk == [t.key EXCEPT ![last] = Garbage]
           m2 == [mm EXCEPT ![last] = Empty]
<1>1. last \in 0 .. t.mask
  BY OccupiedIs
<1>2. kk \in [0 .. t.mask -> Keys \cup {Garbage}]
      /\ \A x \in (0 .. t.mask) \ {last} : kk[x] = t.key[x]
  BY <1>1, TableIs
<1>3. m2 \in [0 .. t.mask -> Metadata] /\ m2[last] = Empty
      /\ \A x \in (0 .. t.mask) \ {last} : m2[x] = mm[x]
  <2>1. Empty \in Metadata
    BY LimitIs DEF Empty, Metadata
  <2> QED  BY <1>1, <2>1
<1>4. t2 = With(t, kk, m2, t.count - 1)
  BY DEF Emptied
<1> HIDE DEF kk, m2
<1>5. /\ IsTable(t2) /\ t2.mask = t.mask /\ t2.count = t.count - 1
      /\ t2.key = kk /\ t2.meta = m2
  BY <1>2, <1>3, <1>4, Changed
<1>6. Occupied(t2) = Occupied(t) \ {last}
  <2>1. \A x \in (0 .. t.mask) \ {last} : m2[x] = Empty <=> t.meta[x] = Empty
    BY <1>3 DEF SameBut
  <2> QED  BY <1>3, <1>5, <2>1 DEF Occupied
<1> QED  BY <1>2, <1>3, <1>5, <1>6 DEF IsEmptied

\* The last key of a chain is unlinked.
LEMMA DetachedIs ==
  ASSUME NEW t, IsTable(t), NEW D, Threaded(t, Occupied(t), D), NEW home,
         NEW b \in Chain(t, Occupied(t), home),
         NEW last \in Chain(t, Occupied(t), home), D[b] < D[last],
         IsLast(t, last), t.count - 1 \in Nat,
         NEW t2, t2 = Detached(t, home, b, last)
  PROVE  /\ IsTable(t2) /\ t2.mask = t.mask /\ t2.count = t.count - 1
         /\ Occupied(t2) = Occupied(t) \ {last}
         /\ \A x \in (0 .. t.mask) \ {last} : t2.key[x] = t.key[x]
         /\ Linked(t2)
<1> DEFINE Occ == Occupied(t)
           C == Chain(t, Occ, home)
           p == Before(t, home, b, last)
           mm == [t.meta EXCEPT ![p].next = DISPLACEMENT_LIMIT]
<1>1. /\ p \in C /\ D[p] < D[last] /\ t.meta[p].next = D[last]
      /\ \A x \in C : D[x] < D[last] => D[x] <= D[p]
  BY BeforeIs
<1>2. /\ last \in Occ /\ last \in 0 .. t.mask /\ D[last] \in Nat /\ D[b] \in Nat
      /\ D[last] = 0 <=> last = home
  BY MemberIs
<1>3. last # home
  <2>1. D[last] # 0
    BY <1>2
  <2> QED  BY <1>2, <2>1
<1>4. p \in Occ /\ p \in 0 .. t.mask /\ p # last /\ D[p] < t.meta[p].next /\ D[p] \in Nat
  <2>1. p \in Occ /\ p \in 0 .. t.mask /\ D[p] < t.meta[p].next /\ D[p] \in Nat
    <3> HIDE DEF p
    <3> QED  BY <1>1, MemberIs
  <2>2. p # last
    BY <1>1, <1>2
  <2> QED  BY <2>1, <2>2
<1>5. t2 = [t EXCEPT !.meta[p].next = DISPLACEMENT_LIMIT, !.meta[last] = Empty,
                     !.key[last] = Garbage, !.count = t.count - 1]
  BY DEF Detached
<1> HIDE DEF p
<1>6. /\ mm \in [0 .. t.mask -> Metadata]
      /\ mm[p] = [t.meta[p] EXCEPT !.next = DISPLACEMENT_LIMIT]
      /\ mm[p].next = DISPLACEMENT_LIMIT
      /\ \A x \in (0 .. t.mask) \ {p} : mm[x] = t.meta[x]
  <2>1. DISPLACEMENT_LIMIT \in 0 .. DISPLACEMENT_LIMIT
    BY LimitIs
  <2> QED  BY <1>4, <2>1, Pointed
<1>7. t2 = Emptied(t, mm, last)
  <2>1. t = [mask |-> t.mask, count |-> t.count, key |-> t.key, meta |-> t.meta]
    BY RecordIs
  <2> DEFINE kk == [t.key EXCEPT ![last] = Garbage]
             m2 == [mm EXCEPT ![last] = Empty]
             c == t.count - 1
  <2>2. t2 = [t EXCEPT !.meta = m2, !.key = kk, !.count = c]
    BY <1>5, <2>1
  <2>3. [t EXCEPT !.meta = m2, !.key = kk, !.count = c] = With(t, kk, m2, c)
    <3> HIDE DEF kk, m2, c
    <3> QED  BY <2>1 DEF With
  <2>4. Emptied(t, mm, last) = With(t, kk, m2, c)
    BY DEF Emptied
  <2> QED  BY <2>2, <2>3, <2>4
<1> HIDE DEF mm
<1>8. mm[p] # Empty /\ t.meta[p] # Empty
  BY <1>4, <1>6, LimitIs DEF Empty
<1>9. /\ IsTable(t2) /\ t2.mask = t.mask /\ t2.count = t.count - 1
      /\ Occupied(t2) = Occ \ {last}
      /\ \A x \in (0 .. t.mask) \ {last} : /\ t2.key[x] = t.key[x]
                                           /\ t2.meta[x] = mm[x]
  <2>1. SameBut(t, mm, last)
    BY <1>6, <1>8 DEF SameBut
  <2>2. last \in Occupied(t) /\ mm \in [0 .. t.mask -> Metadata]
    BY <1>2, <1>6
  <2>3. t.count - 1 \in Nat /\ IsTable(t) /\ t2 = Emptied(t, mm, last)
    BY <1>7
  <2>4. IsEmptied(t, mm, last, t2)
    BY <2>1, <2>2, <2>3, EmptiedIs
  <2> QED  BY <2>4 DEF IsEmptied
<1>10. LeavesAfter(t, Occ, t2, p, last)
  <2>1. Occ \subseteq 0 .. t.mask
    BY OccupiedIs
  <2>2. t.meta[last].next = DISPLACEMENT_LIMIT
    BY DEF IsLast
  <2>3. t2.meta[p] = [t.meta[p] EXCEPT !.next = t.meta[last].next]
    BY <1>4, <1>6, <1>9, <2>2
  <2>4. \A x \in Occ \ {last, p} : t2.meta[x] = t.meta[x]
    BY <1>6, <1>9, <2>1
  <2>5. \A x \in Occ \ {last} : t2.key[x] = t.key[x]
    BY <1>9, <2>1
  <2> HIDE DEF Occ
  <2> QED  BY <1>9, <2>3, <2>4, <2>5 DEF LeavesAfter
<1>11. Threaded(t2, Occ \ {last}, D)
  <2>1. last \in C
    OBVIOUS
  <2> QED  BY <1>1, <1>3, <1>10, <2>1, CutThreaded
<1> QED  BY <1>9, <1>11 DEF Linked

LEMMA MovedIs ==
  ASSUME NEW t, IsTable(t), NEW D, Threaded(t, Occupied(t), D), NEW home,
         NEW b \in Chain(t, Occupied(t), home),
         NEW last \in Chain(t, Occupied(t), home),
         NEW t2, t2 = MoveTo(t, b, last)
  PROVE  /\ IsTable(t2) /\ t2.mask = t.mask /\ t2.count = t.count
         /\ Occupied(t2) = Occupied(t)
         /\ t2.key = [t.key EXCEPT ![b] = t.key[last]]
         /\ \A x \in 0 .. t.mask : t2.meta[x].next = t.meta[x].next
<1> DEFINE kk == [t.key EXCEPT ![b] = t.key[last]]
           f == t.meta[last].frag
           m == [t.meta[b] EXCEPT !.frag = f]
           mm == [t.meta EXCEPT ![b] = m]
<1>1. /\ b \in 0 .. t.mask /\ last \in 0 .. t.mask
      /\ b \in Occupied(t) /\ D[b] < t.meta[b].next /\ D[b] \in Nat
  BY MemberIs
<1>2. /\ t.key \in [0 .. t.mask -> Keys \cup {Garbage}]
      /\ t.meta \in [0 .. t.mask -> Metadata] /\ t.count \in Nat
  BY TableIs DEF Metadata
<1>3. t.meta[b] \in Metadata /\ t.meta[last] \in Metadata
  BY <1>1, <1>2
<1>4. m \in Metadata /\ m.next = t.meta[b].next
  BY <1>3 DEF Metadata
<1>5. m # Empty
  <2>1. m.next # 0
    BY <1>1, <1>4
  <2> QED  BY <2>1 DEF Empty
<1>6. t2 = With(t, kk, mm, t.count)
  <2>1. t = [mask |-> t.mask, count |-> t.count, key |-> t.key, meta |-> t.meta]
    BY RecordIs
  <2>2. t2 = [t EXCEPT !.key[b] = t.key[last], !.meta[b].frag = t.meta[last].frag]
    BY DEF MoveTo
  <2>3. t2 = [t EXCEPT !.key = kk, !.meta = mm]
    BY <1>1, <1>2, <1>3, <2>1, <2>2
  <2> HIDE DEF kk, mm
  <2>4. [t EXCEPT !.key = kk, !.meta = mm] = With(t, kk, mm, t.count)
    BY <2>1 DEF With
  <2> QED  BY <2>3, <2>4
<1> HIDE DEF m, f
<1>7. kk \in [0 .. t.mask -> Keys \cup {Garbage}]
  BY <1>1, <1>2
<1>8. /\ mm \in [0 .. t.mask -> Metadata] /\ mm[b] = m
      /\ \A x \in (0 .. t.mask) \ {b} : mm[x] = t.meta[x]
  BY <1>1, <1>2, <1>4
<1> HIDE DEF kk, mm
<1>9. /\ IsTable(t2) /\ t2.mask = t.mask /\ t2.count = t.count
      /\ t2.key = kk /\ t2.meta = mm
  BY <1>2, <1>6, <1>7, <1>8, Changed
<1>10. Occupied(t2) = Occupied(t)
  BY <1>1, <1>5, <1>8, <1>9 DEF Occupied
<1> QED  BY <1>4, <1>8, <1>9, <1>10 DEF kk

\* Table t2 is t without the key that was in bucket b, where there is the key
\* from bucket last now.
Erases(t, b, t2, last) ==
  /\ last \in Occupied(t) /\ Home(t, t.key[last]) = Home(t, t.key[b])
  /\ IsTable(t2) /\ t2.mask = t.mask /\ t2.count = t.count - 1
  /\ Occupied(t2) = Occupied(t) \ {last}
  /\ b # last => t2.key[b] = t.key[last]
  /\ \A x \in Occupied(t) \ {b, last} : t2.key[x] = t.key[x]
  /\ Linked(t2)

\* _erase_itr_raw.
LEMMA EraseRawIs ==
  ASSUME NEW t, Stored(t), Linked(t), NEW b \in Occupied(t)
  PROVE  LET r == erase_itr_raw(t, b, Home(t, t.key[b]))
         IN  \E last : Erases(t, b, r.table, last) /\ (r.stay <=> last > b)
<1> DEFINE home == Home(t, t.key[b])
           Occ == Occupied(t)
           C == Chain(t, Occ, home)
           r == erase_itr_raw(t, b, home)
           alone == [t EXCEPT !.meta[b] = Empty, !.key[b] = Garbage,
                              !.count = t.count - 1]
           last == WalkTo(t, home, b, LastOnes(t))
           moved == MoveTo(t, b, last)
<1>1. IsTable(t) /\ t.count = Cardinality(Occ)
  BY DEF Stored
<1>2. PICK D : Threaded(t, Occ, D)
  BY DEF Linked
<1>3. b \in C /\ b \in Occ
  BY DEF Chain
<1>4. Occ \subseteq 0 .. t.mask /\ IsFiniteSet(Occ) /\ t.mask \in Nat
  BY <1>1, OccupiedIs, TableIs
<1>5. t.count - 1 \in Nat
  <2>1. Cardinality(Occ \ {b}) = Cardinality(Occ) - 1
    BY <1>3, <1>4, FS_RemoveElement
  <2>2. IsFiniteSet(Occ \ {b})
    BY <1>4, FS_RemoveElement
  <2>3. Cardinality(Occ \ {b}) \in Nat
    BY <2>2, FS_CardinalityType
  <2> QED  BY <1>1, <2>1, <2>3
<1>6. /\ home \in C /\ D[home] = 0
      /\ D[b] \in Nat /\ (D[b] = 0 <=> b = home)
      /\ (t.meta[b].first <=> b = home)
  <2> HIDE DEF home
  <2>1. /\ home \in C
        /\ D[b] \in Nat /\ (D[b] = 0 <=> b = home)
        /\ (t.meta[b].first <=> b = home)
    BY <1>1, <1>2, <1>3, MemberIs
  <2>2. D[home] = 0
    BY <1>1, <1>2, <2>1, MemberIs
  <2> QED  BY <2>1, <2>2
<1>7. r = IF t.meta[b].first /\ IsLast(t, b)
          THEN [stay |-> FALSE, table |-> alone]
          ELSE IF IsLast(t, b)
          THEN [stay |-> FALSE, table |-> Detached(t, home, home, b)]
          ELSE [stay |-> Stay(b, last), table |-> Detached(moved, home, b, last)]
  BY DEF erase_itr_raw
<1>8. \A x \in C : x \in Occ /\ Home(t, t.key[x]) = home
  BY DEF Chain
<1> HIDE DEF r
<1>9. CASE t.meta[b].first /\ IsLast(t, b)
  <2>1. r = [stay |-> FALSE, table |-> alone]
    BY <1>7, <1>9
  <2>2. alone = Emptied(t, t.meta, b)
    <3>1. t = [mask |-> t.mask, count |-> t.count, key |-> t.key, meta |-> t.meta]
      BY <1>1, RecordIs
    <3> DEFINE kk == [t.key EXCEPT ![b] = Garbage]
               mm == [t.meta EXCEPT ![b] = Empty]
               c == t.count - 1
    <3>2. alone = [t EXCEPT !.meta = mm, !.key = kk, !.count = c]
      BY <3>1
    <3>3. [t EXCEPT !.meta = mm, !.key = kk, !.count = c] = With(t, kk, mm, c)
      <4> HIDE DEF kk, mm, c
      <4> QED  BY <3>1 DEF With
    <3>4. Emptied(t, t.meta, b) = With(t, kk, mm, c)
      BY DEF Emptied
    <3> QED  BY <3>2, <3>3, <3>4
  <2> HIDE DEF alone
  <2>a. IsEmptied(t, t.meta, b, alone)
    <3>1. t.meta \in [0 .. t.mask -> Metadata] /\ SameBut(t, t.meta, b)
      BY <1>1, TableIs DEF Metadata, SameBut
    <3> QED  BY <1>1, <1>5, <2>2, <3>1, EmptiedIs
  <2>3. /\ IsTable(alone) /\ alone.mask = t.mask /\ alone.count = t.count - 1
        /\ Occupied(alone) = Occupied(t) \ {b}
        /\ \A x \in (0 .. t.mask) \ {b} : alone.key[x] = t.key[x]
        /\ \A x \in (0 .. t.mask) \ {b} : alone.meta[x] = t.meta[x]
    BY <2>a DEF IsEmptied
  <2>4. Linked(alone)
    <3>1. IsLast(t, home) /\ b = home
      BY <1>6, <1>9
    <3>2. \A x \in Occ \ {home} : alone.key[x] = t.key[x] /\ alone.meta[x] = t.meta[x]
      BY <1>4, <2>3, <3>1
    <3>3. Threaded(alone, Occ \ {home}, D)
      <4> HIDE DEF home, Occ
      <4> QED  BY <1>1, <1>2, <1>6, <2>3, <3>1, <3>2, AloneThreaded
    <3> QED  BY <2>3, <3>1, <3>3 DEF Linked
  <2>5. Erases(t, b, alone, b)
    BY <1>4, <2>3, <2>4 DEF Erases
  <2>6. ~(b > b)
    BY <1>3, <1>4
  <2> QED  BY <2>1, <2>5, <2>6 DEF r
<1>10. CASE ~t.meta[b].first /\ IsLast(t, b)
  <2> DEFINE t2 == Detached(t, home, home, b)
  <2>1. r = [stay |-> FALSE, table |-> t2]
    BY <1>7, <1>10
  <2>2. D[home] < D[b]
    BY <1>6, <1>10
  <2> HIDE DEF t2
  <2>3. /\ IsTable(t2) /\ t2.mask = t.mask /\ t2.count = t.count - 1
        /\ Occupied(t2) = Occupied(t) \ {b}
        /\ \A x \in (0 .. t.mask) \ {b} : t2.key[x] = t.key[x]
        /\ Linked(t2)
    <3>1. t2 = Detached(t, home, home, b)
      BY DEF t2
    <3> HIDE DEF home
    <3> QED  BY <1>1, <1>2, <1>3, <1>5, <1>6, <1>10, <2>2, <3>1, DetachedIs
  <2>4. Erases(t, b, t2, b)
    BY <1>4, <2>3 DEF Erases
  <2>5. ~(b > b)
    BY <1>3, <1>4
  <2> QED  BY <2>1, <2>4, <2>5 DEF r
<1>11. CASE ~IsLast(t, b)
  <2>1. r = [stay |-> Stay(b, last), table |-> Detached(moved, home, b, last)]
    BY <1>7, <1>11
  <2>2. PICK z \in C : IsLast(t, z) /\ \A x \in C : D[x] <= D[z]
    <3> HIDE DEF home
    <3> QED  BY <1>1, <1>2, <1>3, LastIs
  <2>3. D[b] <= D[z] /\ z \in 0 .. t.mask /\ z \in Occ
    BY <1>3, <1>4, <1>8, <2>2
  <2>4. last = z
    <3>1. z \in LastOnes(t)
      BY <2>2, <2>3 DEF LastOnes
    <3>2. ASSUME NEW x \in C, D[x] < D[z]
          PROVE  x \notin LastOnes(t)
      <4>1. ~IsLast(t, x)
        BY <1>1, <1>2, <2>2, <3>2, NotLast
      <4> QED  BY <4>1 DEF LastOnes
    <3> HIDE DEF home
    <3> QED  BY <1>1, <1>2, <1>3, <2>2, <2>3, <3>1, <3>2, WalkToIs
  <2> HIDE DEF last
  <2>5. z # b
    BY <1>11, <2>2
  <2>6. D[b] < D[z]
    <3>1. D[b] # D[z]
      <4> HIDE DEF home
      <4> QED  BY <1>1, <1>2, <1>3, <2>2, <2>5, OneAtEach
    <3>2. D[z] \in Nat
      <4> HIDE DEF home
      <4> QED  BY <1>1, <1>2, <2>2, MemberIs
    <3> QED  BY <1>6, <2>3, <3>1, <3>2
  <2>7. moved = MoveTo(t, b, z)
    BY <2>4
  <2> HIDE DEF moved
  <2>8. /\ IsTable(moved) /\ moved.mask = t.mask /\ moved.count = t.count
        /\ Occupied(moved) = Occ
        /\ moved.key = [t.key EXCEPT ![b] = t.key[z]]
        /\ \A x \in 0 .. t.mask : moved.meta[x].next = t.meta[x].next
    <3> HIDE DEF home
    <3> QED  BY <1>1, <1>2, <1>3, <2>2, <2>7, MovedIs
  <2>9. Threaded(moved, Occ, D) /\ Chain(moved, Occ, home) = C
    <3> HIDE DEF home
    <3> QED  BY <1>1, <1>2, <1>3, <2>2, <2>7, MoveThreaded
  <2> DEFINE t2 == Detached(moved, home, b, z)
  <2>10. r = [stay |-> Stay(b, z), table |-> t2]
    BY <2>1, <2>4
  <2>11. IsLast(moved, z)
    BY <2>2, <2>3, <2>8 DEF IsLast
  <2> HIDE DEF t2
  <2>12. /\ IsTable(t2) /\ t2.mask = moved.mask /\ t2.count = moved.count - 1
         /\ Occupied(t2) = Occupied(moved) \ {z}
         /\ \A x \in (0 .. moved.mask) \ {z} : t2.key[x] = moved.key[x]
         /\ Linked(t2)
    <3>1. t2 = Detached(moved, home, b, z)
      BY DEF t2
    <3>2. b \in Chain(moved, Occupied(moved), home) /\ z \in Chain(moved, Occupied(moved), home)
      BY <1>3, <2>2, <2>8, <2>9
    <3>3. /\ Threaded(moved, Occupied(moved), D) /\ moved.count - 1 \in Nat
          /\ IsTable(moved)
      BY <1>5, <2>8, <2>9
    <3> HIDE DEF home, Occ, C
    <3> QED  BY <2>6, <2>11, <3>1, <3>2, <3>3, DetachedIs
  <2>13. t2.key[b] = t.key[z] /\ \A x \in Occ \ {b, z} : t2.key[x] = t.key[x]
    <3>1. t.key \in [0 .. t.mask -> Keys \cup {Garbage}]
      BY <1>1, TableIs
    <3> HIDE DEF Occ
    <3> QED  BY <1>3, <1>4, <2>5, <2>8, <2>12, <3>1
  <2>14. Home(t, t.key[z]) = home
    BY <1>8, <2>2
  <2>15. Erases(t, b, t2, z)
    BY <2>3, <2>8, <2>12, <2>13, <2>14 DEF Erases
  <2>16. r.table = t2 /\ (r.stay <=> z > b)
    BY <2>10 DEF Stay
  <2> QED  BY <2>15, <2>16 DEF r
<1> QED  BY <1>9, <1>10, <1>11

\* The keys in some of the buckets.
LEMMA KeyIn ==
  ASSUME NEW t, NEW B, NEW k
  PROVE  k \in KeysIn(t, B) <=> \E b \in Occupied(t) : b \in B /\ t.key[b] = k
<1>1. KeysIn(t, B) = {t.key[b] : b \in B \cap Occupied(t)}
  BY Zenon DEF KeysIn
<1> QED  BY <1>1, Zenon

\* A table with keys in it is not a placeholder.
LEMMA CountIs ==
  ASSUME NEW t, Stored(t)
  PROVE  /\ BucketCount(t) \in Nat /\ Occupied(t) \subseteq 0 .. BucketCount(t) - 1
         /\ t.mask \in Nat /\ Occupied(t) \subseteq 0 .. t.mask
         /\ IsTable(t) /\ t.count \in Nat
         /\ t.count = 0 <=> Occupied(t) = {}
<1>1. /\ IsTable(t) /\ t.count = Cardinality(Occupied(t))
      /\ t.mask = 0 => Occupied(t) = {}
  BY DEF Stored
<1>2. t.mask \in Nat /\ t.count \in Nat
  BY <1>1, TableIs
<1>3. IsFiniteSet(Occupied(t)) /\ Occupied(t) \subseteq 0 .. t.mask
  BY <1>1, OccupiedIs
<1>4. t.count = 0 <=> Occupied(t) = {}
  BY <1>1, <1>3, FS_EmptySet
<1> QED  BY <1>1, <1>2, <1>3, <1>4 DEF BucketCount

\* What erasing the key in bucket b does to the keys.
LEMMA ErasesIs ==
  ASSUME NEW t, Stored(t), NEW b \in Occupied(t),
         NEW t2, NEW last, Erases(t, b, t2, last)
  PROVE  /\ Stored(t2) /\ Linked(t2) /\ t2.mask = t.mask
         /\ KeysIn(t2, Occupied(t2)) = KeysIn(t, Occupied(t) \ {b})
         /\ KeysFrom(t2, IF last > b THEN b ELSE b + 1) = KeysFrom(t, b + 1)
<1> DEFINE Occ == Occupied(t)
<1>1. /\ IsTable(t) /\ t.count = Cardinality(Occ)
      /\ t.mask = 0 => Occ = {}
      /\ \A x \in Occ : t.key[x] \in Keys
      /\ \A x, y \in Occ : t.key[x] = t.key[y] => x = y
  BY DEF Stored
<1>2. /\ last \in Occ /\ IsTable(t2) /\ t2.mask = t.mask /\ t2.count = t.count - 1
      /\ Occupied(t2) = Occ \ {last} /\ Linked(t2)
      /\ b # last => t2.key[b] = t.key[last]
      /\ \A x \in Occ \ {b, last} : t2.key[x] = t.key[x]
  BY DEF Erases
<1>3. /\ BucketCount(t) \in Nat /\ Occ \subseteq 0 .. BucketCount(t) - 1
      /\ BucketCount(t2) = BucketCount(t)
  BY <1>2, CountIs DEF BucketCount
<1>4. t2.count = Cardinality(Occ \ {last})
  <2>1. IsFiniteSet(Occ)
    BY <1>1, OccupiedIs
  <2> HIDE DEF Occ
  <2> QED  BY <1>1, <1>2, <2>1, FS_RemoveElement
<1>5. b \in Occ
  OBVIOUS
<1> HIDE DEF Occ
<1>6. Stored(t2)
  <2>1. \A x \in Occ \ {last} : t2.key[x] \in Keys
    BY <1>1, <1>2
  <2>2. \A x, y \in Occ \ {last} : t2.key[x] = t2.key[y] => x = y
    BY <1>1, <1>2
  <2> QED  BY <1>1, <1>2, <1>4, <2>1, <2>2 DEF Stored
<1>7. \A k : k \in KeysIn(t2, Occupied(t2)) <=> \E x \in Occ : x # b /\ t.key[x] = k
  <2> TAKE k
  <2>1. k \in KeysIn(t2, Occupied(t2)) <=> \E x \in Occ \ {last} : t2.key[x] = k
    BY <1>2, KeyIn
  <2> QED  BY <1>2, <1>5, <2>1
<1>8. KeysIn(t2, Occupied(t2)) = KeysIn(t, Occ \ {b})
  <2>1. \A k : k \in KeysIn(t, Occ \ {b}) <=> \E x \in Occ : x # b /\ t.key[x] = k
    BY KeyIn DEF Occ
  <2>2. \A k : k \in KeysIn(t2, Occupied(t2)) <=> k \in KeysIn(t, Occ \ {b})
    BY <1>7, <2>1
  <2> QED  BY <2>2
<1>9. KeysFrom(t2, IF last > b THEN b ELSE b + 1) = KeysFrom(t, b + 1)
  <2> DEFINE from == IF last > b THEN b ELSE b + 1
  <2>0. \A x \in Occ : x \in Int /\ x <= BucketCount(t)
    BY <1>3
  <2>1. \A k : k \in KeysFrom(t, b + 1) <=> \E x \in Occ : x > b /\ t.key[x] = k
    <3> TAKE k
    <3>1. k \in KeysFrom(t, b + 1)
            <=> \E x \in Occ : x \in b + 1 .. BucketCount(t) /\ t.key[x] = k
      BY KeyIn DEF Occ, KeysFrom
    <3>2. \A x \in Occ : x \in b + 1 .. BucketCount(t) <=> x > b
      BY <1>3, <1>5, <2>0
    <3> QED  BY <3>1, <3>2
  <2>2. \A k : k \in KeysFrom(t2, from)
                 <=> \E x \in Occ \ {last} : x >= from /\ t2.key[x] = k
    <3> TAKE k
    <3> HIDE DEF from
    <3>1. k \in KeysFrom(t2, from)
            <=> \E x \in Occ \ {last} : x \in from .. BucketCount(t) /\ t2.key[x] = k
      <4>1. KeysFrom(t2, from) = KeysIn(t2, from .. BucketCount(t))
        BY <1>3 DEF KeysFrom
      <4>2. k \in KeysIn(t2, from .. BucketCount(t))
              <=> \E x \in Occupied(t2) : x \in from .. BucketCount(t) /\ t2.key[x] = k
        BY KeyIn
      <4> QED  BY <1>2, <4>1, <4>2
    <3>2. from \in Int
      BY <1>5, <2>0 DEF from
    <3>3. \A x \in Occ : x \in from .. BucketCount(t) <=> x >= from
      BY <1>3, <3>2, <2>0
    <3> QED  BY <3>1, <3>3
  <2>3. \A k : k \in KeysFrom(t2, from) <=> k \in KeysFrom(t, b + 1)
    <3> SUFFICES ASSUME NEW k
                 PROVE  (\E x \in Occ \ {last} : x >= from /\ t2.key[x] = k)
                          <=> \E x \in Occ : x > b /\ t.key[x] = k
      BY <2>1, <2>2
    <3>1. CASE last > b
      BY <1>2, <1>5, <2>0, <3>1
    <3>2. CASE ~(last > b)
      BY <1>2, <1>5, <2>0, <3>2
    <3> QED  BY <3>1, <3>2
  <2> QED  BY <2>3
<1> QED  BY <1>2, <1>6, <1>8, <1>9 DEF Occ

\* A table without keys.
LEMMA EmptyTableIs ==
  ASSUME NEW n \in Nat, n # 0 => n >= 8 /\ PowerOfTwo(n)
  PROVE  LET t == EmptyTable(n)
         IN  /\ Stored(t) /\ Linked(t) /\ BucketCount(t) = n
             /\ Occupied(t) = {} /\ t.count = 0 /\ t.mask \in Nat
             /\ \A B : KeysIn(t, B) = {}
<1> DEFINE Buckets == IF n = 0 THEN {0} ELSE 0 .. n - 1
           t == EmptyTable(n)
           kk == [b \in Buckets |-> Garbage]
           mm == [b \in Buckets |-> Empty]
           mask == IF n = 0 THEN 0 ELSE n - 1
<1>1. t = [mask |-> mask, count |-> 0, key |-> kk, meta |-> mm]
  BY DEF EmptyTable
<1> HIDE DEF t
<1>2. Buckets = 0 .. mask /\ mask \in Nat
  <2>1. CASE n = 0
    BY <2>1
  <2>2. CASE n # 0
    BY <2>2
  <2> QED  BY <2>1, <2>2
<1>3. kk \in [0 .. mask -> Keys \cup {Garbage}] /\ mm \in [0 .. mask -> Metadata]
  <2>1. Empty \in Metadata
    BY LimitIs DEF Empty, Metadata
  <2> HIDE DEF Buckets
  <2> QED  BY <1>2, <2>1
<1>4. \A b \in 0 .. mask : mm[b] = Empty
  <2> HIDE DEF Buckets
  <2> QED  BY <1>2
<1> HIDE DEF kk, mm
<1>5. t.mask = mask /\ t.count = 0 /\ t.key = kk /\ t.meta = mm
  BY <1>1
<1>6. mask # 0 => mask >= 7 /\ PowerOfTwo(mask + 1)
  OBVIOUS
<1> HIDE DEF mask
<1>7. IsTable(t)
  <2>1. t \in [mask : Nat, count : Nat,
               key  : [0 .. mask -> Keys \cup {Garbage}],
               meta : [0 .. mask -> Metadata]]
    BY <1>1, <1>2, <1>3
  <2> QED  BY <1>5, <1>6, <2>1 DEF IsTable, Metadata
<1>8. Occupied(t) = {}
  BY <1>4, <1>5 DEF Occupied
<1>9. BucketCount(t) = n
  BY <1>5 DEF BucketCount, mask
<1>10. Stored(t)
  BY <1>5, <1>7, <1>8, FS_EmptySet DEF Stored
<1>11. Linked(t)
  <2> DEFINE D == [b \in 0 .. t.mask |-> 0]
  <2>1. D \in [0 .. t.mask -> Displacements]
    BY LimitIs DEF Displacements
  <2> HIDE DEF D
  <2>2. Threaded(t, {}, D)
    BY <2>1 DEF Threaded
  <2> QED  BY <1>8, <2>2 DEF Linked
<1>12. \A B : KeysIn(t, B) = {}
  BY <1>8, KeyIn
<1> QED  BY <1>2, <1>5, <1>8, <1>9, <1>10, <1>11, <1>12 DEF t

LEMMA EightIsPower == PowerOfTwo(8)
  BY FourIsPower, DoublePower

\* _min_bucket_count_for_size.
LEMMA MinBucketCountIs ==
  ASSUME NEW size \in Nat
  PROVE  LET n == min_bucket_count_for_size(size)
         IN  n \in Nat /\ (n # 0 => n >= 8 /\ PowerOfTwo(n)) /\ (n = 0 <=> size = 0)
<1> DEFINE N == {n \in 8 .. 16 * size : PowerOfTwo(n) /\ 8 * size <= 7 * n}
           P == {n \in 8 .. 16 * size : PowerOfTwo(n)}
<1>1. CASE size = 0
  BY <1>1 DEF min_bucket_count_for_size
<1>2. CASE size # 0
  <2>1. 16 * size \in Nat /\ 8 \in P
    BY <1>2, EightIsPower
  <2>2. PICK p \in P : \A x \in P : x <= p
    <3>1. P \in SUBSET (0 .. 16 * size) /\ P # {}
      BY <2>1
    <3> HIDE DEF P
    <3> QED  BY <2>1, <3>1, GreatestElement
  <2>3. p \in Nat /\ p >= 8 /\ PowerOfTwo(p) /\ PowerOfTwo(2 * p)
    BY DoublePower
  <2>4. 2 * p > 16 * size
    <3> SUFFICES ASSUME 2 * p <= 16 * size
                 PROVE  FALSE
      BY <2>1, <2>3
    <3>1. 2 * p \in P
      BY <2>1, <2>3
    <3> QED  BY <2>2, <2>3, <3>1
  <2>5. p \in N
    BY <2>3, <2>4
  <2>6. Min(N) \in N
    <3>1. N \in SUBSET Nat /\ N # {}
      BY <2>5
    <3> HIDE DEF N
    <3> QED  BY <3>1, MinIs
  <2>7. min_bucket_count_for_size(size) = Min(N)
    BY <1>2 DEF min_bucket_count_for_size
  <2> QED  BY <1>2, <2>6, <2>7
<1> QED  BY <1>1, <1>2

\* There are as many keys as buckets that hold one.
LEMMA KeysCountedIs ==
  ASSUME NEW t, Stored(t)
  PROVE  /\ KeysCounted(t) /\ IsFiniteSet(KeysIn(t, Occupied(t)))
         /\ Cardinality(KeysIn(t, Occupied(t))) = t.count
<1> DEFINE Occ == Occupied(t)
           Held == {t.key[b] : b \in Occ}
           f == [b \in Occ |-> t.key[b]]
<1>1. /\ IsTable(t) /\ t.count = Cardinality(Occ)
      /\ \A x, y \in Occ : t.key[x] = t.key[y] => x = y
  BY DEF Stored
<1>2. IsFiniteSet(Occ)
  BY <1>1, OccupiedIs
<1>3. ExistsBijection(Occ, Held)
  <2> HIDE DEF Occ
  <2>1. \A b \in Occ : f[b] \in Held
    OBVIOUS
  <2>2. f \in [Occ -> Held]
    BY <2>1
  <2>3. f \in Injection(Occ, Held)
    <3>1. \A x, y \in Occ : f[x] = f[y] => x = y
      BY <1>1
    <3> HIDE DEF f, Held
    <3> QED  BY <2>2, <3>1 DEF Injection, IsInjective
  <2>4. \A v \in Held : \E b \in Occ : f[b] = v
    OBVIOUS
  <2> HIDE DEF f
  <2>5. f \in Surjection(Occ, Held)
    BY <2>2, <2>4 DEF Surjection
  <2> HIDE DEF Held
  <2> QED  BY <2>3, <2>5 DEF ExistsBijection, Bijection
<1>4. IsFiniteSet(Held) /\ Cardinality(Held) = Cardinality(Occ)
  <2> HIDE DEF Occ, Held
  <2> QED  BY <1>2, <1>3, FS_Bijection
<1>5. KeysIn(t, Occ) = Held
  BY DEF KeysIn
<1> QED  BY <1>1, <1>4, <1>5 DEF KeysCounted

\* A table that holds some of the keys of another one has fewer.
LEMMA FewerKeys ==
  ASSUME NEW t, Stored(t), NEW u, Stored(u),
         KeysIn(u, Occupied(u)) \subseteq KeysIn(t, Occupied(t)),
         KeysIn(u, Occupied(u)) # KeysIn(t, Occupied(t))
  PROVE  u.count < t.count
<1> DEFINE T == KeysIn(t, Occupied(t))
           U == KeysIn(u, Occupied(u))
<1>1. IsFiniteSet(T) /\ Cardinality(T) = t.count /\ Cardinality(U) = u.count
  BY KeysCountedIs
<1>2. U \in SUBSET T /\ U # T
  OBVIOUS
<1> HIDE DEF T, U
<1>3. Cardinality(U) <= Cardinality(T) /\ Cardinality(U) # Cardinality(T)
  BY <1>1, <1>2, FS_Subset
<1>4. t.count \in Nat /\ u.count \in Nat
  BY CountIs
<1> QED  BY <1>1, <1>3, <1>4

\* _fast_forward.
LEMMA ItrFromIs ==
  ASSUME NEW t, Stored(t), NEW b \in Nat
  PROVE  LET x == ItrFrom(t, b).at
         IN  /\ ItrFrom(t, b).home = Unknown
             /\ x \in Occupied(t) \cup {BucketCount(t)}
             /\ x \in Occupied(t) => x >= b
             /\ \A y \in Occupied(t) : y >= b => x <= y
             /\ KeysFrom(t, x) = KeysFrom(t, b)
<1> DEFINE Ahead == {x \in Occupied(t) : x >= b} \cup {BucketCount(t)}
           m == Min(Ahead)
<1>1. /\ BucketCount(t) \in Nat /\ Occupied(t) \subseteq 0 .. BucketCount(t) - 1
  BY CountIs
<1>2. Ahead \in SUBSET Nat /\ Ahead # {}
  BY <1>1
<1>3. m \in Ahead /\ \A x \in Ahead : m <= x
  <2> HIDE DEF Ahead
  <2> QED  BY <1>2, MinIs
<1>4. ItrFrom(t, b).at = m /\ ItrFrom(t, b).home = Unknown
  BY DEF ItrFrom
<1> HIDE DEF m
<1>5. \A x \in Occupied(t) : x \in m .. BucketCount(t) <=> x \in b .. BucketCount(t)
  BY <1>1, <1>2, <1>3
<1>6. KeysFrom(t, m) = KeysFrom(t, b)
  <2>1. \A B, k : k \in KeysIn(t, B) <=> \E x \in Occupied(t) : x \in B /\ t.key[x] = k
    BY KeyIn
  <2>2. \A k : k \in KeysFrom(t, m) <=> k \in KeysFrom(t, b)
    BY <1>5, <2>1 DEF KeysFrom
  <2> QED  BY <2>2
<1>7. m \in Occupied(t) => m >= b
  BY <1>1, <1>3
<1>8. /\ m \in Occupied(t) \cup {BucketCount(t)}
      /\ \A y \in Occupied(t) : y >= b => m <= y
  BY <1>3
<1> HIDE DEF Ahead
<1> QED  BY <1>4, <1>6, <1>7, <1>8

\* The invariant says what ChainsIntact says.
LEMMA LinkedIntact ==
  ASSUME NEW t, Stored(t), Linked(t)
  PROVE  Intact(t)
<1>1. IsTable(t)
  BY DEF Stored
<1>2. PICK D : Threaded(t, Occupied(t), D)
  BY DEF Linked
<1> SUFFICES ASSUME NEW b \in Occupied(t)
             PROVE  LET home == Home(t, t.key[b])
                        chain == Walk(t, home, home)
                    IN  /\ t.meta[home].first
                        /\ b \in {chain[n] : n \in DOMAIN chain}
                        /\ t.meta[b].first <=> b = home
                        /\ t.meta[b].frag = Frag[t.key[b]]
                        /\ ~IsLast(t, b) =>
                             /\ Link(t, home, b) \in Occupied(t)
                             /\ t.meta[b].next < t.meta[Link(t, home, b)].next
  BY DEF Intact
<1> DEFINE home == Home(t, t.key[b])
           chain == Walk(t, home, home)
           C == Chain(t, Occupied(t), home)
<1>3. b \in C
  BY DEF Chain
<1> HIDE DEF home
<1>4. /\ home \in C /\ (t.meta[b].first <=> b = home)
      /\ t.meta[b].frag = Frag[t.key[b]] /\ D[b] \in Nat
  BY <1>1, <1>2, <1>3, MemberIs
<1>5. t.meta[home].first /\ D[home] = 0
  BY <1>1, <1>2, <1>4, MemberIs
<1>6. b \in {chain[n] : n \in DOMAIN chain}
  <2>1. D[home] <= D[b]
    BY <1>4, <1>5
  <2>2. PICK n \in Displacements : chain[n] = b
    BY <1>1, <1>2, <1>3, <1>4, <2>1, WalkVisits
  <2>3. DOMAIN chain = Displacements
    BY WalkExists
  <2> HIDE DEF chain
  <2> QED  BY <2>2, <2>3
<1>7. ASSUME ~IsLast(t, b)
      PROVE  /\ Link(t, home, b) \in Occupied(t)
             /\ t.meta[b].next < t.meta[Link(t, home, b)].next
  <2> DEFINE y == Link(t, home, b)
  <2>1. y \in C /\ D[y] = t.meta[b].next
    BY <1>2, <1>3, <1>7, NextIs
  <2> HIDE DEF y
  <2>2. y \in Occupied(t) /\ D[y] < t.meta[y].next
    BY <1>1, <1>2, <2>1, MemberIs
  <2> QED  BY <2>1, <2>2 DEF y
<1> HIDE DEF chain
<1> QED  BY <1>4, <1>5, <1>6, <1>7 DEF home, chain

-----------------------------------------------------------------------------
(* The invariant.                                                          *)

\* What it says between two calls.
LEMMA IdleIs ==
  ASSUME IInv, pc = "idle"
  PROVE  /\ Stored(table) /\ Linked(table) /\ Stored(new_table)
         /\ key = Garbage /\ bucket = 0 /\ bucket_count \in Nat
         /\ made \in BOOLEAN
         /\ itr.at \in Occupied(table) \cup {BucketCount(table)}
         /\ itr.home \in {Unknown} \cup 0 .. table.mask
         /\ is_itr_valid => itr.at \in Occupied(table)
         /\ is_itr_valid /\ itr.home # Unknown =>
              itr.home = Home(table, table.key[itr.at])
  BY DEF IInv, TypeOK, Calls, Tables, ItrRight, is_itr_valid

\* A call that runs to its end.
LEMMA IdleStep ==
  ASSUME IInv, pc = "idle", UNCHANGED <<pc, key, rvars>>,
         made' \in BOOLEAN, Stored(table'), Linked(table'),
         itr'.at \in Occupied(table') \cup {BucketCount(table')},
         itr'.home \in {Unknown} \cup 0 .. table'.mask,
         itr'.at # BucketCount(table') /\ itr'.home # Unknown =>
           itr'.home = Home(table', table'.key[itr'.at]),
         ~made' => table' = EmptyTable(0) /\ itr' = EndItr(table')
  PROVE  IInv'
<1>1. /\ pc' = "idle" /\ key' = Garbage /\ bucket' = 0 /\ bucket_count' \in Nat
      /\ Stored(new_table')
  BY IdleIs DEF rvars
<1>2. IsTable(table') /\ IsTable(new_table') /\ BucketCount(table') \in Nat
  BY <1>1, CountIs
<1>3. TypeOK'
  BY <1>1, <1>2 DEF TypeOK
<1>4. Calls'
  BY <1>1 DEF Calls
<1>5. Tables'
  BY <1>1 DEF Tables
<1>6. ItrRight'
  BY DEF ItrRight, is_itr_valid
<1> QED  BY <1>3, <1>4, <1>5, <1>6 DEF IInv

\* The end iterator.
LEMMA EndItrIs ==
  ASSUME NEW t, Stored(t), NEW u, u.mask = t.mask
  PROVE  /\ EndItr(t).at = BucketCount(t) /\ EndItr(t).home = Unknown
         /\ EndItr(u) = EndItr(t)
  BY DEF EndItr, BucketCount

\* A call that goes on.
LEMMA CallStep ==
  ASSUME IInv, Idle, UNCHANGED <<made, table, new_table, bucket>>,
         itr' = EndItr(table),
         \/ /\ pc' = "insert" /\ key' \in Keys /\ bucket_count' = bucket_count
         \/ /\ pc' = "rehash" /\ key' = Garbage
            /\ bucket_count' \in Nat /\ bucket_count' >= 8
            /\ PowerOfTwo(bucket_count')
  PROVE  IInv'
<1>1. /\ Stored(table) /\ Linked(table) /\ Stored(new_table) /\ made = TRUE
      /\ bucket = 0 /\ bucket_count \in Nat
  BY IdleIs DEF Idle
<1>2. IsTable(table) /\ IsTable(new_table) /\ BucketCount(table) \in Nat
  BY <1>1, CountIs
<1>3. itr'.at = BucketCount(table) /\ itr'.home = Unknown
  BY <1>1, EndItrIs
<1>4. Garbage \notin Keys
  BY VerstableAssumption
<1>5. TypeOK'
  BY <1>1, <1>2, <1>3 DEF TypeOK
<1>6. Calls'
  BY <1>1, <1>4 DEF Calls
<1>7. Tables'
  BY <1>1 DEF Tables
<1>8. ItrRight'
  BY <1>3 DEF ItrRight, is_itr_valid
<1> QED  BY <1>5, <1>6, <1>7, <1>8 DEF IInv

LEMMA InitIs == Init => IInv
<1> SUFFICES ASSUME Init
             PROVE  IInv
  OBVIOUS
<1>1. /\ Stored(EmptyTable(0)) /\ Linked(EmptyTable(0))
      /\ BucketCount(EmptyTable(0)) = 0
  BY EmptyTableIs
<1>2. IsTable(EmptyTable(0))
  BY <1>1, CountIs
<1>3. /\ made = FALSE /\ table = EmptyTable(0) /\ itr = EndItr(table)
      /\ pc = "idle" /\ key = Garbage
      /\ bucket_count = 0 /\ new_table = EmptyTable(0) /\ bucket = 0
  BY DEF Init, NoRehash
<1>4. itr.at = BucketCount(table) /\ itr.home = Unknown
  BY <1>3 DEF EndItr
<1>a. IsTable(table) /\ IsTable(new_table) /\ bucket \in 0 .. BucketCount(table)
  BY <1>1, <1>2, <1>3
<1>5. TypeOK
  BY <1>3, <1>4, <1>a DEF TypeOK
<1>6. Calls
  BY <1>3 DEF Calls
<1>7. Tables
  BY <1>1, <1>3 DEF Tables
<1>8. ItrRight
  BY <1>4 DEF ItrRight, is_itr_valid
<1> QED  BY <1>5, <1>6, <1>7, <1>8 DEF IInv

LEMMA CreateStep ==
  ASSUME IInv, create_table
  PROVE  IInv'
<1>1. pc = "idle"
  BY DEF IInv, Calls, create_table
<1>2. /\ made' = TRUE /\ UNCHANGED <<table, itr, pc, key, rvars>>
  BY DEF create_table
<1> QED  BY <1>1, <1>2, IdleIs, IdleStep DEF is_itr_valid

LEMMA DestroyStep ==
  ASSUME IInv, destroy_table
  PROVE  IInv'
<1>1. /\ pc = "idle" /\ made' = FALSE /\ table' = EmptyTable(0)
      /\ itr' = EndItr(table') /\ UNCHANGED <<pc, key, rvars>>
  BY DEF destroy_table, Idle
<1>2. Stored(table') /\ Linked(table')
  BY <1>1, EmptyTableIs
<1>3. itr'.at = BucketCount(table') /\ itr'.home = Unknown
  BY <1>1, <1>2, EndItrIs
<1> QED  BY <1>1, <1>2, <1>3, IdleStep

\* The bucket that get() finds.
LEMMA FoundIs ==
  ASSUME NEW t, Stored(t), Linked(t), NEW k \in Keys, get(t, k) # {}
  PROVE  LET b == Min(get(t, k))
         IN  b \in Occupied(t) /\ t.key[b] = k /\ get(t, k) = {b}
<1>1. get(t, k) = {b \in Occupied(t) : t.key[b] = k}
  BY GetIs
<1>2. \A x, y \in Occupied(t) : t.key[x] = t.key[y] => x = y
  BY DEF Stored
<1>3. PICK b \in Occupied(t) : t.key[b] = k
  BY <1>1
<1>4. get(t, k) = {b}
  BY <1>1, <1>2, <1>3
<1>5. b \in Nat
  BY CountIs
<1>6. Min({b}) = b
  BY <1>5, MinOf
<1> QED  BY <1>3, <1>4, <1>6

LEMMA FindStep ==
  ASSUME IInv, NEW k \in Keys, find(k)
  PROVE  IInv'
<1>1. /\ pc = "idle" /\ made /\ UNCHANGED <<made, table, pc, key, rvars>>
      /\ itr' = IF get(table, k) = {} THEN EndItr(table)
                ELSE [at |-> Min(get(table, k)), home |-> Home(table, k)]
  BY DEF find, Idle
<1>2. Stored(table) /\ Linked(table) /\ made \in BOOLEAN
  BY <1>1, IdleIs
<1>3. /\ itr'.at \in Occupied(table) \cup {BucketCount(table)}
      /\ itr'.home \in {Unknown} \cup 0 .. table.mask
      /\ itr'.at # BucketCount(table) /\ itr'.home # Unknown =>
           itr'.home = Home(table, table.key[itr'.at])
  <2>1. CASE get(table, k) = {}
    BY <1>1, <1>2, <2>1, EndItrIs
  <2>2. CASE get(table, k) # {}
    <3> DEFINE b == Min(get(table, k))
    <3>1. b \in Occupied(table) /\ table.key[b] = k
      BY <1>2, <2>2, FoundIs
    <3>2. Home(table, k) \in 0 .. table.mask
      BY <1>2, CountIs, HomeIs
    <3>3. itr' = [at |-> b, home |-> Home(table, k)]
      BY <1>1, <2>2
    <3> HIDE DEF b
    <3> QED  BY <3>1, <3>2, <3>3
  <2> QED  BY <2>1, <2>2
<1> QED  BY <1>1, <1>2, <1>3, IdleStep

LEMMA BeginStep ==
  ASSUME IInv, begin_itr
  PROVE  IInv'
<1>1. /\ pc = "idle" /\ made /\ UNCHANGED <<made, table, pc, key, rvars>>
      /\ itr' = IF table.count = 0 THEN EndItr(table) ELSE ItrFrom(table, 0)
  BY DEF begin_itr, Idle
<1>2. Stored(table) /\ Linked(table) /\ made \in BOOLEAN
  BY <1>1, IdleIs
<1>3. /\ itr'.at \in Occupied(table) \cup {BucketCount(table)}
      /\ itr'.home = Unknown
  BY <1>1, <1>2, EndItrIs, ItrFromIs
<1> QED  BY <1>1, <1>2, <1>3, IdleStep

LEMMA IncrementStep ==
  ASSUME IInv, increment_itr
  PROVE  IInv'
<1>1. /\ pc = "idle" /\ made /\ UNCHANGED <<made, table, pc, key, rvars>>
      /\ is_itr_valid /\ itr' = ItrFrom(table, itr.at + 1)
  BY DEF increment_itr, Idle
<1>2. /\ Stored(table) /\ Linked(table) /\ made \in BOOLEAN
      /\ itr.at \in Occupied(table)
  BY <1>1, IdleIs
<1>3. itr.at + 1 \in Nat
  BY <1>2, CountIs
<1>4. /\ itr'.at \in Occupied(table) \cup {BucketCount(table)}
      /\ itr'.home = Unknown
  BY <1>1, <1>2, <1>3, ItrFromIs
<1> QED  BY <1>1, <1>2, <1>4, IdleStep

LEMMA ClearStep ==
  ASSUME IInv, clear
  PROVE  IInv'
<1> DEFINE n == BucketCount(table)
<1>1. /\ pc = "idle" /\ made /\ UNCHANGED <<made, pc, key, rvars>>
      /\ table' = EmptyTable(n) /\ itr' = EndItr(table)
  BY DEF clear, Idle
<1>2. Stored(table) /\ made \in BOOLEAN
  BY <1>1, IdleIs
<1>3. n \in Nat /\ (n # 0 => n >= 8 /\ PowerOfTwo(n))
  BY <1>2, CountIs DEF BucketCount, IsTable
<1>4. itr'.at = n /\ itr'.home = Unknown
  BY <1>1, <1>2, EndItrIs
<1> HIDE DEF n
<1>5. Stored(table') /\ Linked(table') /\ BucketCount(table') = n
  BY <1>1, <1>3, EmptyTableIs
<1> QED  BY <1>1, <1>2, <1>4, <1>5, IdleStep

LEMMA InsertStep ==
  ASSUME IInv, NEW k \in Keys, insert(k)
  PROVE  IInv'
  BY CallStep DEF insert, rvars

LEMMA ReserveStep ==
  ASSUME IInv, NEW size \in ReserveSizes, reserve(size)
  PROVE  IInv'
<1> DEFINE n == min_bucket_count_for_size(size)
<1>1. Idle /\ n > BucketCount(table) /\ Resize(n)
  BY DEF reserve
<1>2. size \in Nat
  BY VerstableAssumption
<1>3. n \in Nat /\ (n # 0 => n >= 8 /\ PowerOfTwo(n))
  BY <1>2, MinBucketCountIs
<1>4. BucketCount(table) \in Nat /\ key = Garbage
  BY <1>1, IdleIs, CountIs DEF Idle
<1> HIDE DEF n
<1> QED  BY <1>1, <1>3, <1>4, CallStep DEF Resize

LEMMA ShrinkStep ==
  ASSUME IInv, shrink
  PROVE  IInv'
<1> DEFINE n == min_bucket_count_for_size(table.count)
<1>1. /\ Idle /\ pc = "idle" /\ made
      /\ IF n > 0 THEN Resize(n)
         ELSE /\ table' = EmptyTable(0) /\ itr' = EndItr(table')
              /\ UNCHANGED <<made, pc, key, rvars>>
  BY DEF shrink, Idle
<1>2. /\ Stored(table) /\ key = Garbage /\ made \in BOOLEAN
      /\ table.count \in Nat
  BY <1>1, IdleIs, CountIs
<1>3. n \in Nat /\ (n # 0 => n >= 8 /\ PowerOfTwo(n))
  BY <1>2, MinBucketCountIs
<1> HIDE DEF n
<1>4. CASE n > 0
  BY <1>1, <1>2, <1>3, <1>4, CallStep DEF Resize
<1>5. CASE ~(n > 0)
  <2>1. /\ table' = EmptyTable(0) /\ itr' = EndItr(table')
        /\ UNCHANGED <<made, pc, key, rvars>>
    BY <1>1, <1>5
  <2>2. Stored(table') /\ Linked(table')
    BY <2>1, EmptyTableIs
  <2>3. itr'.at = BucketCount(table') /\ itr'.home = Unknown
    BY <2>1, <2>2, EndItrIs
  <2> QED  BY <1>1, <1>2, <2>1, <2>2, <2>3, IdleStep
<1> QED  BY <1>4, <1>5

\* _erase_itr_raw is told the home bucket of the key it erases.
LEMMA HomeOfItrIs ==
  ASSUME IInv, pc = "idle", is_itr_valid
  PROVE  HomeOfItr = Home(table, table.key[itr.at])
<1> DEFINE b == itr.at
<1>1. /\ Stored(table) /\ Linked(table) /\ b \in Occupied(table)
      /\ itr.home # Unknown => itr.home = Home(table, table.key[b])
  BY IdleIs
<1>2. IsTable(table)
  BY <1>1 DEF Stored
<1>3. PICK D : Threaded(table, Occupied(table), D)
  BY <1>1 DEF Linked
<1>4. table.meta[b].first <=> b = Home(table, table.key[b])
  <2>1. b \in Chain(table, Occupied(table), Home(table, table.key[b]))
    BY <1>1 DEF Chain
  <2> HIDE DEF b
  <2> QED  BY <1>2, <1>3, <2>1, MemberIs
<1> QED  BY <1>1, <1>4 DEF HomeOfItr

\* erase_itr(): what becomes of the table and the iterator.
LEMMA EraseItrIs ==
  ASSUME IInv, erase_itr
  PROVE  /\ pc = "idle" /\ made /\ UNCHANGED <<made, pc, key, rvars>>
         /\ itr.at \in Occupied(table) /\ itr.at \in Nat
         /\ Stored(table') /\ Linked(table') /\ table'.mask = table.mask
         /\ KeysIn(table', Occupied(table')) =
              KeysIn(table, Occupied(table) \ {itr.at})
         /\ itr'.at \in Occupied(table') \cup {BucketCount(table')}
         /\ KeysFrom(table', itr'.at) = KeysFrom(table, itr.at + 1)
         /\ itr'.home \in {Unknown} \cup 0 .. table'.mask
         /\ itr'.home # Unknown =>
              itr'.home = Home(table', table'.key[itr'.at])
<1> DEFINE b == itr.at
           r == erase_itr_raw(table, b, HomeOfItr)
<1>1. /\ pc = "idle" /\ made /\ is_itr_valid /\ UNCHANGED <<made, pc, key, rvars>>
      /\ table' = r.table
      /\ itr' = IF r.stay THEN itr ELSE ItrFrom(r.table, b + 1)
  BY DEF erase_itr, Idle
<1>2. /\ Stored(table) /\ Linked(table) /\ b \in Occupied(table)
      /\ itr.home \in {Unknown} \cup 0 .. table.mask
      /\ itr.home # Unknown => itr.home = Home(table, table.key[b])
  BY <1>1, IdleIs
<1>3. b \in Nat
  BY <1>2, CountIs
<1>4. PICK last : Erases(table, b, r.table, last) /\ (r.stay <=> last > b)
  BY <1>1, <1>2, EraseRawIs, HomeOfItrIs
<1> HIDE DEF r, b
<1>5. Erases(table, b, table', last)
  BY <1>1, <1>4
<1>6. /\ Stored(table') /\ Linked(table') /\ table'.mask = table.mask
      /\ KeysIn(table', Occupied(table')) = KeysIn(table, Occupied(table) \ {b})
      /\ KeysFrom(table', IF last > b THEN b ELSE b + 1) = KeysFrom(table, b + 1)
  BY <1>2, <1>5, ErasesIs
<1>7. CASE last > b
  <2>1. itr' = itr
    BY <1>1, <1>4, <1>7
  <2>2. KeysFrom(table', b) = KeysFrom(table, b + 1)
    BY <1>6, <1>7
  <2>3. /\ b \in Occupied(table') /\ table'.key[b] = table.key[last]
        /\ Home(table, table.key[last]) = Home(table, table.key[b])
    BY <1>2, <1>3, <1>5, <1>7 DEF Erases
  <2>4. Home(table', table'.key[b]) = Home(table, table.key[b])
    BY <1>6, <2>3, SameMask
  <2> QED  BY <1>1, <1>2, <1>3, <1>6, <2>1, <2>2, <2>3, <2>4 DEF b
<1>8. CASE ~(last > b)
  <2>1. itr' = ItrFrom(table', b + 1)
    BY <1>1, <1>4, <1>8
  <2>2. KeysFrom(table', b + 1) = KeysFrom(table, b + 1)
    BY <1>6, <1>8
  <2>3. b + 1 \in Nat
    BY <1>3
  <2>4. /\ itr'.home = Unknown
        /\ itr'.at \in Occupied(table') \cup {BucketCount(table')}
        /\ KeysFrom(table', itr'.at) = KeysFrom(table', b + 1)
    BY <1>6, <2>1, <2>3, ItrFromIs
  <2> QED  BY <1>1, <1>2, <1>3, <1>6, <2>2, <2>4 DEF b
<1> QED  BY <1>7, <1>8

LEMMA EraseItrStep ==
  ASSUME IInv, erase_itr
  PROVE  IInv'
<1>1. made \in BOOLEAN
  BY IdleIs, EraseItrIs
<1> QED  BY <1>1, EraseItrIs, IdleStep

\* erase(): what becomes of the table.
LEMMA EraseIs ==
  ASSUME IInv, NEW k \in Keys, erase(k)
  PROVE  /\ pc = "idle" /\ made /\ UNCHANGED <<made, pc, key, rvars>>
         /\ Stored(table') /\ Linked(table') /\ table'.mask = table.mask
         /\ KeysIn(table', Occupied(table')) =
              KeysIn(table, Occupied(table)) \ {k}
         /\ itr' = EndItr(table')
<1>1. /\ pc = "idle" /\ made /\ UNCHANGED <<made, pc, key, rvars>>
      /\ table' = IF get(table, k) = {} THEN table
                  ELSE erase_itr_raw(table, Min(get(table, k)),
                                     Home(table, k)).table
      /\ itr' = EndItr(table)
  BY DEF erase, Idle
<1>2. Stored(table) /\ Linked(table)
  BY <1>1, IdleIs
<1>3. get(table, k) = {b \in Occupied(table) : table.key[b] = k}
  BY <1>2, GetIs
<1>4. CASE get(table, k) = {}
  <2>1. table' = table
    BY <1>1, <1>4
  <2>2. k \notin KeysIn(table, Occupied(table))
    BY <1>3, <1>4, KeysInIs
  <2> QED  BY <1>1, <1>2, <2>1, <2>2
<1>5. CASE get(table, k) # {}
  <2> DEFINE b == Min(get(table, k))
             r == erase_itr_raw(table, b, Home(table, k))
  <2>1. b \in Occupied(table) /\ table.key[b] = k
    BY <1>2, <1>5, FoundIs
  <2>2. table' = r.table
    BY <1>1, <1>5
  <2> HIDE DEF b
  <2>3. PICK last : Erases(table, b, r.table, last)
    BY <1>2, <2>1, EraseRawIs
  <2> HIDE DEF r
  <2>4. Erases(table, b, table', last)
    BY <2>2, <2>3
  <2>5. /\ Stored(table') /\ Linked(table') /\ table'.mask = table.mask
        /\ KeysIn(table', Occupied(table')) =
             KeysIn(table, Occupied(table)) \ {k}
    <3>1. /\ Stored(table') /\ Linked(table') /\ table'.mask = table.mask
          /\ KeysIn(table', Occupied(table')) =
               KeysIn(table, Occupied(table) \ {b})
      BY <1>2, <2>1, <2>4, ErasesIs
    <3>2. \A x, y \in Occupied(table) : table.key[x] = table.key[y] => x = y
      BY <1>2 DEF Stored
    <3>3. \A v : v \in KeysIn(table, Occupied(table) \ {b})
                   <=> v \in KeysIn(table, Occupied(table)) \ {k}
      <4>1. \A v : v \in KeysIn(table, Occupied(table) \ {b})
                     <=> \E x \in Occupied(table) : x # b /\ table.key[x] = v
        BY KeyIn
      <4>2. \A v : v \in KeysIn(table, Occupied(table))
                     <=> \E x \in Occupied(table) : table.key[x] = v
        BY KeyIn
      <4> QED  BY <2>1, <3>2, <4>1, <4>2
    <3> QED  BY <3>1, <3>3
  <2>6. EndItr(table') = EndItr(table)
    BY <1>2, <2>5, EndItrIs
  <2> QED  BY <1>1, <2>5, <2>6
<1> QED  BY <1>4, <1>5

LEMMA EraseStep ==
  ASSUME IInv, NEW k \in Keys, erase(k)
  PROVE  IInv'
<1>1. made \in BOOLEAN
  BY IdleIs, EraseIs
<1>2. itr'.at = BucketCount(table') /\ itr'.home = Unknown
  BY EraseIs, EndItrIs
<1> QED  BY <1>1, <1>2, EraseIs, IdleStep

\* A call that tries to insert has a key for it.
LEMMA KeyIs ==
  ASSUME IInv, pc # "idle"
  PROVE  /\ made /\ itr = EndItr(table)
         /\ Stored(table) /\ Stored(new_table)
         /\ key \in Keys \cup {Garbage} /\ bucket_count \in Nat
         /\ made \in BOOLEAN /\ bucket \in 0 .. BucketCount(table)
         /\ BucketCount(table) \in Nat
         /\ pc = "insert" => key \in Keys /\ Linked(table) /\ bucket = 0
         /\ key = Garbage => Linked(table)
<1>1. /\ made /\ itr = EndItr(table)
      /\ Stored(table) /\ Stored(new_table)
      /\ key \in Keys \cup {Garbage} /\ bucket_count \in Nat
      /\ made \in BOOLEAN /\ bucket \in 0 .. BucketCount(table)
      /\ pc = "insert" => key # Garbage /\ Linked(table) /\ bucket = 0
      /\ key = Garbage => Linked(table)
  BY DEF IInv, TypeOK, Calls, Tables
<1>2. BucketCount(table) \in Nat
  BY <1>1, CountIs
<1> QED  BY <1>1, <1>2

\* The attempt of _insert: the keys are those of before, and the new one if it
\* succeeds.
LEMMA TryInsertIs ==
  ASSUME IInv, TryInsert
  PROVE  /\ pc = "insert" /\ key \in Keys /\ UNCHANGED <<made, itr, new_table, bucket>>
         /\ Stored(table') /\ table'.mask = table.mask
         /\ itr' = EndItr(table')
         /\ \/ /\ pc' = "idle" /\ key' = Garbage /\ bucket_count' = bucket_count
               /\ Linked(table')
               /\ KeysIn(table', Occupied(table')) =
                    KeysIn(table, Occupied(table)) \cup {key}
            \/ /\ pc' = "rehash" /\ key' = key /\ bucket_count' = GrownCount(table')
               /\ KeysIn(table', Occupied(table')) = KeysIn(table, Occupied(table))
<1> DEFINE r == insert_raw(table, key, FALSE)
<1>1. /\ pc = "insert" /\ UNCHANGED <<made, itr, new_table, bucket>>
      /\ table' = r.table
      /\ IF r.ok
         THEN pc' = "idle" /\ key' = Garbage /\ UNCHANGED bucket_count
         ELSE pc' = "rehash" /\ bucket_count' = GrownCount(r.table) /\ UNCHANGED key
  BY DEF TryInsert
<1>2. /\ key \in Keys /\ Stored(table) /\ Linked(table) /\ itr = EndItr(table)
  BY <1>1, KeyIs
<1>3. /\ r.ok \in BOOLEAN
      /\ Stored(r.table) /\ r.table.mask = table.mask
      /\ ~r.ok => KeysIn(r.table, Occupied(r.table)) = KeysIn(table, Occupied(table))
      /\ r.ok => /\ Linked(r.table)
                 /\ KeysIn(r.table, Occupied(r.table)) =
                      KeysIn(table, Occupied(table)) \cup {key}
  <2>1. FALSE \in BOOLEAN
    OBVIOUS
  <2> QED  BY <1>2, <2>1, InsertIs
<1> HIDE DEF r
<1>4. itr' = EndItr(table')
  BY <1>1, <1>2, <1>3, EndItrIs
<1> QED  BY <1>1, <1>2, <1>3, <1>4

LEMMA TryInsertStep ==
  ASSUME IInv, TryInsert
  PROVE  IInv'
<1>1. /\ pc = "insert" /\ key \in Keys
      /\ UNCHANGED <<made, itr, new_table, bucket>>
      /\ Stored(table') /\ itr' = EndItr(table')
      /\ \/ /\ pc' = "idle" /\ key' = Garbage /\ bucket_count' = bucket_count
            /\ Linked(table')
         \/ /\ pc' = "rehash" /\ key' = key /\ bucket_count' = GrownCount(table')
  BY TryInsertIs
<1>2. /\ made /\ made \in BOOLEAN /\ Stored(new_table)
      /\ bucket_count \in Nat /\ bucket = 0
  BY <1>1, KeyIs
<1>3. IsTable(table') /\ IsTable(new_table') /\ BucketCount(table') \in Nat
  BY <1>1, <1>2, CountIs
<1>4. itr'.at = BucketCount(table') /\ itr'.home = Unknown
  BY <1>1, EndItrIs
<1>5. /\ GrownCount(table') \in Nat /\ GrownCount(table') >= 8
      /\ PowerOfTwo(GrownCount(table'))
  <2>1. CASE table'.mask = 0
    BY <2>1, EightIsPower DEF GrownCount
  <2>2. CASE table'.mask # 0
    <3>1. table'.mask >= 7 /\ PowerOfTwo(table'.mask + 1) /\ table'.mask \in Nat
      BY <1>3, <2>2, TableIs DEF IsTable
    <3>2. PowerOfTwo(2 * (table'.mask + 1))
      BY <3>1, DoublePower
    <3>3. GrownCount(table') = 2 * (table'.mask + 1)
      BY <2>2 DEF GrownCount, BucketCount
    <3> QED  BY <3>1, <3>2, <3>3
  <2> QED  BY <2>1, <2>2
<1>6. Garbage \notin Keys
  BY VerstableAssumption
<1>7. TypeOK'
  BY <1>1, <1>2, <1>3, <1>4, <1>5 DEF TypeOK
<1>8. Calls'
  BY <1>1, <1>2, <1>5, <1>6 DEF Calls
<1>9. Tables'
  BY <1>1, <1>2, <1>6 DEF Tables
<1>10. ItrRight'
  BY <1>4 DEF ItrRight, is_itr_valid
<1> QED  BY <1>7, <1>8, <1>9, <1>10 DEF IInv

LEMMA StartRehashStep ==
  ASSUME IInv, StartRehash
  PROVE  IInv'
<1>1. /\ pc = "rehash" /\ pc' = "reinsert"
      /\ new_table' = EmptyTable(bucket_count) /\ bucket' = 0
      /\ UNCHANGED <<made, table, itr, key, bucket_count>>
  BY DEF StartRehash
<1>2. /\ made /\ made \in BOOLEAN /\ itr = EndItr(table) /\ Stored(table)
      /\ key \in Keys \cup {Garbage} /\ bucket_count \in Nat
      /\ BucketCount(table) \in Nat
      /\ key = Garbage => Linked(table)
  BY <1>1, KeyIs
<1>3. bucket_count >= 8 /\ PowerOfTwo(bucket_count)
  BY <1>1 DEF IInv, Calls
<1>4. /\ Stored(new_table') /\ Linked(new_table')
      /\ BucketCount(new_table') = bucket_count
      /\ KeysIn(new_table', Occupied(new_table')) = {}
  BY <1>1, <1>2, <1>3, EmptyTableIs
<1>5. IsTable(table) /\ IsTable(new_table')
  BY <1>2, <1>4, CountIs
<1>6. KeysIn(table, 0 .. bucket' - 1) = {}
  <2>1. bucket' - 1 = -1
    BY <1>1
  <2>2. 0 .. bucket' - 1 = {}
    BY <2>1
  <2>3. \A k : k \notin KeysIn(table, {})
    BY KeyIn
  <2> QED  BY <2>2, <2>3
<1>7. itr.at = BucketCount(table) /\ itr.home = Unknown
  BY <1>2, EndItrIs
<1>8. TypeOK'
  BY <1>1, <1>2, <1>5, <1>7 DEF TypeOK
<1>9. Calls'
  BY <1>1, <1>2, <1>3, <1>4 DEF Calls
<1>10. Reinserted'
  BY <1>1, <1>4, <1>6 DEF Reinserted
<1>11. Tables'
  BY <1>1, <1>2, <1>4, <1>10 DEF Tables
<1>12. ItrRight'
  BY <1>1, <1>7 DEF ItrRight, is_itr_valid
<1> QED  BY <1>8, <1>9, <1>11, <1>12 DEF IInv

\* Without memory for a rehash only a call that inserts nothing ends.
LEMMA FailRehashStep ==
  ASSUME IInv, InsertHasMemory, FailRehash
  PROVE  IInv'
<1>1. /\ pc = "rehash" /\ pc' = "idle" /\ key' = Garbage
      /\ (IF key = Garbage THEN "resize" ELSE "insert") \in NoMemoryFor
      /\ bucket_count' = 0 /\ new_table' = EmptyTable(0) /\ bucket' = 0
      /\ UNCHANGED <<made, table, itr>>
  BY DEF FailRehash, EndRehash
<1>2. key = Garbage
  BY <1>1 DEF InsertHasMemory
<1>3. /\ made /\ made \in BOOLEAN /\ itr = EndItr(table) /\ Stored(table)
      /\ BucketCount(table) \in Nat /\ Linked(table)
  BY <1>1, <1>2, KeyIs
<1>4. Stored(new_table')
  BY <1>1, EmptyTableIs
<1>5. IsTable(table) /\ IsTable(new_table')
  BY <1>3, <1>4, CountIs
<1>6. itr.at = BucketCount(table) /\ itr.home = Unknown
  BY <1>3, EndItrIs
<1>7. TypeOK'
  BY <1>1, <1>3, <1>5, <1>6 DEF TypeOK
<1>8. Calls'
  BY <1>1, <1>3 DEF Calls
<1>9. Tables'
  BY <1>1, <1>3, <1>4 DEF Tables
<1>10. ItrRight'
  BY <1>1, <1>6 DEF ItrRight, is_itr_valid
<1> QED  BY <1>7, <1>8, <1>9, <1>10 DEF IInv

\* One turn of the loop of _rehash.
LEMMA ReinsertIs ==
  ASSUME IInv, Reinsert
  PROVE  /\ Stored(new_table') /\ BucketCount(new_table') = BucketCount(new_table)
         /\ bucket' \in 0 .. BucketCount(table)
         /\ \/ /\ Linked(new_table')
               /\ KeysIn(new_table', Occupied(new_table')) =
                    KeysIn(table, 0 .. bucket' - 1)
            \/ bucket' = BucketCount(table) /\ new_table'.count < table.count
<1> DEFINE Held == KeysIn(new_table, Occupied(new_table))
           k == table.key[bucket]
           r == insert_raw(new_table, k, TRUE)
<1>1. /\ pc = "reinsert" /\ bucket < BucketCount(table)
      /\ IF table.meta[bucket] = Empty
         THEN bucket' = bucket + 1 /\ UNCHANGED new_table
         ELSE /\ new_table' = r.table
              /\ bucket' = IF r.ok THEN bucket + 1 ELSE BucketCount(table)
  BY DEF Reinsert
<1>2. /\ Stored(table) /\ Stored(new_table) /\ bucket \in Nat
      /\ bucket \in 0 .. BucketCount(table) /\ BucketCount(table) \in Nat
  BY <1>1, KeyIs
<1>3. Linked(new_table) /\ Held = KeysIn(table, 0 .. bucket - 1)
  <2>1. Reinserted
    BY <1>1 DEF IInv, Tables
  <2> QED  BY <1>1, <1>2, <2>1 DEF Reinserted
<1>4. /\ IsTable(table) /\ Occupied(table) \subseteq 0 .. BucketCount(table) - 1
      /\ \A x \in Occupied(table) : x \in Nat /\ table.key[x] \in Keys
      /\ \A x, y \in Occupied(table) : table.key[x] = table.key[y] => x = y
  BY <1>2, CountIs DEF Stored
<1>5. bucket \in Occupied(table) <=> table.meta[bucket] # Empty
  <2>1. BucketCount(table) <= table.mask + 1 /\ table.mask \in Nat
    BY <1>4, TableIs DEF BucketCount
  <2>2. bucket \in 0 .. table.mask
    BY <1>1, <1>2, <2>1
  <2> QED  BY <2>2 DEF Occupied
<1>6. \A v : v \in Held <=> \E x \in Occupied(table) : x < bucket /\ table.key[x] = v
  <2>1. \A v : v \in KeysIn(table, 0 .. bucket - 1)
                 <=> \E x \in Occupied(table) : x \in 0 .. bucket - 1 /\ table.key[x] = v
    BY KeyIn
  <2>2. \A x \in Occupied(table) : x \in 0 .. bucket - 1 <=> x < bucket
    BY <1>2, <1>4
  <2> QED  BY <1>3, <2>1, <2>2
<1>7. \A v : v \in KeysIn(table, 0 .. (bucket + 1) - 1)
               <=> \E x \in Occupied(table) : x <= bucket /\ table.key[x] = v
  <2>1. \A v : v \in KeysIn(table, 0 .. (bucket + 1) - 1)
                 <=> \E x \in Occupied(table) :
                       x \in 0 .. (bucket + 1) - 1 /\ table.key[x] = v
    BY KeyIn
  <2>2. \A x \in Occupied(table) : x \in 0 .. (bucket + 1) - 1 <=> x <= bucket
    BY <1>2, <1>4
  <2> QED  BY <2>1, <2>2
<1>8. bucket + 1 \in 0 .. BucketCount(table)
  BY <1>1, <1>2
<1>9. CASE table.meta[bucket] = Empty
  <2>1. bucket' = bucket + 1 /\ new_table' = new_table
    BY <1>1, <1>9
  <2>2. \A x \in Occupied(table) : x <= bucket <=> x < bucket
    BY <1>2, <1>4, <1>5, <1>9
  <2>3. \A v : v \in Held <=> v \in KeysIn(table, 0 .. (bucket + 1) - 1)
    BY <1>6, <1>7, <2>2
  <2>4. Held = KeysIn(table, 0 .. (bucket + 1) - 1)
    BY <2>3
  <2> QED  BY <1>2, <1>3, <1>8, <2>1, <2>4
<1>10. CASE table.meta[bucket] # Empty
  <2>1. /\ new_table' = r.table
        /\ bucket' = IF r.ok THEN bucket + 1 ELSE BucketCount(table)
    BY <1>1, <1>10
  <2>2. bucket \in Occupied(table) /\ k \in Keys
    BY <1>4, <1>5, <1>10
  <2>3. k \notin Held
    BY <1>2, <1>4, <1>6, <2>2
  <2>4. \A x \in Occupied(new_table) : new_table.key[x] # k
    BY <2>3, KeysInIs
  <2> HIDE DEF k
  <2>5. /\ r.ok \in BOOLEAN
        /\ Stored(r.table) /\ r.table.mask = new_table.mask
        /\ ~r.ok => /\ r.table.count = new_table.count
                    /\ KeysIn(r.table, Occupied(r.table)) = Held
        /\ r.ok => /\ Linked(r.table)
                   /\ KeysIn(r.table, Occupied(r.table)) = Held \cup {k}
    <3>1. TRUE \in BOOLEAN
      OBVIOUS
    <3> QED  BY <1>2, <1>3, <2>2, <2>4, <3>1, InsertIs
  <2> HIDE DEF r, Held
  <2>6. BucketCount(new_table') = BucketCount(new_table)
    BY <2>1, <2>5 DEF BucketCount
  <2>7. CASE r.ok
    <3>1. \A v : (\E x \in Occupied(table) : x <= bucket /\ table.key[x] = v)
                   <=> v \in Held \cup {k}
      <4>1. \A x \in Occupied(table) : x <= bucket <=> x < bucket \/ x = bucket
        BY <1>2, <1>4
      <4>2. table.key[bucket] = k
        BY DEF k
      <4> QED  BY <1>6, <2>2, <4>1, <4>2
    <3>2. \A v : v \in KeysIn(table, 0 .. (bucket + 1) - 1) <=> v \in Held \cup {k}
      BY <1>7, <3>1
    <3>3. KeysIn(table, 0 .. (bucket + 1) - 1) = Held \cup {k}
      BY <3>2
    <3>4. bucket' = bucket + 1
      BY <2>1, <2>7
    <3>5. KeysIn(new_table', Occupied(new_table')) = KeysIn(table, 0 .. bucket' - 1)
      BY <2>1, <2>5, <2>7, <3>3, <3>4
    <3> QED  BY <1>8, <2>1, <2>5, <2>6, <2>7, <3>4, <3>5
  <2>8. CASE ~r.ok
    <3>1. Held \subseteq KeysIn(table, Occupied(table))
      BY <1>6, KeysInIs
    <3>2. k \in KeysIn(table, Occupied(table))
      BY <2>2, KeysInIs DEF k
    <3>3. new_table.count < table.count
      BY <1>2, <2>3, <3>1, <3>2, FewerKeys DEF Held
    <3> QED  BY <1>2, <2>1, <2>5, <2>6, <2>8, <3>3
  <2> QED  BY <2>5, <2>7, <2>8
<1> QED  BY <1>9, <1>10

LEMMA ReinsertStep ==
  ASSUME IInv, Reinsert
  PROVE  IInv'
<1>1. /\ pc = "reinsert" /\ UNCHANGED <<made, table, itr, pc, key, bucket_count>>
  BY DEF Reinsert
<1>2. /\ Stored(new_table') /\ BucketCount(new_table') = BucketCount(new_table)
      /\ bucket' \in 0 .. BucketCount(table)
      /\ Reinserted'
  BY <1>1, ReinsertIs DEF Reinserted
<1>3. IsTable(new_table')
  BY <1>2, CountIs
<1>4. TypeOK'
  BY <1>1, <1>2, <1>3 DEF IInv, TypeOK
<1>5. Calls'
  BY <1>1, <1>2 DEF IInv, Calls
<1>6. Tables'
  BY <1>1, <1>2 DEF IInv, Tables
<1>7. ItrRight'
  BY <1>1 DEF IInv, ItrRight, is_itr_valid
<1> QED  BY <1>4, <1>5, <1>6, <1>7 DEF IInv

\* The new table takes over with all keys, or the old one is left as it was.
LEMMA FinishIs ==
  ASSUME IInv, FinishRehash
  PROVE  /\ pc = "reinsert" /\ made /\ UNCHANGED <<made, key>>
         /\ Stored(table') /\ Stored(new_table')
         /\ itr' = EndItr(table')
         /\ KeysIn(table', Occupied(table')) = KeysIn(table, Occupied(table))
         /\ \/ /\ pc' = (IF key = Garbage THEN "idle" ELSE "insert")
               /\ Linked(table') /\ bucket' = 0 /\ bucket_count' = 0
            \/ /\ pc' = "rehash" /\ bucket_count' = 2 * bucket_count
               /\ UNCHANGED <<table, bucket>>
<1>1. /\ pc = "reinsert" /\ bucket = BucketCount(table) /\ UNCHANGED <<made, key>>
      /\ IF AllReinserted
         THEN /\ table' = new_table /\ itr' = EndItr(new_table)
              /\ pc' = IF key = Garbage THEN "idle" ELSE "insert"
              /\ bucket_count' = 0 /\ new_table' = EmptyTable(0) /\ bucket' = 0
         ELSE /\ pc' = "rehash" /\ bucket_count' = 2 * bucket_count
              /\ UNCHANGED <<table, itr, new_table, bucket>>
  BY DEF FinishRehash, EndRehash
<1>2. /\ made /\ Stored(table) /\ Stored(new_table) /\ itr = EndItr(table)
      /\ BucketCount(table) \in Nat
  BY <1>1, KeyIs
<1>3. CASE AllReinserted
  <2>1. new_table.count >= table.count /\ table.count \in Nat /\ new_table.count \in Nat
    BY <1>2, <1>3, CountIs DEF AllReinserted
  <2>2. /\ Linked(new_table)
        /\ KeysIn(new_table, Occupied(new_table)) = KeysIn(table, 0 .. bucket - 1)
    <3>1. Reinserted
      BY <1>1 DEF IInv, Tables
    <3> QED  BY <2>1, <3>1 DEF Reinserted
  <2>3. KeysIn(table, 0 .. bucket - 1) = KeysIn(table, Occupied(table))
    <3>1. Occupied(table) \subseteq 0 .. bucket - 1
      BY <1>1, <1>2, CountIs
    <3>2. \A v : v \in KeysIn(table, 0 .. bucket - 1)
                   <=> \E x \in Occupied(table) : x \in 0 .. bucket - 1 /\ table.key[x] = v
      BY KeyIn
    <3>3. \A v : v \in KeysIn(table, 0 .. bucket - 1)
                   <=> v \in KeysIn(table, Occupied(table))
      BY <3>1, <3>2, KeysInIs
    <3> QED  BY <3>3
  <2>4. Stored(new_table')
    BY <1>1, <1>3, EmptyTableIs
  <2> QED  BY <1>1, <1>2, <1>3, <2>2, <2>3, <2>4
<1>4. CASE ~AllReinserted
  BY <1>1, <1>2, <1>4
<1> QED  BY <1>3, <1>4

LEMMA FinishStep ==
  ASSUME IInv, FinishRehash
  PROVE  IInv'
<1>1. /\ pc = "reinsert" /\ made /\ UNCHANGED <<made, key>>
      /\ Stored(table') /\ Stored(new_table') /\ itr' = EndItr(table')
      /\ \/ /\ pc' = (IF key = Garbage THEN "idle" ELSE "insert")
            /\ Linked(table') /\ bucket' = 0 /\ bucket_count' = 0
         \/ /\ pc' = "rehash" /\ bucket_count' = 2 * bucket_count
            /\ UNCHANGED <<table, bucket>>
  BY FinishIs
<1>2. /\ made \in BOOLEAN /\ key \in Keys \cup {Garbage} /\ bucket_count \in Nat
      /\ bucket \in 0 .. BucketCount(table)
      /\ key = Garbage => Linked(table)
  BY <1>1, KeyIs
<1>3. bucket_count >= 8 /\ PowerOfTwo(2 * bucket_count)
  BY <1>1, <1>2, DoublePower DEF IInv, Calls
<1>4. IsTable(table') /\ IsTable(new_table') /\ BucketCount(table') \in Nat
  BY <1>1, CountIs
<1>5. itr'.at = BucketCount(table') /\ itr'.home = Unknown
  BY <1>1, EndItrIs
<1>6. bucket' \in 0 .. BucketCount(table') /\ bucket_count' \in Nat
  BY <1>1, <1>2, <1>4
<1>7. TypeOK'
  BY <1>1, <1>2, <1>4, <1>5, <1>6 DEF TypeOK
<1>8. Calls'
  BY <1>1, <1>2, <1>3 DEF Calls
<1>9. Tables'
  BY <1>1, <1>2 DEF Tables
<1>10. ItrRight'
  BY <1>5 DEF ItrRight, is_itr_valid
<1> QED  BY <1>7, <1>8, <1>9, <1>10 DEF IInv

LEMMA NextStep ==
  ASSUME IInv, InsertHasMemory, [Next]_vars
  PROVE  IInv'
<1>1. CASE UNCHANGED vars
  BY <1>1 DEF vars, rvars, IInv, TypeOK, Calls, Tables, Reinserted, ItrRight,
              is_itr_valid
<1>2. CASE create_table
  BY <1>2, CreateStep
<1>3. CASE destroy_table
  BY <1>3, DestroyStep
<1>4. ASSUME NEW k \in Keys, insert(k)
      PROVE  IInv'
  BY <1>4, InsertStep
<1>5. ASSUME NEW k \in Keys, erase(k)
      PROVE  IInv'
  BY <1>5, EraseStep
<1>6. ASSUME NEW k \in Keys, find(k)
      PROVE  IInv'
  BY <1>6, FindStep
<1>7. CASE begin_itr
  BY <1>7, BeginStep
<1>8. CASE increment_itr
  BY <1>8, IncrementStep
<1>9. CASE erase_itr
  BY <1>9, EraseItrStep
<1>10. CASE clear
  BY <1>10, ClearStep
<1>11. CASE shrink
  BY <1>11, ShrinkStep
<1>12. ASSUME NEW size \in ReserveSizes, reserve(size)
       PROVE  IInv'
  BY <1>12, ReserveStep
<1>13. CASE TryInsert
  BY <1>13, TryInsertStep
<1>14. CASE StartRehash
  BY <1>14, StartRehashStep
<1>15. CASE FailRehash
  BY <1>15, FailRehashStep
<1>16. CASE Reinsert
  BY <1>16, ReinsertStep
<1>17. CASE FinishRehash
  BY <1>17, FinishStep
<1> QED  BY <1>1, <1>2, <1>3, <1>4, <1>5, <1>6, <1>7, <1>8, <1>9, <1>10, <1>11,
            <1>12, <1>13, <1>14, <1>15, <1>16, <1>17 DEF Next

\* The invariant holds, if insertions find memory for a rehash; without it,
\* _insert_raw's failed attempt leaves a chain one key short.
THEOREM Invariance ==
  ASSUME InsertHasMemory
  PROVE  Spec => []IInv
<1>1. Init => IInv
  BY InitIs
<1>2. IInv /\ [Next]_vars => IInv'
  BY NextStep
<1> QED  BY <1>1, <1>2, PTL DEF Spec

\* What the variables are: buckets_mask, in particular, is a remainder, and an
\* iterator is at a bucket that holds a key or at the end.
THEOREM TypeCorrect ==
  ASSUME InsertHasMemory
  PROVE  Spec => []TypeOK
<1>1. IInv => TypeOK
  BY DEF IInv
<1> QED  BY <1>1, Invariance, PTL

\* Evictions, moves of last keys and rehashes keep every key in the chain of
\* its home bucket, the chains in order, and key_count right.
THEOREM Chains ==
  ASSUME InsertHasMemory
  PROVE  Spec => []ChainsIntact
<1>1. IInv => ChainsIntact
  <2> SUFFICES ASSUME IInv
               PROVE  ChainsIntact
    OBVIOUS
  <2>1. Stored(table) /\ Stored(new_table)
    BY DEF IInv, Tables
  <2>2. KeysCounted(table) /\ KeysCounted(new_table)
    BY <2>1, KeysCountedIs
  <2>3. pc \in {"idle", "insert"} => Intact(table)
    BY <2>1, LinkedIntact DEF IInv, Tables
  <2>4. ASSUME pc = "reinsert", bucket < BucketCount(table)
        PROVE  Intact(new_table)
    <3>1. bucket \in Nat /\ BucketCount(table) \in Nat
      BY <2>4, KeyIs
    <3>2. Linked(new_table)
      BY <2>4, <3>1 DEF IInv, Tables, Reinserted
    <3> QED  BY <2>1, <3>2, LinkedIntact
  <2> QED  BY <2>2, <2>3, <2>4 DEF ChainsIntact
<1> QED  BY <1>1, Invariance, PTL

\* verstable.h:381: an iteration goes on with what erase_itr() hands back.
THEOREM Resumes ==
  ASSUME InsertHasMemory
  PROVE  Spec => IterationResumes
<1>1. IInv /\ [Next]_vars =>
        [erase_itr =>
           /\ KeysIn(table', Occupied(table')) =
                KeysIn(table, Occupied(table) \ {itr.at})
           /\ KeysFrom(table', itr'.at) = KeysFrom(table, itr.at + 1)
           /\ itr'.home # Unknown =>
                itr'.home = Home(table', table'.key[itr'.at])]_vars
  BY EraseItrIs
<1> QED  BY <1>1, Invariance, PTL DEF Spec, IterationResumes

-----------------------------------------------------------------------------
(* The contract.                                                           *)

AbstractItr == [here |-> KeysIn(table, {itr.at}),
                rest |-> KeysFrom(table, itr.at + 1)]

TableKeys == KeysIn(table, Occupied(table))

\* The end iterator has nothing here and nothing before it.
LEMMA AtEnd ==
  ASSUME NEW t, Stored(t)
  PROVE  /\ KeysFrom(t, BucketCount(t)) = {}
         /\ KeysIn(t, {BucketCount(t)}) = {}
         /\ KeysFrom(t, BucketCount(t) + 1) = {}
<1>1. BucketCount(t) \in Nat /\ Occupied(t) \subseteq 0 .. BucketCount(t) - 1
  BY CountIs
<1>2. /\ \A x \in Occupied(t) : x \notin BucketCount(t) .. BucketCount(t)
      /\ \A x \in Occupied(t) : x \notin BucketCount(t) + 1 .. BucketCount(t)
      /\ \A x \in Occupied(t) : x \notin {BucketCount(t)}
  BY <1>1
<1>3. \A B : (\A x \in Occupied(t) : x \notin B) => KeysIn(t, B) = {}
  BY KeyIn
<1> QED  BY <1>2, <1>3 DEF KeysFrom

\* An iterator that is not at the end is at one of the keys from there on, and
\* has the others before it.
LEMMA AtKey ==
  ASSUME NEW t, Stored(t), NEW b \in Occupied(t)
  PROVE  /\ t.key[b] \in KeysFrom(t, b) /\ t.key[b] \in KeysIn(t, Occupied(t))
         /\ KeysIn(t, {b}) = {t.key[b]}
         /\ KeysFrom(t, b + 1) = KeysFrom(t, b) \ {t.key[b]}
         /\ KeysFrom(t, b) \subseteq KeysIn(t, Occupied(t))
<1>1. BucketCount(t) \in Nat /\ Occupied(t) \subseteq 0 .. BucketCount(t) - 1
  BY CountIs
<1>2. \A x, y \in Occupied(t) : t.key[x] = t.key[y] => x = y
  BY DEF Stored
<1>3. \A B, k : k \in KeysIn(t, B) <=> \E x \in Occupied(t) : x \in B /\ t.key[x] = k
  BY KeyIn
<1>4. /\ \A x \in Occupied(t) : x \in b .. BucketCount(t) <=> x >= b
      /\ \A x \in Occupied(t) : x \in b + 1 .. BucketCount(t) <=> x >= b /\ x # b
      /\ b >= b
  BY <1>1
<1>5. \A k : k \in KeysFrom(t, b) <=> \E x \in Occupied(t) : x >= b /\ t.key[x] = k
  BY <1>3, <1>4 DEF KeysFrom
<1>6. \A k : k \in KeysFrom(t, b + 1)
               <=> \E x \in Occupied(t) : x >= b /\ x # b /\ t.key[x] = k
  BY <1>3, <1>4 DEF KeysFrom
<1>7. \A k : k \in KeysFrom(t, b + 1) <=> k \in KeysFrom(t, b) \ {t.key[b]}
  BY <1>2, <1>5, <1>6
<1>8. \A k : k \in KeysIn(t, {b}) <=> k \in {t.key[b]}
  BY <1>3
<1>9. \A k : k \in KeysFrom(t, b) => k \in KeysIn(t, Occupied(t))
  BY <1>3, <1>5
<1> QED  BY <1>4, <1>5, <1>7, <1>8, <1>9

\* What the contract's iterator is when the table's is the end iterator.
LEMMA EndImplements ==
  ASSUME Stored(table'), itr'.at = BucketCount(table')
  PROVE  AbstractItr' = Contract!EndItr
<1>1. KeysIn(table', {itr'.at}) = {} /\ KeysFrom(table', itr'.at + 1) = {}
  BY AtEnd
<1> QED  BY <1>1 DEF AbstractItr, Contract!EndItr

LEMMA CreateImplements ==
  ASSUME IInv, create_table
  PROVE  Contract!create_table
<1>1. /\ ~made /\ made' = TRUE /\ UNCHANGED <<table, itr, pc, key, rvars>>
      /\ table = EmptyTable(0) /\ itr = EndItr(table) /\ pc = "idle"
  BY DEF create_table, IInv, Calls
<1>2. Stored(table') /\ \A B : KeysIn(table', B) = {}
  BY <1>1, EmptyTableIs
<1>3. AbstractItr' = Contract!EndItr
  BY <1>1, <1>2, EndImplements, EndItrIs
<1> QED  BY <1>1, <1>2, <1>3 DEF Contract!create_table, AbstractItr

LEMMA DestroyImplements ==
  ASSUME IInv, destroy_table
  PROVE  Contract!destroy_table
<1>1. made /\ made' = FALSE /\ table' = EmptyTable(0) /\ itr' = EndItr(table')
  BY DEF destroy_table, Idle
<1>2. Stored(table') /\ \A B : KeysIn(table', B) = {}
  BY <1>1, EmptyTableIs
<1>3. AbstractItr' = Contract!EndItr
  BY <1>1, <1>2, EndImplements, EndItrIs
<1> QED  BY <1>1, <1>2, <1>3 DEF Contract!destroy_table, AbstractItr

LEMMA FindImplements ==
  ASSUME IInv, NEW k \in Keys, find(k)
  PROVE  Contract!find(k)
<1>1. /\ pc = "idle" /\ made /\ UNCHANGED <<made, table, pc, key, rvars>>
      /\ itr' = IF get(table, k) = {} THEN EndItr(table)
                ELSE [at |-> Min(get(table, k)), home |-> Home(table, k)]
  BY DEF find, Idle
<1>2. Stored(table) /\ Linked(table)
  BY <1>1, IdleIs
<1>3. CASE get(table, k) = {}
  <2>1. k \notin TableKeys
    <3>1. get(table, k) = {b \in Occupied(table) : table.key[b] = k}
      BY <1>2, GetIs
    <3> QED  BY <1>3, <3>1, KeysInIs DEF TableKeys
  <2>2. AbstractItr' = Contract!EndItr
    BY <1>1, <1>2, <1>3, EndImplements, EndItrIs
  <2> QED  BY <1>1, <2>1, <2>2 DEF Contract!find, AbstractItr, TableKeys
<1>4. CASE get(table, k) # {}
  <2> DEFINE b == Min(get(table, k))
             rest == KeysFrom(table, b + 1)
  <2>1. b \in Occupied(table) /\ table.key[b] = k
    BY <1>2, <1>4, FoundIs
  <2>2. itr' = [at |-> b, home |-> Home(table, k)]
    BY <1>1, <1>4
  <2> HIDE DEF b
  <2>3. /\ KeysIn(table, {b}) = {k} /\ k \in TableKeys
        /\ rest \in SUBSET (TableKeys \ {k})
    BY <1>2, <2>1, AtKey DEF TableKeys
  <2>4. AbstractItr' = [here |-> {k}, rest |-> rest]
    BY <1>1, <2>2, <2>3 DEF AbstractItr
  <2> HIDE DEF rest
  <2> QED  BY <1>1, <2>3, <2>4 DEF Contract!find, AbstractItr, TableKeys
<1> QED  BY <1>3, <1>4

LEMMA EraseImplements ==
  ASSUME IInv, NEW k \in Keys, erase(k)
  PROVE  Contract!erase(k)
<1>1. /\ made /\ made' = made /\ Stored(table') /\ itr' = EndItr(table')
      /\ TableKeys' = TableKeys \ {k}
  BY EraseIs DEF TableKeys
<1>2. AbstractItr' = Contract!EndItr
  BY <1>1, EndImplements, EndItrIs
<1> QED  BY <1>1, <1>2 DEF Contract!erase, AbstractItr, TableKeys

LEMMA InsertImplements ==
  ASSUME IInv, TryInsert, pc' = "idle"
  PROVE  Contract!insert(key)
<1>1. /\ pc = "insert" /\ UNCHANGED made /\ Stored(table') /\ itr' = EndItr(table')
      /\ TableKeys' = TableKeys \cup {key}
  BY TryInsertIs DEF TableKeys
<1>2. made
  BY <1>1, KeyIs
<1>3. AbstractItr' = Contract!EndItr
  BY <1>1, EndImplements, EndItrIs
<1> QED  BY <1>1, <1>2, <1>3 DEF Contract!insert, AbstractItr, TableKeys

\* An iterator that moves on to the first of some keys.
LEMMA MovesOn ==
  ASSUME Stored(table'), itr'.at \in Occupied(table') \cup {BucketCount(table')},
         NEW rest, KeysFrom(table', itr'.at) = rest
  PROVE  AbstractItr' \in IF rest = {} THEN {Contract!EndItr}
                          ELSE {[here |-> {k}, rest |-> rest \ {k}] : k \in rest}
<1>1. CASE itr'.at = BucketCount(table')
  <2>1. rest = {}
    BY <1>1, AtEnd
  <2> QED  BY <1>1, <2>1, EndImplements
<1>2. CASE itr'.at \in Occupied(table')
  <2> DEFINE k == table'.key[itr'.at]
  <2>1. /\ k \in rest /\ KeysIn(table', {itr'.at}) = {k}
        /\ KeysFrom(table', itr'.at + 1) = rest \ {k}
    BY <1>2, AtKey
  <2>2. AbstractItr' = [here |-> {k}, rest |-> rest \ {k}]
    BY <2>1 DEF AbstractItr
  <2> HIDE DEF k
  <2> QED  BY <2>1, <2>2
<1> QED  BY <1>1, <1>2

LEMMA BeginImplements ==
  ASSUME IInv, begin_itr
  PROVE  Contract!begin_itr
<1>1. /\ pc = "idle" /\ made /\ UNCHANGED <<made, table, pc, key, rvars>>
      /\ itr' = IF table.count = 0 THEN EndItr(table) ELSE ItrFrom(table, 0)
  BY DEF begin_itr, Idle
<1>2. Stored(table)
  BY <1>1, IdleIs
<1>3. TableKeys' = TableKeys /\ made' = made
  BY <1>1 DEF TableKeys
<1>4. CASE table.count = 0
  <2>1. Occupied(table) = {}
    BY <1>2, <1>4, CountIs
  <2>2. TableKeys = {}
    BY <2>1, KeysInIs DEF TableKeys
  <2>3. AbstractItr' = Contract!EndItr
    BY <1>1, <1>2, <1>4, EndImplements, EndItrIs
  <2> QED  BY <1>1, <1>3, <2>2, <2>3 DEF Contract!begin_itr, AbstractItr, TableKeys
<1>5. CASE table.count # 0
  <2>1. PICK b \in Occupied(table) : TRUE
    BY <1>2, <1>5, CountIs
  <2>2. KeysFrom(table, 0) = TableKeys
    <3>1. \A x \in Occupied(table) : x \in 0 .. BucketCount(table)
      BY <1>2, CountIs
    <3>2. \A k : k \in KeysFrom(table, 0)
                   <=> \E x \in Occupied(table) :
                         x \in 0 .. BucketCount(table) /\ table.key[x] = k
      BY KeyIn DEF KeysFrom
    <3>3. \A k : k \in KeysFrom(table, 0) <=> k \in TableKeys
      BY <3>1, <3>2, KeysInIs DEF TableKeys
    <3> QED  BY <3>3
  <2>3. TableKeys # {}
    BY <2>1, KeysInIs DEF TableKeys
  <2>4. /\ itr'.at \in Occupied(table') \cup {BucketCount(table')}
        /\ KeysFrom(table', itr'.at) = TableKeys
    BY <1>1, <1>2, <1>5, <2>2, ItrFromIs
  <2>5. AbstractItr' \in {[here |-> {k}, rest |-> TableKeys \ {k}] : k \in TableKeys}
    BY <1>1, <1>2, <2>3, <2>4, MovesOn
  <2> QED  BY <1>1, <1>3, <2>3, <2>5 DEF Contract!begin_itr, AbstractItr, TableKeys
<1> QED  BY <1>4, <1>5

LEMMA IncrementImplements ==
  ASSUME IInv, increment_itr
  PROVE  Contract!increment_itr
<1> DEFINE rest == KeysFrom(table, itr.at + 1)
<1>1. /\ pc = "idle" /\ made /\ UNCHANGED <<made, table, pc, key, rvars>>
      /\ is_itr_valid /\ itr' = ItrFrom(table, itr.at + 1)
  BY DEF increment_itr, Idle
<1>2. Stored(table) /\ itr.at \in Occupied(table)
  BY <1>1, IdleIs
<1>3. itr.at + 1 \in Nat
  BY <1>2, CountIs
<1>4. /\ itr'.at \in Occupied(table') \cup {BucketCount(table')}
      /\ KeysFrom(table', itr'.at) = rest
  BY <1>1, <1>2, <1>3, ItrFromIs
<1>5. AbstractItr.here # {} /\ AbstractItr.rest = rest
  <2>1. KeysIn(table, {itr.at}) = {table.key[itr.at]}
    BY <1>2, AtKey
  <2>2. AbstractItr = [here |-> {table.key[itr.at]}, rest |-> rest]
    BY <2>1 DEF AbstractItr
  <2> QED  BY <2>2
<1> HIDE DEF rest
<1>6. AbstractItr' \in IF rest = {} THEN {Contract!EndItr}
                       ELSE {[here |-> {k}, rest |-> rest \ {k}] : k \in rest}
  BY <1>1, <1>2, <1>4, MovesOn
<1>7. TableKeys' = TableKeys /\ made' = made
  BY <1>1 DEF TableKeys
<1> QED  BY <1>1, <1>5, <1>6, <1>7
         DEF Contract!increment_itr, Contract!is_itr_valid, AbstractItr, TableKeys

\* All that is in between leaves the keys alone.
LEMMA InBetweenImplements ==
  ASSUME IInv, InsertHasMemory, InBetween
  PROVE  Contract!release_itr
<1> DEFINE Silent == /\ TableKeys' = TableKeys /\ made' = made
                     /\ Stored(table') /\ itr'.at = BucketCount(table')
<1>1. ASSUME UNCHANGED <<made, table>>, itr' = EndItr(table), Stored(table)
      PROVE  Silent
  BY <1>1, EndItrIs DEF TableKeys
<1>2. Idle => Stored(table)
  BY IdleIs DEF Idle
<1>3. pc # "idle" => Stored(table) /\ itr = EndItr(table)
  BY KeyIs
<1>4. ASSUME NEW k \in Keys, insert(k)
      PROVE  Silent
  BY <1>1, <1>2, <1>4 DEF insert
<1>5. ASSUME TryInsert, pc' = "rehash"
      PROVE  Silent
  BY <1>5, TryInsertIs, EndItrIs DEF TableKeys
<1>6. ASSUME shrink
      PROVE  Silent
  <2> DEFINE n == min_bucket_count_for_size(table.count)
  <2>1. /\ Idle
        /\ IF n > 0 THEN Resize(n)
           ELSE /\ table' = EmptyTable(0) /\ itr' = EndItr(table')
                /\ UNCHANGED <<made, pc, key, rvars>>
    BY <1>6 DEF shrink
  <2>2. table.count \in Nat
    BY <1>2, <2>1, CountIs
  <2>3. n \in Nat /\ (n = 0 <=> table.count = 0)
    BY <2>2, MinBucketCountIs
  <2> HIDE DEF n
  <2>4. CASE n > 0
    BY <1>1, <1>2, <2>1, <2>4 DEF Resize
  <2>5. CASE ~(n > 0)
    <3>1. Occupied(table) = {}
      BY <1>2, <2>1, <2>3, <2>5, CountIs
    <3>2. TableKeys = {}
      BY <3>1, KeysInIs DEF TableKeys
    <3>3. Stored(table') /\ TableKeys' = {}
      BY <2>1, <2>5, EmptyTableIs DEF TableKeys
    <3> QED  BY <2>1, <2>5, <3>2, <3>3, EndItrIs
  <2> QED  BY <2>4, <2>5
<1>7. ASSUME NEW size \in ReserveSizes, reserve(size)
      PROVE  Silent
  BY <1>1, <1>2, <1>7 DEF reserve, Resize
<1>8. ASSUME StartRehash \/ FailRehash \/ Reinsert
      PROVE  Silent
  BY <1>1, <1>3, <1>8 DEF StartRehash, FailRehash, Reinsert
<1>9. ASSUME FinishRehash
      PROVE  Silent
  BY <1>9, FinishIs, EndItrIs DEF TableKeys
<1>10. Silent
  BY <1>4, <1>5, <1>6, <1>7, <1>8, <1>9 DEF InBetween
<1>11. AbstractItr' = Contract!EndItr
  BY <1>10, EndImplements
<1> QED  BY <1>10, <1>11 DEF Contract!release_itr, AbstractItr, TableKeys

\* Verstable is the table the benchmark expects.
THEOREM Implements ==
  ASSUME InsertHasMemory
  PROVE  Spec => ImplementsContract
<1> DEFINE A == \/ create_table /\ Contract!create_table
                \/ destroy_table /\ Contract!destroy_table
                \/ \E k \in Keys : \/ find(k) /\ Contract!find(k)
                                   \/ erase(k) /\ Contract!erase(k)
                \/ begin_itr /\ Contract!begin_itr
                \/ increment_itr /\ Contract!increment_itr
                \/ TryInsert /\ pc' = "idle" /\ Contract!insert(key)
                \/ InBetween /\ Contract!release_itr
                \/ erase_itr \/ clear
<1>1. ASSUME Init
      PROVE  Contract!TableInit
  <2>1. made = FALSE /\ table = EmptyTable(0) /\ itr = EndItr(table)
    BY <1>1 DEF Init
  <2>2. Stored(table) /\ \A B : KeysIn(table, B) = {}
    BY <2>1, EmptyTableIs
  <2>3. KeysIn(table, {itr.at}) = {} /\ KeysFrom(table, itr.at + 1) = {}
    BY <2>2 DEF KeysFrom
  <2> QED  BY <2>1, <2>2, <2>3 DEF Contract!TableInit, Contract!EndItr
<1>2. IInv /\ [Next]_vars => [A]_vars
  <2> SUFFICES ASSUME IInv, Next
               PROVE  A
    OBVIOUS
  <2>1. TryInsert => pc' \in {"idle", "rehash"}
    BY TryInsertIs
  <2>2. InBetween => Contract!release_itr
    BY InBetweenImplements
  <2>3. \A k \in Keys : /\ find(k) => Contract!find(k)
                        /\ erase(k) => Contract!erase(k)
    BY FindImplements, EraseImplements
  <2> QED  BY <2>1, <2>2, <2>3, CreateImplements, DestroyImplements, BeginImplements,
              IncrementImplements, InsertImplements DEF Next, InBetween
<1> HIDE DEF A
<1>3. Spec => Contract!TableInit /\ [][A]_vars
  BY <1>1, <1>2, Invariance, PTL DEF Spec
<1> QED  BY <1>3 DEF ImplementsContract, A
=============================================================================
