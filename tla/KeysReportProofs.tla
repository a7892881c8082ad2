-------------------------- MODULE KeysReportProofs --------------------------
(***************************************************************************)
(* Theorems about what the benchmark starts from and what it ends with:    *)
(* UniqueKeys, which makes the keys, and Report, which makes the graphs    *)
(* and the heatmap of the results.                                         *)
(*                                                                         *)
(* The keys are distinct for every size of the vector, the alphabet and    *)
(* the strings: the counter runs through the strings in ascending order,   *)
(* the last place of a string counting most.                               *)
(*                                                                         *)
(* The report is right for every number of runs, points, graphs and shims  *)
(* and every measurement.                                                  *)
(***************************************************************************)
EXTENDS UniqueKeys, Report, Arithmetic

\* s comes before t in the order in which fill_unique_keys() counts.
Before(s, t) == \E p \in Places : /\ s[p] < t[p]
                                  /\ \A q \in Places : q > p => s[q] = t[q]

LEMMA BeforeTransitive ==
  ASSUME NEW s \in Strings, NEW t \in Strings, NEW u \in Strings,
         Before(s, t), Before(t, u)
  PROVE  Before(s, u)
<1>1. PICK p \in Places : s[p] < t[p] /\ \A q \in Places : q > p => s[q] = t[q]
  BY DEF Before
<1>2. PICK r \in Places : t[r] < u[r] /\ \A q \in Places : q > r => t[q] = u[q]
  BY DEF Before
<1>3. \A q \in Places : s[q] \in Int /\ t[q] \in Int /\ u[q] \in Int
  BY UniqueKeysAssumption DEF Strings, Letters
<1>4. p \in Int /\ r \in Int /\ \A q \in Places : q \in Int
  BY UniqueKeysAssumption DEF Places
<1>5. CASE p <= r
  <2>1. s[r] < u[r]
    <3>1. s[r] <= t[r]
      BY <1>1, <1>3, <1>4, <1>5
    <3>2. QED  BY <3>1, <1>2, <1>3
  <2>2. \A q \in Places : q > r => s[q] = u[q]
    BY <1>1, <1>2, <1>4, <1>5
  <2>3. QED  BY <2>1, <2>2 DEF Before
<1>6. CASE r < p
  <2>1. s[p] < u[p] /\ \A q \in Places : q > p => s[q] = u[q]
    BY <1>1, <1>2, <1>4, <1>6
  <2>2. QED  BY <2>1 DEF Before
<1>7. QED  BY <1>4, <1>5, <1>6

LEMMA BeforeIrreflexive ==
  ASSUME NEW s \in Strings
  PROVE  ~Before(s, s)
<1>1. \A q \in Places : s[q] \in Int
  BY UniqueKeysAssumption DEF Strings, Letters
<1>2. QED  BY <1>1 DEF Before

-----------------------------------------------------------------------------
(* Ascending: the keys stored so far come one after another; while a carry *)
(* is under way, the counter differs from the last key by the letters that *)
(* were reset; the key to store next comes after all of them.              *)

InLoop == step = "count" => i < KEYS

Positions ==
  /\ step \in {"store", "count"} =>
       \A n \in Indices : n \in Filled <=> n < i \/ (n = i /\ step = "count")
  /\ step = "shuffle" => Filled = Indices

Ascending ==
  step \in {"store", "count"} =>
    \A m, n \in Filled : m < n => Before(keys[m], keys[n])

Carried ==
  step = "count" => \A p \in Places : p >= j => current[p] = keys[i][p]

CounterAhead ==
  step = "store" /\ i < KEYS => \A n \in Filled : Before(keys[n], current)

Inv == Positions /\ DistinctKeys /\ Ascending /\ Carried /\ CounterAhead

-----------------------------------------------------------------------------
(* Types.                                                                  *)

LEMMA KeyConstants ==
  /\ KEYS \in Nat \ {0} /\ LETTERS \in Nat \ {0} /\ LENGTH \in Nat \ {0}
  /\ NoString \notin Strings
  /\ 0 \in Letters /\ 0 \in Places /\ 0 \in Indices
  /\ Indices \subseteq Int /\ Places \subseteq Int /\ Letters \subseteq Int
BY UniqueKeysAssumption DEF Indices, Places, Letters

LEMMA TypeInit == KeysInit => TypeOK /\ InLoop
<1> SUFFICES ASSUME KeysInit PROVE TypeOK /\ InLoop
  OBVIOUS
<1>1. current \in Strings
  BY KeyConstants DEF KeysInit, Strings
<1>2. i \in 0 .. KEYS
  BY KeyConstants DEF KeysInit
<1>3. keys \in [Indices -> Strings \cup {NoString}] /\ j \in Places
  BY KeyConstants DEF KeysInit
<1>4. QED  BY <1>1, <1>2, <1>3 DEF KeysInit, TypeOK, InLoop

LEMMA TypeNext ==
  ASSUME TypeOK, InLoop, [KeysNext]_keys_vars
  PROVE  TypeOK' /\ InLoop'
<1> USE KeyConstants
<1>0. i \in Int /\ j \in Int
  BY DEF TypeOK
<1>1. CASE StoreKey
  <2>1. i \in Indices
    BY <1>1, <1>0 DEF StoreKey, TypeOK, Indices
  <2>2. keys' \in [Indices -> Strings \cup {NoString}]
    BY <1>1, <2>1 DEF StoreKey, TypeOK
  <2>3. QED  BY <1>1, <2>2 DEF StoreKey, TypeOK, InLoop
<1>2. CASE StepLetter
  <2>1. current[j] \in Letters /\ j \in Places
    BY DEF TypeOK, Strings
  <2>2. current[j] + 1 \in Letters
    BY <1>2, <2>1 DEF StepLetter, UpToZ, Letters
  <2>3. current' \in Strings
    BY <1>2, <2>1, <2>2 DEF StepLetter, TypeOK, Strings
  <2>4. i' \in 0 .. KEYS
    BY <1>2 DEF StepLetter, NextKey, InLoop, TypeOK
  <2>5. QED  BY <1>2, <2>3, <2>4 DEF StepLetter, NextKey, TypeOK, InLoop
<1>3. ASSUME Reset PROVE current' \in Strings /\ keys' = keys
  BY <1>3 DEF Reset, TypeOK, Strings
<1>4. CASE CarryLetter
  <2>1. j' \in Places
    BY <1>4 DEF CarryLetter, TypeOK, Places
  <2>2. QED  BY <1>3, <1>4, <2>1 DEF CarryLetter, TypeOK, InLoop
<1>5. CASE CarryOut
  <2>1. i' \in 0 .. KEYS
    BY <1>5 DEF CarryOut, NextKey, InLoop, TypeOK
  <2>2. QED  BY <1>3, <1>5, <2>1 DEF CarryOut, NextKey, TypeOK, InLoop
<1>6. CASE StartShuffle
  <2>1. i' \in 0 .. KEYS
    BY <1>6 DEF StartShuffle
  <2>2. QED  BY <1>6, <2>1 DEF StartShuffle, TypeOK, InLoop
<1>7. CASE ShuffleKey
  <2>1. PICK r \in 0 .. i : keys' = Swapped(i, r)
    BY <1>7 DEF ShuffleKey
  <2>2. i \in Indices /\ r \in Indices
    BY <1>7, <1>0 DEF ShuffleKey, TypeOK, Indices
  <2>3. keys' \in [Indices -> Strings \cup {NoString}]
    BY <2>1, <2>2 DEF Swapped, TypeOK
  <2>4. i' \in 0 .. KEYS
    BY <1>7 DEF ShuffleKey, TypeOK
  <2>5. QED  BY <1>7, <2>3, <2>4 DEF ShuffleKey, TypeOK, InLoop
<1>8. CASE UNCHANGED keys_vars
  BY <1>8 DEF keys_vars, TypeOK, InLoop
<1>9. CASE Ready
  BY <1>8, <1>9 DEF Ready
<1>10. QED
  BY <1>1, <1>2, <1>4, <1>5, <1>6, <1>7, <1>8, <1>9 DEF KeysNext

\* Every string in the vector consists of letters, whatever the carries, and
\* no index leaves its range.
THEOREM TypeCorrect == KeysSpec => []TypeOK
<1>1. KeysInit => TypeOK /\ InLoop
  BY TypeInit
<1>2. (TypeOK /\ InLoop) /\ [KeysNext]_keys_vars => (TypeOK /\ InLoop)'
  BY TypeNext
<1>3. QED  BY <1>1, <1>2, PTL DEF KeysSpec

-----------------------------------------------------------------------------
(* Distinctness.                                                           *)

LEMMA DistinctInit == KeysInit => Inv
<1> SUFFICES ASSUME KeysInit PROVE Inv
  OBVIOUS
<1>1. Filled = {}
  BY KeyConstants DEF KeysInit, Filled
<1>2. Positions
  BY <1>1, KeyConstants DEF KeysInit, Positions, Indices
<1>3. QED
  BY <1>1, <1>2 DEF KeysInit, Inv, DistinctKeys, Ascending, Carried, CounterAhead

\* Storing a key: it comes after all the others.
LEMMA StoreKeeps ==
  ASSUME TypeOK, Inv, StoreKey
  PROVE  Inv'
<1> USE KeyConstants
<1>1. i \in Indices /\ i \in Int
  BY DEF StoreKey, TypeOK, Indices
<1>2. keys' = [keys EXCEPT ![i] = current] /\ keys'[i] = current
      /\ \A n \in Indices : n # i => keys'[n] = keys[n]
  BY <1>1 DEF StoreKey, TypeOK
<1>3. i \notin Filled /\ Filled' = Filled \cup {i}
  <2>1. i \notin Filled
    BY <1>1 DEF Inv, Positions, StoreKey
  <2>2. current # NoString
    BY DEF TypeOK
  <2>3. QED  BY <1>1, <1>2, <2>1, <2>2 DEF Filled
<1>4. Filled \subseteq Indices /\ \A n \in Filled : n < i
  BY DEF Filled, Inv, Positions, StoreKey
<1>5. Positions'
  BY <1>1, <1>3 DEF Inv, Positions, StoreKey
<1>6. \A n \in Filled : Before(keys'[n], keys'[i])
  <2>1. \A n \in Filled : Before(keys[n], current)
    BY DEF Inv, CounterAhead, StoreKey
  <2>2. QED  BY <1>2, <1>3, <1>4, <2>1
<1>7. \A n \in Filled : keys'[n] # keys'[i]
  <2>1. current \in Strings
    BY DEF TypeOK
  <2>2. QED  BY <1>2, <1>6, <2>1, BeforeIrreflexive
<1>8. \A n \in Filled : keys'[n] = keys[n]
  BY <1>2, <1>3, <1>4
<1>9. DistinctKeys'
  BY <1>3, <1>7, <1>8 DEF Inv, DistinctKeys
<1>10. Ascending'
  <2>1. \A m, n \in Filled : m < n => Before(keys'[m], keys'[n])
    BY <1>8 DEF Inv, Ascending, StoreKey
  <2>2. \A m, n \in Filled' : m < n => Before(keys'[m], keys'[n])
    BY <1>1, <1>3, <1>4, <1>6, <2>1
  <2>3. QED  BY <2>2 DEF Ascending, Before
<1>11. Carried'
  BY <1>1, <1>2 DEF Carried, StoreKey
<1>12. CounterAhead'
  BY DEF CounterAhead, StoreKey
<1>13. QED  BY <1>5, <1>9, <1>10, <1>11, <1>12 DEF Inv

\* Stepping a letter: the counter comes after the key just stored, hence after
\* all of them.
LEMMA StepKeeps ==
  ASSUME TypeOK, InLoop, Inv, StepLetter
  PROVE  Inv'
<1> USE KeyConstants
<1>1. i \in Indices /\ i \in Int /\ j \in Places /\ j \in Int /\ i < KEYS
  BY DEF StepLetter, InLoop, TypeOK, Indices
<1>2. keys' = keys /\ i' = i + 1 /\ step' = "store" /\ step = "count"
  BY DEF StepLetter, NextKey
<1>3. Filled' = Filled /\ Filled \subseteq Indices /\ i \in Filled
  BY <1>1, <1>2 DEF Filled, Inv, Positions
<1>4. \A n \in Filled : n \in Int /\ n <= i /\ keys[n] \in Strings
  BY <1>1, <1>2 DEF Filled, Inv, Positions, TypeOK
<1>5. Before(keys[i], current')
  <2>1. current' = [current EXCEPT ![j] = current[j] + 1]
    BY DEF StepLetter
  <2>2. current'[j] = current[j] + 1 /\ \A q \in Places : q > j => current'[q] = current[q]
    BY <1>1, <2>1 DEF TypeOK, Strings
  <2>3. \A q \in Places : q \in Int /\ (q >= j => current[q] = keys[i][q])
    BY <1>2 DEF Inv, Carried
  <2>4. current[j] \in Int /\ current[j] = keys[i][j]
    <3>1. current[j] \in Letters
      BY <1>1 DEF TypeOK, Strings
    <3>2. current[j] \in Int
      BY <3>1, KeyConstants
    <3>3. current[j] = keys[i][j]
      <4>1. j >= j
        BY <1>1
      <4>2. QED  BY <1>1, <2>3, <4>1, Zenon
    <3>4. QED  BY <3>2, <3>3
  <2>5. \A q \in Places : q > j => keys[i][q] = current'[q]
    BY <1>1, <2>2, <2>3
  <2>6. keys[i][j] < current'[j]
    BY <2>2, <2>4
  <2>7. QED  BY <1>1, <2>5, <2>6 DEF Before
<1>6. current' \in Strings
  BY TypeNext DEF KeysNext, TypeOK
<1>7. \A n \in Filled : Before(keys[n], current')
  <2> SUFFICES ASSUME NEW n \in Filled PROVE Before(keys[n], current')
    OBVIOUS
  <2>1. CASE n = i
    BY <1>5, <2>1
  <2>2. CASE n # i
    <3>1. n < i
      BY <1>1, <1>4, <2>2
    <3>2. Before(keys[n], keys[i])
      BY <1>2, <1>3, <3>1 DEF Inv, Ascending
    <3>3. keys[n] \in Strings /\ keys[i] \in Strings
      BY <1>3, <1>4
    <3>4. QED  BY <1>5, <1>6, <3>2, <3>3, BeforeTransitive
  <2>3. QED  BY <2>1, <2>2
<1>8. CounterAhead'
  BY <1>2, <1>3, <1>7 DEF CounterAhead, Before
<1>9. Positions'
  BY <1>1, <1>2, <1>3 DEF Inv, Positions
<1>10. DistinctKeys'
  BY <1>2, <1>3 DEF Inv, DistinctKeys
<1>11. Ascending'
  BY <1>2, <1>3 DEF Inv, Ascending, Before
<1>12. Carried'
  BY <1>2 DEF Carried
<1>13. QED  BY <1>8, <1>9, <1>10, <1>11, <1>12 DEF Inv

\* A carry to the next letter resets one that no longer matters.
LEMMA CarryKeeps ==
  ASSUME TypeOK, InLoop, Inv, CarryLetter
  PROVE  Inv'
<1> USE KeyConstants
<1>1. j \in Places /\ j \in Int /\ j' = j + 1
  BY DEF CarryLetter, TypeOK
<1>2. keys' = keys /\ i' = i /\ step' = step /\ step = "count"
      /\ current' = [current EXCEPT ![j] = 0]
  BY DEF CarryLetter, Reset
<1>3. Filled' = Filled
  BY <1>2 DEF Filled
<1>4. \A q \in Places : q >= j' => current'[q] = keys'[i'][q]
  <2> SUFFICES ASSUME NEW q \in Places, q >= j' PROVE current'[q] = keys'[i'][q]
    OBVIOUS
  <2>1. q # j /\ q >= j
    BY <1>1
  <2>2. current'[q] = current[q]
    BY <1>1, <1>2, <2>1 DEF TypeOK, Strings
  <2>3. QED  BY <1>2, <2>1, <2>2 DEF Inv, Carried
<1>5. Carried'
  BY <1>4 DEF Carried
<1>6. Positions' /\ DistinctKeys' /\ CounterAhead'
  BY <1>2, <1>3 DEF Inv, Positions, DistinctKeys, CounterAhead
<1>7. Ascending'
  BY <1>2, <1>3 DEF Inv, Ascending, Before
<1>8. QED  BY <1>5, <1>6, <1>7 DEF Inv

\* When the counter overflows it is used no more.
LEMMA CarryOutKeeps ==
  ASSUME TypeOK, InLoop, Inv, CarryOut, OverflowsLast'
  PROVE  Inv'
<1> USE KeyConstants
<1>1. i \in Int /\ i < KEYS /\ i' = i + 1 /\ keys' = keys
      /\ step = "count" /\ step' = "store"
  BY DEF CarryOut, InLoop, NextKey, Reset, TypeOK
<1>2. Filled' = Filled /\ Filled = Indices
  BY <1>1 DEF CarryOut, OverflowsLast, Filled
<1>3. i + 1 = KEYS
  <2>1. KEYS - 1 \in Indices
    BY DEF Indices
  <2>2. KEYS - 1 <= i
    BY <1>1, <1>2, <2>1 DEF Inv, Positions
  <2>3. QED  BY <1>1, <2>2
<1>4. Positions'
  BY <1>1, <1>2 DEF Inv, Positions
<1>5. DistinctKeys'
  BY <1>1, <1>2 DEF Inv, DistinctKeys
<1>6. Ascending'
  BY <1>1, <1>2 DEF Inv, Ascending, Before
<1>7. CounterAhead' /\ Carried'
  BY <1>1, <1>3 DEF CounterAhead, Carried
<1>8. QED  BY <1>4, <1>5, <1>6, <1>7 DEF Inv

\* A swap moves keys, and repeats none.
LEMMA ShuffleKeeps ==
  ASSUME TypeOK, Inv, ShuffleKey
  PROVE  Inv'
<1> USE KeyConstants
<1>1. i \in Indices /\ i \in Int /\ step = "shuffle" /\ step' = "shuffle"
  BY DEF ShuffleKey, TypeOK, Indices
<1>2. PICK r \in 0 .. i : keys' = Swapped(i, r)
  BY DEF ShuffleKey
<1>3. r \in Indices
  BY <1>1, <1>2 DEF Indices
<1>4. Filled = Indices
  BY <1>1 DEF Inv, Positions
<1>5. /\ keys'[r] = keys[i]
      /\ r # i => keys'[i] = keys[r]
      /\ \A n \in Indices : n # i /\ n # r => keys'[n] = keys[n]
  BY <1>1, <1>2, <1>3 DEF Swapped, TypeOK
<1>6. Filled' = Indices
  BY <1>1, <1>3, <1>4, <1>5 DEF Filled
<1>7. DistinctKeys'
  BY <1>1, <1>3, <1>4, <1>5, <1>6 DEF Inv, DistinctKeys
<1>8. Positions' /\ Ascending' /\ Carried' /\ CounterAhead'
  BY <1>1, <1>6 DEF Positions, Ascending, Carried, CounterAhead
<1>9. QED  BY <1>7, <1>8 DEF Inv

LEMMA DistinctNext ==
  ASSUME TypeOK, InLoop, Inv, [KeysNext]_keys_vars, OverflowsLast'
  PROVE  Inv'
<1>1. CASE StartShuffle
  <2>1. Filled = Indices
    BY <1>1, KeyConstants DEF StartShuffle, Inv, Positions, Indices, Filled
  <2>2. Filled' = Filled /\ keys' = keys /\ step' = "shuffle"
    BY <1>1 DEF StartShuffle, Filled
  <2>3. QED
    BY <2>1, <2>2
    DEF Inv, Positions, DistinctKeys, Ascending, Carried, CounterAhead
<1>2. CASE UNCHANGED keys_vars
  BY <1>2 DEF keys_vars, Inv, Positions, DistinctKeys, Ascending, Carried,
              CounterAhead, Filled, Before
<1>3. QED
  BY <1>1, <1>2, StoreKeeps, StepKeeps, CarryKeeps, CarryOutKeeps, ShuffleKeeps
  DEF KeysNext, Ready

-----------------------------------------------------------------------------
(* Completeness: no string is left out before the counter overflows.       *)

Stored == {keys[n] : n \in Filled}

\* All strings before the counter are stored; while a carry is under way, the
\* letters that were reset were 'z'.
Covered ==
  /\ step = "store" /\ ~overflowed =>
       \A s \in Strings : Before(s, current) => s \in Stored
  /\ step = "count" =>
       /\ \A s \in Strings : Before(s, keys[i]) => s \in Stored
       /\ \A p \in Places : p < j => current[p] = 0 /\ keys[i][p] = LETTERS - 1

LEMMA LastPlace ==
  ASSUME NEW P \in SUBSET Places, P # {}
  PROVE  \E p \in P : \A q \in P : q <= p
<1> SUFFICES ASSUME \A p \in P : \E q \in P : ~(q <= p)
             PROVE  FALSE
  OBVIOUS
<1>1. P \subseteq Nat /\ \A p \in P : p < LENGTH
  BY KeyConstants DEF Places
<1> DEFINE S == {n \in Nat : \E p \in P : p >= n}
<1>2. 0 \in S
  <2>1. PICK p \in P : TRUE
    OBVIOUS
  <2>2. p \in Nat /\ p >= 0
    BY <1>1, <2>1
  <2> QED  BY <2>2
<1>3. ASSUME NEW n \in Nat, n \in S
      PROVE  n + 1 \in S
  <2>1. PICK p \in P : p >= n
    BY <1>3
  <2>2. PICK q \in P : ~(q <= p)
    OBVIOUS
  <2>3. q >= n + 1
    BY <1>1, <2>1, <2>2
  <2> QED  BY <2>3
<1>4. LENGTH \in S
  <2> HIDE DEF S
  <2> QED  BY <1>2, <1>3, NatSetInduction, KeyConstants
<1> QED  BY <1>1, <1>4, KeyConstants

\* A string with no letter beyond that of another is that one or before it.
LEMMA AtMostBefore ==
  ASSUME NEW s \in Strings, NEW t \in Strings, s # t,
         \A q \in Places : s[q] <= t[q]
  PROVE  Before(s, t)
<1> DEFINE P == {q \in Places : s[q] # t[q]}
<1>1. P # {}
  BY DEF Strings
<1>2. PICK p \in P : \A q \in P : q <= p
  BY <1>1, LastPlace
<1>3. \A q \in Places : s[q] \in Int /\ t[q] \in Int /\ q \in Int
  BY KeyConstants DEF Strings
<1>4. s[p] < t[p] /\ \A q \in Places : q > p => s[q] = t[q]
  BY <1>2, <1>3
<1> QED  BY <1>4 DEF Before

LEMMA CoveredInit == KeysInit => Covered
<1> SUFFICES ASSUME KeysInit, NEW s \in Strings, Before(s, current)
             PROVE  FALSE
  BY DEF KeysInit, Covered
<1>1. PICK p \in Places : s[p] < current[p]
  BY DEF Before
<1>2. current[p] = 0 /\ s[p] \in Letters
  BY DEF KeysInit, Strings
<1> QED  BY <1>1, <1>2, KeyConstants DEF Letters

LEMMA StoreCovers ==
  ASSUME TypeOK, Inv, OverflowsLast, Covered, StoreKey
  PROVE  Covered'
<1>1. i \in Indices /\ i \notin Filled
  BY KeyConstants DEF StoreKey, TypeOK, Indices, Inv, Positions
<1>2. ~overflowed
  BY <1>1 DEF OverflowsLast
<1>3. keys'[i] = current /\ (\A n \in Indices : n # i => keys'[n] = keys[n])
      /\ i' = i /\ j' = 0 /\ step' = "count"
  BY <1>1 DEF StoreKey, TypeOK
<1>4. \A s \in Strings : Before(s, current) => s \in Stored
  BY <1>2 DEF Covered, StoreKey
<1>5. Stored \subseteq Stored'
  BY <1>1, <1>3 DEF Stored, Filled
<1>6. \A s \in Strings : Before(s, keys'[i']) => s \in Stored'
  BY <1>3, <1>4, <1>5
<1>7. \A p \in Places : ~(p < j')
  BY <1>3, KeyConstants DEF Places
<1> QED  BY <1>3, <1>6, <1>7 DEF Covered

LEMMA StepCovers ==
  ASSUME TypeOK, InLoop, Inv, Covered, StepLetter
  PROVE  Covered'
<1> USE KeyConstants
<1>1. i \in Indices /\ i \in Filled /\ j \in Places /\ step = "count" /\ i \in Int
  BY DEF StepLetter, InLoop, TypeOK, Indices, Inv, Positions
<1>2. keys' = keys /\ step' = "store" /\ Stored' = Stored
      /\ current' = [current EXCEPT ![j] = current[j] + 1]
  BY DEF StepLetter, NextKey, Stored, Filled
<1>3. keys[i] \in Strings /\ current \in Strings
  BY <1>1 DEF Filled, TypeOK
<1>4. \A p \in Places : /\ p \in Int
                        /\ p < j => current'[p] = 0 /\ keys[i][p] = LETTERS - 1
                        /\ p > j => current'[p] = keys[i][p]
  BY <1>1, <1>2, <1>3 DEF Covered, Inv, Carried, Strings
<1>5. current'[j] = keys[i][j] + 1
  BY <1>1, <1>2, <1>3 DEF Inv, Carried, Strings
<1> SUFFICES ASSUME NEW s \in Strings, Before(s, current')
             PROVE  s \in Stored
  BY <1>2 DEF Covered, Before
<1>6. s = keys[i] \/ Before(s, keys[i])
  <2>1. PICK p \in Places : /\ s[p] < current'[p]
                            /\ \A q \in Places : q > p => s[q] = current'[q]
    BY DEF Before
  <2>2. \A q \in Places : s[q] \in Letters /\ keys[i][q] \in Letters
    BY <1>3 DEF Strings
  <2>3. ~(p < j)
    BY <1>4, <2>1, <2>2 DEF Letters
  <2>4. CASE p = j
    <3>1. \A q \in Places : s[q] <= keys[i][q]
      <4> SUFFICES ASSUME NEW q \in Places
                   PROVE  s[q] <= keys[i][q]
        OBVIOUS
      <4>1. CASE q < j
        BY <1>4, <2>2, <4>1 DEF Letters
      <4>2. CASE q = j
        <5>1. s[j] < keys[i][j] + 1 /\ s[j] \in Int /\ keys[i][j] \in Int
          BY <1>1, <1>5, <2>1, <2>2, <2>4 DEF Letters
        <5> QED  BY <4>2, <5>1
      <4>3. CASE q > j
        <5>1. s[q] = current'[q] /\ current'[q] = keys[i][q]
          BY <1>4, <2>1, <2>4, <4>3
        <5>2. s[q] \in Int
          BY <2>2 DEF Letters
        <5> QED  BY <5>1, <5>2
      <4> QED  BY <1>1, <1>4, <4>1, <4>2, <4>3
    <3> QED  BY <1>3, <3>1, AtMostBefore
  <2>5. CASE p > j
    <3>1. s[p] < keys[i][p] /\ \A q \in Places : q > p => s[q] = keys[i][q]
      BY <1>1, <1>4, <2>1, <2>5
    <3> QED  BY <3>1 DEF Before
  <2> QED  BY <1>1, <1>4, <2>3, <2>4, <2>5
<1>7. keys[i] \in Stored
  BY <1>1 DEF Stored
<1> QED  BY <1>1, <1>6, <1>7 DEF Covered

LEMMA CarryCovers ==
  ASSUME TypeOK, InLoop, Inv, Covered, CarryLetter
  PROVE  Covered'
<1> USE KeyConstants
<1>1. j \in Places /\ step = "count" /\ step' = "count" /\ i' = i /\ j' = j + 1
      /\ keys' = keys /\ Stored' = Stored /\ current' = [current EXCEPT ![j] = 0]
  BY DEF CarryLetter, Reset, TypeOK, Stored, Filled
<1>2. keys[i] \in Strings /\ current \in Strings
  BY <1>1 DEF Filled, TypeOK, Inv, Positions, InLoop, Indices
<1>3. keys[i][j] = LETTERS - 1
  <2>1. current[j] = keys[i][j] /\ keys[i][j] \in Letters
    BY <1>1, <1>2 DEF Inv, Carried, Strings
  <2> QED  BY <2>1 DEF CarryLetter, UpToZ, Letters
<1>4. \A p \in Places : p < j' => current'[p] = 0 /\ keys[i][p] = LETTERS - 1
  <2> SUFFICES ASSUME NEW p \in Places, p < j + 1
               PROVE  current'[p] = 0 /\ keys[i][p] = LETTERS - 1
    BY <1>1
  <2>1. CASE p = j
    BY <1>1, <1>2, <1>3, <2>1 DEF Strings
  <2>2. CASE p < j
    BY <1>1, <1>2, <2>2 DEF Covered, Strings
  <2> QED  BY <1>1, <2>1, <2>2
<1> QED  BY <1>1, <1>4 DEF Covered, Before

\* When the counter overflows, every string is stored: there were as many keys
\* to store as there are strings.
LEMMA CarryOutIsLast ==
  ASSUME TypeOK, InLoop, Inv, Covered, CarryOut
  PROVE  OverflowsLast'
<1> USE KeyConstants
<1>1. j \in Places /\ j + 1 = LENGTH /\ step = "count" /\ i \in Nat /\ i < KEYS
      /\ keys' = keys
  BY DEF CarryOut, InLoop, Reset, TypeOK
<1>2. Filled = 0 .. i
  BY <1>1 DEF Filled, Inv, Positions, Indices
<1>3. keys[i] \in Strings /\ current \in Strings
  BY <1>1, <1>2 DEF Filled, TypeOK
<1>4. \A p \in Places : keys[i][p] = LETTERS - 1
  <2> SUFFICES ASSUME NEW p \in Places
               PROVE  keys[i][p] = LETTERS - 1
    OBVIOUS
  <2>1. CASE p = j
    <3>1. current[j] = keys[i][j] /\ keys[i][j] \in Letters
      BY <1>1, <1>3 DEF Inv, Carried, Strings
    <3> QED  BY <2>1, <3>1 DEF CarryOut, UpToZ, Letters
  <2>2. CASE p < j
    BY <1>1, <2>2 DEF Covered
  <2> QED  BY <1>1, <2>1, <2>2 DEF Places
<1>5. Strings \subseteq Stored
  <2> SUFFICES ASSUME NEW s \in Strings
               PROVE  s \in Stored
    OBVIOUS
  <2>1. \A q \in Places : s[q] <= keys[i][q]
    BY <1>4 DEF Strings, Letters
  <2>2. s = keys[i] \/ Before(s, keys[i])
    BY <1>3, <2>1, AtMostBefore
  <2>3. keys[i] \in Stored
    BY <1>1, <1>2 DEF Stored
  <2> QED  BY <1>1, <2>2, <2>3 DEF Covered
<1>6. Cardinality(Strings) <= i + 1
  <2> DEFINE f == [n \in 0 .. i |-> keys[n]]
  <2>1. f \in Surjection(0 .. i, Strings)
    BY <1>2, <1>5 DEF Surjection, Stored, Filled, TypeOK
  <2>2. IsFiniteSet(0 .. i) /\ Cardinality(0 .. i) = i + 1
    BY <1>1, FS_Interval
  <2> HIDE DEF f
  <2> QED  BY <2>1, <2>2, FS_Surjection
<1>7. KEYS = i + 1
  <2>1. IsFiniteSet(Strings) /\ Cardinality(Strings) \in Nat
    <3> DEFINE f == [n \in 0 .. i |-> keys[n]]
    <3>1. f \in Surjection(0 .. i, Strings)
      BY <1>2, <1>5 DEF Surjection, Stored, Filled, TypeOK
    <3>2. IsFiniteSet(0 .. i)
      BY <1>1, FS_Interval
    <3> HIDE DEF f
    <3> QED  BY <3>1, <3>2, FS_Surjection, FS_CardinalityType
  <2> QED  BY <1>1, <1>6, <2>1, EnoughStrings
<1>8. Filled' = Indices
  BY <1>1, <1>2, <1>7 DEF Filled, Indices
<1> QED  BY <1>8 DEF OverflowsLast

Complete == TypeOK /\ InLoop /\ Inv /\ Covered /\ OverflowsLast

LEMMA CompleteNext ==
  ASSUME Complete, [KeysNext]_keys_vars
  PROVE  Complete'
<1> USE DEF Complete
<1>1. TypeOK' /\ InLoop'
  BY TypeNext
<1>2. Covered' /\ OverflowsLast'
  <2>1. CASE StoreKey
    <3>1. i \notin Filled /\ i \in Indices
      BY <2>1, KeyConstants DEF StoreKey, TypeOK, Indices, Inv, Positions
    <3> QED  BY <2>1, <3>1, StoreCovers DEF StoreKey, OverflowsLast
  <2>2. CASE StepLetter
    BY <2>2, StepCovers DEF StepLetter, OverflowsLast, Filled
  <2>3. CASE CarryLetter
    BY <2>3, CarryCovers DEF CarryLetter, Reset, OverflowsLast, Filled
  <2>4. CASE CarryOut
    BY <2>4, CarryOutIsLast DEF CarryOut, NextKey, Covered
  <2>5. CASE StartShuffle
    BY <2>5 DEF StartShuffle, OverflowsLast, Filled, Covered
  <2>6. CASE ShuffleKey
    <3>1. Filled = Indices
      BY <2>6 DEF ShuffleKey, Inv, Positions
    <3>2. Inv'
      BY <2>6, ShuffleKeeps
    <3>3. Filled' = Indices
      BY <2>6, <3>2 DEF ShuffleKey, Inv, Positions
    <3> QED  BY <2>6, <3>3 DEF ShuffleKey, OverflowsLast, Covered
  <2>7. CASE UNCHANGED keys_vars
    BY <2>7 DEF keys_vars, OverflowsLast, Filled, Covered, Stored, Before
  <2> QED  BY <2>1, <2>2, <2>3, <2>4, <2>5, <2>6, <2>7 DEF KeysNext, Ready
<1>3. Inv'
  BY <1>2, DistinctNext
<1> QED  BY <1>1, <1>2, <1>3

LEMMA Completeness == KeysSpec => []Complete
<1>1. KeysInit => Complete
  BY TypeInit, DistinctInit, CoveredInit DEF Complete, KeysInit, OverflowsLast
<1>2. Complete /\ [KeysNext]_keys_vars => Complete'
  BY CompleteNext
<1> QED  BY <1>1, <1>2, PTL DEF KeysSpec

\* The counter has a turn for every string: with no more keys than strings it
\* does not begin anew before the last key is stored.
THEOREM OverflowComesLast == KeysSpec => []OverflowsLast
<1>1. Complete => OverflowsLast
  BY DEF Complete
<1> QED  BY <1>1, Completeness, PTL

\* No key occurs twice in the vector, neither while it is filled nor when it is
\* shuffled: the assumption under which Benchmark takes an index for a key.
THEOREM KeysAreDistinct == KeysSpec => []DistinctKeys
<1>1. Complete => DistinctKeys
  BY DEF Complete, Inv
<1> QED  BY <1>1, Completeness, PTL

-----------------------------------------------------------------------------
(* The report.                                                             *)

\* The constants as the proofs need them.
LEMMA Constants ==
  /\ SHIMS \in Nat \ {0} /\ GraphCount \in Int /\ POINTS \in Nat \ {0}
  /\ RUN_COUNT \in Nat \ {0} /\ DISCARDED_RUNS_COUNT \in Nat
  /\ Trim \in Nat /\ DISCARDED_RUNS_COUNT = 2 * Trim
  /\ DISCARDED_RUNS_COUNT < RUN_COUNT
  /\ Samples \subseteq [1 .. RUN_COUNT -> Nat]
<1>1. /\ RUN_COUNT \in Nat /\ DISCARDED_RUNS_COUNT \in 0 .. RUN_COUNT - 1
      /\ DISCARDED_RUNS_COUNT % 2 = 0
  BY ReportAssumption
<1>2. Trim \in Nat /\ DISCARDED_RUNS_COUNT = 2 * Trim
  BY <1>1 DEF Trim
<1> QED  BY <1>1, <1>2, ReportAssumption DEF GraphCount

-----------------------------------------------------------------------------
(* Least and greatest elements.                                            *)

LEMMA MinIs ==
  ASSUME NEW S \in SUBSET Nat, S # {}
  PROVE  Min(S) \in S /\ \A x \in S : Min(S) <= x
<1>1. \E x \in S : \A y \in S : x <= y
  BY LeastElement
<1> QED  BY <1>1 DEF Min

LEMMA MaxIs ==
  ASSUME NEW S, S \subseteq Int, NEW x \in S, \A y \in S : y <= x
  PROVE  Max(S) = x
<1>1. \E z \in S : \A y \in S : z >= y
  OBVIOUS
<1>2. Max(S) \in S /\ \A y \in S : Max(S) >= y
  BY <1>1 DEF Max
<1> DEFINE m == Max(S)
<1>3. m \in Int /\ x \in Int /\ m <= x /\ m >= x
  BY <1>2
<1> HIDE DEF m
<1>4. m = x
  BY <1>3
<1> QED  BY <1>4 DEF m

\* One of finitely many numbers is the greatest.
LEMMA Greatest ==
  ASSUME NEW n \in Nat \ {0}, NEW f, \A k \in 1 .. n : f[k] \in Nat
  PROVE  \E k \in 1 .. n : \A z \in 1 .. n : f[z] <= f[k]
<1> DEFINE Good == {m \in Nat : m < n => \E k \in 1 .. m + 1 :
                                            \A z \in 1 .. m + 1 : f[z] <= f[k]}
<1>1. 0 \in Good
  OBVIOUS
<1>2. ASSUME NEW m \in Nat, m \in Good
      PROVE  m + 1 \in Good
  <2> SUFFICES ASSUME m + 1 < n
               PROVE  \E k \in 1 .. m + 2 : \A z \in 1 .. m + 2 : f[z] <= f[k]
    OBVIOUS
  <2>1. PICK k \in 1 .. m + 1 : \A z \in 1 .. m + 1 : f[z] <= f[k]
    BY <1>2
  <2>2. CASE f[m + 2] <= f[k]
    <3>1. \A z \in 1 .. m + 2 : f[z] <= f[k]
      BY <2>1, <2>2
    <3> QED  BY <3>1
  <2>3. CASE f[k] < f[m + 2]
    <3>1. \A z \in 1 .. m + 2 : f[z] <= f[m + 2]
      BY <2>1, <2>3
    <3> QED  BY <3>1
  <2> QED  BY <2>2, <2>3
<1>3. n - 1 \in Good
  <2> HIDE DEF Good
  <2>1. Nat \subseteq Good
    BY <1>1, <1>2, NatSetInduction
  <2> QED  BY <2>1
<1> QED  BY <1>3

LEMMA GreatestIs ==
  ASSUME NEW n \in Nat \ {0}, NEW f, \A k \in 1 .. n : f[k] \in Nat,
         NEW S, S = {f[k] : k \in 1 .. n}
  PROVE  Max(S) \in S /\ \A x \in S : x <= Max(S)
<1>1. PICK k \in 1 .. n : \A z \in 1 .. n : f[z] <= f[k]
  BY Greatest
<1>2. S \subseteq Int /\ f[k] \in S /\ \A y \in S : y <= f[k]
  BY <1>1
<1>3. Max(S) = f[k]
  BY <1>2, MaxIs
<1> QED  BY <1>2, <1>3

-----------------------------------------------------------------------------
(* The averages.                                                           *)

Runs == 1 .. RUN_COUNT
UpTo(d, v) == {r \in Runs : d[r] <= v}
Under(d, v) == {r \in Runs : d[r] < v}

LEMMA SomeRuns ==
  ASSUME NEW S \in SUBSET Runs
  PROVE  /\ IsFiniteSet(S) /\ Cardinality(S) \in Nat
         /\ IsFiniteSet(Runs \ S) /\ Cardinality(Runs \ S) = RUN_COUNT - Cardinality(S)
         /\ IsFiniteSet(Runs) /\ Cardinality(Runs) = RUN_COUNT
<1>1. IsFiniteSet(Runs) /\ Cardinality(Runs) = RUN_COUNT
  BY Constants, FS_Interval DEF Runs
<1>2. IsFiniteSet(S) /\ Cardinality(S) \in Nat
  BY <1>1, FS_Subset, FS_CardinalityType
<1>3. /\ IsFiniteSet(Runs \ S)
      /\ Cardinality(Runs \ S) = Cardinality(Runs) - Cardinality(Runs \cap S)
  BY <1>1, FS_Difference
<1>4. Runs \cap S = S
  OBVIOUS
<1> QED  BY <1>1, <1>2, <1>3, <1>4

\* There is an n-th of the sorted durations.
LEMMA SortedIs ==
  ASSUME NEW d \in [Runs -> Nat], NEW n \in Runs
  PROVE  /\ Sorted(d)[n] \in Nat
         /\ Cardinality(Under(d, Sorted(d)[n])) < n
         /\ Cardinality(UpTo(d, Sorted(d)[n])) >= n
<1> DEFINE Values == {d[r] : r \in Runs}
           T == {v \in Values : Cardinality(UpTo(d, v)) >= n}
<1>1. RUN_COUNT \in Nat \ {0} /\ n \in 1 .. RUN_COUNT /\ Values \subseteq Nat
  BY Constants DEF Runs
<1>2. T # {}
  <2>1. PICK k \in Runs : \A z \in Runs : d[z] <= d[k]
    BY <1>1, Greatest DEF Runs
  <2>2. UpTo(d, d[k]) = Runs
    BY <2>1 DEF UpTo
  <2>3. Cardinality(Runs) = RUN_COUNT
    BY SomeRuns
  <2>4. Cardinality(UpTo(d, d[k])) >= n
    BY <1>1, <2>2, <2>3
  <2> QED  BY <2>4
<1>3. PICK v \in T : \A x \in T : v <= x
  <2>1. T \in SUBSET Nat
    BY <1>1
  <2> HIDE DEF T
  <2> QED  BY <1>2, <2>1, LeastElement
<1>4. Cardinality(Under(d, v)) < n
  <2> SUFFICES ASSUME Cardinality(Under(d, v)) >= n
               PROVE  FALSE
    <3>1. Cardinality(Under(d, v)) \in Nat
      BY SomeRuns DEF Under
    <3> QED  BY <1>1, <3>1
  <2>1. Under(d, v) # {}
    BY <1>1, FS_EmptySet
  <2> DEFINE e == [r \in Runs |-> IF r \in Under(d, v) THEN d[r] + 1 ELSE 0]
  <2>2. PICK k \in Runs : \A z \in Runs : e[z] <= e[k]
    <3>1. \A k \in 1 .. RUN_COUNT : e[k] \in Nat
      BY DEF Runs
    <3> HIDE DEF e
    <3> QED  BY <1>1, <3>1, Greatest DEF Runs
  <2>3. k \in Under(d, v)
    BY <2>1, <2>2 DEF Under
  <2>4. UpTo(d, d[k]) = Under(d, v)
    <3>1. ASSUME NEW r \in Runs PROVE d[r] <= d[k] <=> d[r] < v
      <4>1. d[k] < v /\ d[k] \in Nat /\ d[r] \in Nat /\ v \in Nat
        BY <1>1, <2>3 DEF Under
      <4>2. d[r] < v => d[r] <= d[k]
        <5>1. d[r] < v => e[r] = d[r] + 1
          BY DEF Under
        <5>2. e[k] = d[k] + 1 /\ e[r] <= e[k]
          BY <2>2, <2>3
        <5> QED  BY <4>1, <5>1, <5>2
      <4> QED  BY <4>1, <4>2
    <3> QED  BY <3>1 DEF UpTo, Under
  <2>5. d[k] \in T
    BY <2>4
  <2>6. d[k] < v
    BY <2>3 DEF Under
  <2> QED  BY <1>1, <1>3, <2>5, <2>6
<1> DEFINE P(x) == Cardinality(Under(d, x)) < n /\ Cardinality(UpTo(d, x)) >= n
<1>5. Range(d) = Values
  BY DEF Range
<1>6. Sorted(d)[n] = CHOOSE x \in Values : P(x)
  BY <1>5 DEF Sorted, Under, UpTo, Runs
<1>7. \E x \in Values : P(x)
  BY <1>3, <1>4
<1>8. Sorted(d)[n] \in Values /\ P(Sorted(d)[n])
  <2> HIDE DEF P, Values
  <2> QED  BY <1>6, <1>7
<1> QED  BY <1>1, <1>8

\* The recursive function of Accumulated exists.
LEMMA SumExists ==
  ASSUME NEW seq, Len(seq) \in Nat
  PROVE  \E f : /\ f[0] = 0
                /\ \A k \in 1 .. Len(seq) : f[k] = f[k - 1] + seq[k]
                /\ Accumulated(seq) = f[Len(seq)]
<1> DEFINE Step(f, k) == IF k = 0 THEN 0 ELSE f[k - 1] + seq[k]
           Fills(f, c) == f = [k \in 0 .. c |-> Step(f, k)]
           Exists == {c \in Nat : \E f : Fills(f, c)}
           sum == CHOOSE f : Fills(f, Len(seq))
<1>1. Accumulated(seq) = sum[Len(seq)]
  BY DEF Accumulated
<1>2. Len(seq) \in Exists
  <2>1. 0 \in Exists
    <3>1. Fills([k \in 0 .. 0 |-> 0], 0)
      OBVIOUS
    <3> QED  BY <3>1
  <2>2. ASSUME NEW c \in Nat, c \in Exists
        PROVE  c + 1 \in Exists
    <3>1. PICK f : Fills(f, c)
      BY <2>2
    <3> DEFINE g == [k \in 0 .. c + 1 |-> IF k = c + 1 THEN Step(f, k) ELSE f[k]]
    <3>2. \A k \in 0 .. c + 1 : Step(g, k) = Step(f, k)
      <4> SUFFICES ASSUME NEW k \in 1 .. c + 1
                   PROVE  g[k - 1] = f[k - 1]
        OBVIOUS
      <4> QED  OBVIOUS
    <3>3. \A k \in 0 .. c : f[k] = Step(f, k)
      BY <3>1
    <3>4. \A k \in 0 .. c + 1 : g[k] = Step(g, k)
      <4> SUFFICES ASSUME NEW k \in 0 .. c + 1
                   PROVE  g[k] = Step(g, k)
        OBVIOUS
      <4>1. g[k] = Step(f, k)
        <5> HIDE DEF Step
        <5> QED  BY <3>3
      <4> HIDE DEF g, Step
      <4> QED  BY <3>2, <4>1
    <3>5. Fills(g, c + 1)
      <4>1. g = [k \in 0 .. c + 1 |-> g[k]]
        OBVIOUS
      <4> HIDE DEF g, Step
      <4> QED  BY <3>4, <4>1
    <3> HIDE DEF Fills, g
    <3> QED  BY <3>5
  <2> HIDE DEF Exists
  <2>3. Nat \subseteq Exists
    BY <2>1, <2>2, NatSetInduction
  <2> QED  BY <2>3
<1>3. Fills(sum, Len(seq))
  <2>1. \E f : Fills(f, Len(seq))
    BY <1>2
  <2> HIDE DEF Fills
  <2> QED  BY <2>1
<1> HIDE DEF sum
<1>4. \A k \in 0 .. Len(seq) : sum[k] = Step(sum, k)
  BY <1>3
<1>5. sum[0] = 0
  BY <1>4
<1>6. \A k \in 1 .. Len(seq) : sum[k] = sum[k - 1] + seq[k]
  BY <1>4
<1> QED  BY <1>1, <1>5, <1>6, Zenon

\* A sum of numbers that are each between a and b.
LEMMA SumBounds ==
  ASSUME NEW seq, Len(seq) \in Nat, NEW a \in Nat, NEW b \in Nat,
         \A k \in 1 .. Len(seq) : seq[k] \in Nat /\ a <= seq[k] /\ seq[k] <= b
  PROVE  Accumulated(seq) \in Len(seq) * a .. Len(seq) * b
<1>1. PICK f : /\ f[0] = 0
               /\ \A k \in 1 .. Len(seq) : f[k] = f[k - 1] + seq[k]
               /\ Accumulated(seq) = f[Len(seq)]
  BY SumExists
<1> DEFINE Good == {m \in Nat : m <= Len(seq) => f[m] \in m * a .. m * b}
<1>2. 0 \in Good
  BY <1>1
<1>3. ASSUME NEW m \in Nat, m \in Good
      PROVE  m + 1 \in Good
  <2> SUFFICES ASSUME m + 1 <= Len(seq)
               PROVE  f[m + 1] \in (m + 1) * a .. (m + 1) * b
    OBVIOUS
  <2>1. f[m] \in m * a .. m * b /\ m * a \in Nat /\ m * b \in Nat
    BY <1>3
  <2>2. f[m + 1] = f[m] + seq[m + 1]
    BY <1>1
  <2>3. seq[m + 1] \in Nat /\ a <= seq[m + 1] /\ seq[m + 1] <= b
    OBVIOUS
  <2>4. (m + 1) * a = m * a + a /\ (m + 1) * b = m * b + b
    OBVIOUS
  <2> QED  BY <2>1, <2>2, <2>3, <2>4
<1>4. Len(seq) \in Good
  <2> HIDE DEF Good
  <2>1. Nat \subseteq Good
    BY <1>2, <1>3, NatSetInduction
  <2> QED  BY <2>1
<1> QED  BY <1>1, <1>4

\* A sum of naturals is one.
LEMMA SumIsNat ==
  ASSUME NEW seq, Len(seq) \in Nat, \A k \in 1 .. Len(seq) : seq[k] \in Nat
  PROVE  Accumulated(seq) \in Nat
<1>1. CASE Len(seq) = 0
  <2>1. Accumulated(seq) \in Len(seq) * 0 .. Len(seq) * 0
    BY <1>1, SumBounds
  <2> QED  BY <1>1, <2>1
<1>2. CASE Len(seq) # 0
  <2>1. PICK k \in 1 .. Len(seq) : \A z \in 1 .. Len(seq) : seq[z] <= seq[k]
    BY <1>2, Greatest
  <2> DEFINE n == Len(seq)
             b == seq[k]
  <2>2. n \in Nat /\ b \in Nat /\ \A z \in 1 .. n : seq[z] \in Nat /\ 0 <= seq[z] /\ seq[z] <= b
    BY <2>1
  <2>3. Accumulated(seq) \in n * 0 .. n * b
    BY <2>2, SumBounds
  <2> HIDE DEF n, b
  <2>4. n * 0 = 0
    BY <2>2
  <2> QED  BY <2>3, <2>4
<1> QED  BY <1>1, <1>2

\* What is left of the sorted durations.
LEMMA KeptIs ==
  ASSUME NEW d \in [Runs -> Nat]
  PROVE  /\ Len(Kept(Sorted(d))) = RUN_COUNT - DISCARDED_RUNS_COUNT
         /\ \A k \in 1 .. RUN_COUNT - DISCARDED_RUNS_COUNT :
              /\ Trim + k \in Trim + 1 .. RUN_COUNT - Trim
              /\ Kept(Sorted(d))[k] = Sorted(d)[Trim + k]
<1> DEFINE s == Sorted(d)
           n == RUN_COUNT
           x == Trim + 1
           y == RUN_COUNT - Trim
<1>1. s \in [1 .. n -> Nat]
  <2> DEFINE nth(k) == CHOOSE v \in Range(d) :
               /\ Cardinality({r \in 1 .. RUN_COUNT : d[r] < v}) < k
               /\ Cardinality({r \in 1 .. RUN_COUNT : d[r] <= v}) >= k
  <2>0. s = [k \in 1 .. n |-> nth(k)]
    BY DEF Sorted
  <2>1. s = [k \in 1 .. n |-> s[k]]
    <3> HIDE DEF nth, s
    <3> QED  BY <2>0
  <2>2. \A k \in 1 .. n : s[k] \in Nat
    BY SortedIs DEF Runs
  <2> HIDE DEF s
  <2> QED  BY <2>1, <2>2
<1>2. n \in Nat /\ x \in Nat /\ y \in Nat /\ 1 <= x /\ x <= y /\ y <= n
  BY Constants
<1>3. Kept(s) = SubSeq(s, x, y)
  BY DEF Kept
<1>4. y - x + 1 = RUN_COUNT - DISCARDED_RUNS_COUNT
  BY Constants
<1> HIDE DEF s, n, x, y
<1>5. s \in Seq(Nat) /\ Len(s) = n
  BY <1>1, <1>2
<1>6. /\ Len(SubSeq(s, x, y)) = y - x + 1
      /\ \A k \in 1 .. y - x + 1 : SubSeq(s, x, y)[k] = s[x + k - 1]
  BY <1>2, <1>5
<1>7. \A k \in 1 .. RUN_COUNT - DISCARDED_RUNS_COUNT :
        /\ Trim + k \in Trim + 1 .. RUN_COUNT - Trim
        /\ x + k - 1 = Trim + k
  BY Constants DEF x
<1> QED  BY <1>3, <1>4, <1>6, <1>7 DEF s

LEMMA AverageIsNat ==
  ASSUME NEW d \in [Runs -> Nat]
  PROVE  Accumulated(Kept(Sorted(d))) \in Nat
<1>1. ASSUME NEW k \in 1 .. RUN_COUNT - DISCARDED_RUNS_COUNT
      PROVE  Kept(Sorted(d))[k] \in Nat
  <2>1. Trim + k \in Runs
    BY Constants, KeptIs DEF Runs
  <2> QED  BY <2>1, KeptIs, SortedIs
<1>2. Len(Kept(Sorted(d))) = RUN_COUNT - DISCARDED_RUNS_COUNT
  BY KeptIs
<1>3. RUN_COUNT - DISCARDED_RUNS_COUNT \in Nat
  BY Constants
<1> QED  BY <1>1, <1>2, <1>3, SumIsNat

\* Runs that went wrong, no more than are trimmed at either end, leave one that did
\* not at or below every place that is kept, and one at or above it.
LEMMA OthersAround ==
  ASSUME NEW d \in [Runs -> Nat], NEW wrong \in SUBSET Runs, Cardinality(wrong) = Trim,
         NEW n \in Trim + 1 .. RUN_COUNT - Trim
  PROVE  /\ \E r \in Runs \ wrong : d[r] <= Sorted(d)[n]
         /\ \E r \in Runs \ wrong : d[r] >= Sorted(d)[n]
<1> DEFINE v == Sorted(d)[n]
<1>1. n \in Runs
  BY Constants DEF Runs
<1>2. v \in Nat /\ Cardinality(Under(d, v)) < n /\ Cardinality(UpTo(d, v)) >= n
  BY <1>1, SortedIs
<1> HIDE DEF v
<1>3. /\ IsFiniteSet(Runs) /\ Cardinality(Runs) = RUN_COUNT
      /\ Cardinality(Runs \ wrong) = RUN_COUNT - Trim
  BY SomeRuns
<1>4. UpTo(d, v) \cap (Runs \ wrong) # {}
  <2>1. UpTo(d, v) \in SUBSET Runs
    BY DEF UpTo
  <2>2. Cardinality(UpTo(d, v)) \in Nat
    BY <2>1, SomeRuns
  <2>3. Cardinality(UpTo(d, v)) + Cardinality(Runs \ wrong) > Cardinality(Runs)
    BY <1>2, <1>3, <2>2, Constants
  <2> QED  BY <1>3, <2>1, <2>3, FS_MajoritiesIntersect
<1>5. (Runs \ Under(d, v)) \cap (Runs \ wrong) # {}
  <2>1. Under(d, v) \in SUBSET Runs
    BY DEF Under
  <2>2. /\ Cardinality(Under(d, v)) \in Nat
        /\ Cardinality(Runs \ Under(d, v)) = RUN_COUNT - Cardinality(Under(d, v))
    BY <2>1, SomeRuns
  <2>3. Cardinality(Runs \ Under(d, v)) + Cardinality(Runs \ wrong) > Cardinality(Runs)
    BY <1>2, <1>3, <2>2, Constants
  <2> QED  BY <1>3, <2>3, FS_MajoritiesIntersect
<1>6. \E r \in Runs \ wrong : d[r] <= v
  BY <1>4 DEF UpTo
<1>7. \E r \in Runs \ wrong : d[r] >= v
  <2>1. PICK r \in Runs \ wrong : r \notin Under(d, v)
    BY <1>5
  <2>2. ~(d[r] < v) /\ d[r] \in Nat
    BY <2>1 DEF Under
  <2> QED  BY <1>2, <2>2
<1> QED  BY <1>6, <1>7 DEF v

LEMMA OutliersIs ==
  ASSUME NEW d \in [Runs -> Nat], NEW wrong \in SUBSET Runs, Cardinality(wrong) = Trim
  PROVE  LET others == {d[r] : r \in Runs \ wrong}
             kept == RUN_COUNT - DISCARDED_RUNS_COUNT
         IN  Accumulated(Kept(Sorted(d))) \in kept * Min(others) .. kept * Max(others)
<1> DEFINE others == {d[r] : r \in Runs \ wrong}
           kept == RUN_COUNT - DISCARDED_RUNS_COUNT
           a == Min(others)
           b == Max(others)
<1>1. others # {} /\ others \in SUBSET Nat
  <2>1. Trim + 1 \in Trim + 1 .. RUN_COUNT - Trim
    BY Constants
  <2> QED  BY <2>1, OthersAround
<1>2. a \in others /\ \A x \in others : a <= x
  <2> HIDE DEF others
  <2> QED  BY <1>1, MinIs
<1>3. b \in others /\ \A x \in others : x <= b
  <2> DEFINE e == [k \in Runs |-> IF k \in wrong THEN a ELSE d[k]]
  <2>1. \A k \in 1 .. RUN_COUNT : e[k] \in Nat
    BY <1>1, <1>2 DEF Runs
  <2>2. others = {e[k] : k \in 1 .. RUN_COUNT}
    <3>1. \A k \in Runs : e[k] \in others
      BY <1>2
    <3>2. \A x \in others : \E k \in Runs : x = e[k]
      OBVIOUS
    <3> HIDE DEF others, e
    <3> QED  BY <3>1, <3>2 DEF Runs
  <2> HIDE DEF others, e
  <2>3. RUN_COUNT \in Nat \ {0}
    BY Constants
  <2> QED  BY <2>1, <2>2, <2>3, GreatestIs
<1>4. Len(Kept(Sorted(d))) = kept /\ kept \in Nat
  BY KeptIs, Constants
<1>5. ASSUME NEW k \in 1 .. kept
      PROVE  LET x == Kept(Sorted(d))[k] IN x \in Nat /\ a <= x /\ x <= b
  <2> DEFINE n == Trim + k
  <2>1. n \in Trim + 1 .. RUN_COUNT - Trim /\ Kept(Sorted(d))[k] = Sorted(d)[n]
    BY KeptIs
  <2>2. n \in Runs
    BY <2>1, Constants DEF Runs
  <2> HIDE DEF n
  <2> DEFINE x == Sorted(d)[n]
  <2>3. x \in Nat
    BY <2>2, SortedIs
  <2>4. PICK r \in Runs \ wrong : d[r] <= x
    BY <2>1, OthersAround
  <2>5. PICK q \in Runs \ wrong : d[q] >= x
    BY <2>1, OthersAround
  <2>6. a <= d[r] /\ d[q] <= b
    BY <1>2, <1>3
  <2>7. a \in Nat /\ b \in Nat /\ d[r] \in Nat /\ d[q] \in Nat
    BY <1>1, <1>2, <1>3
  <2> HIDE DEF a, b, x
  <2>8. a <= x /\ x <= b
    BY <2>3, <2>4, <2>5, <2>6, <2>7
  <2> QED  BY <2>1, <2>3, <2>8 DEF x
<1>6. a \in Nat /\ b \in Nat
  BY <1>1, <1>2, <1>3
<1> HIDE DEF a, b, kept
<1>7. Accumulated(Kept(Sorted(d))) \in kept * a .. kept * b
  BY <1>4, <1>5, <1>6, SumBounds
<1> QED  BY <1>7 DEF a, b, kept

-----------------------------------------------------------------------------
(* The measurements, which never change.                                   *)

Measured == results \in [Plots -> [0 .. POINTS - 1 -> Samples]]

LEMMA DurationsIs ==
  ASSUME Measured, NEW plot \in Plots, NEW p \in 0 .. POINTS - 1
  PROVE  /\ results[plot][p] \in [Runs -> Nat]
         /\ adjusted_average_result(plot, p) \in Nat
<1>1. results[plot][p] \in [Runs -> Nat]
  BY Constants DEF Measured, Runs
<1> QED  BY <1>1, AverageIsNat DEF adjusted_average_result

LEMMA HighestIs ==
  ASSUME Measured, NEW plot \in Plots
  PROVE  /\ Averages(plot) \subseteq Nat
         /\ max_adjusted_average_result(plot) \in Averages(plot)
         /\ \A x \in Averages(plot) : x <= max_adjusted_average_result(plot)
<1> DEFINE f == [k \in 1 .. POINTS |-> adjusted_average_result(plot, k - 1)]
           S == Averages(plot)
<1>1. S = {f[k] : k \in 1 .. POINTS}
  <2> DEFINE average(p) == adjusted_average_result(plot, p)
  <2>1. S = {average(p) : p \in 0 .. POINTS - 1} /\ f = [k \in 1 .. POINTS |-> average(k - 1)]
    BY DEF Averages
  <2> HIDE DEF average, S, f
  <2>2. \A p \in 0 .. POINTS - 1 : p + 1 \in 1 .. POINTS /\ average(p) = f[p + 1]
    BY <2>1, Constants
  <2>3. \A k \in 1 .. POINTS : k - 1 \in 0 .. POINTS - 1 /\ f[k] = average(k - 1)
    BY <2>1, Constants
  <2> QED  BY <2>1, <2>2, <2>3
<1>2. \A k \in 1 .. POINTS : f[k] \in Nat
  BY DurationsIs, Constants
<1> HIDE DEF f, S
<1>3. PICK k \in 1 .. POINTS : \A z \in 1 .. POINTS : f[z] <= f[k]
  BY <1>2, Constants, Greatest
<1> DEFINE h == f[k]
<1>4. h \in S /\ h \in Nat /\ S \subseteq Nat /\ \A x \in S : x <= h
  BY <1>1, <1>2, <1>3
<1> HIDE DEF h
<1>5. h \in S \cup {0} /\ S \cup {0} \subseteq Int /\ \A x \in S \cup {0} : x <= h
  BY <1>4
<1>6. Max(S \cup {0}) = h
  BY <1>5, MaxIs
<1> QED  BY <1>4, <1>6 DEF max_adjusted_average_result, S

LEMMA TotalIsNat ==
  ASSUME Measured, NEW plot \in Plots
  PROVE  total_adjusted_average_result(plot) \in Nat
<1> DEFINE f == [n \in 1 .. POINTS |-> adjusted_average_result(plot, n - 1)]
<1>1. POINTS - 1 \in 0 .. POINTS - 1 /\ POINTS \in Nat
  BY Constants
<1>2. adjusted_average_result(plot, POINTS - 1) \in Nat
  BY <1>1, DurationsIs
<1>3. f \in [1 .. POINTS -> Nat]
  BY DurationsIs, Constants
<1>4. Accumulated(f) \in Nat
  <2> HIDE DEF f
  <2>1. f \in Seq(Nat) /\ Len(f) = POINTS
    BY <1>1, <1>3
  <2>2. Len(f) \in Nat /\ \A k \in 1 .. Len(f) : f[k] \in Nat
    BY <1>3, <2>1
  <2> QED  BY <2>2, SumIsNat
<1> QED  BY <1>2, <1>4 DEF total_adjusted_average_result

-----------------------------------------------------------------------------
(* The document.                                                           *)

\* The graphs that graph_out() has put out, and those that have a row.
Identified == IF out = "graphs" THEN {Graph(n) : n \in 0 .. at - 1} ELSE Graphs
Drawn == IF out = "graphs" THEN {}
         ELSE IF out = "heatmap" THEN {Graph(n) : n \in 0 .. at - 1} ELSE Graphs

(***************************************************************************)
(* The graphs that were put out have an identity for each of their plots,  *)
(* all of them below the counter and no two alike; when the graphs are     *)
(* done every plot has one.                                                *)
(***************************************************************************)
IdInv ==
  /\ at \in Nat /\ out \in {"graphs", "heatmap", "view"}
  /\ plot_id_counter \in Nat
  /\ Identified \X Shims \subseteq DOMAIN plot_id
  /\ \A p \in DOMAIN plot_id : plot_id[p] \in 0 .. plot_id_counter - 1
  /\ \A p, q \in DOMAIN plot_id : plot_id[p] = plot_id[q] => p = q

\* Each of them lists the rules of its plots in ascending order.
Ruled == \A g \in Identified : g \in DOMAIN rules /\ rules[g] \in ScalingRules(g)

Lowest(g) == Min({total_adjusted_average_result(<<g, s>>) : s \in Shims})

\* The cell of a plot with this total, in a row where the lowest is this.
CellIs(cell, plot, total, lowest) ==
  /\ plot = <<plot[1], plot[2]>> /\ plot[2] \in Shims
  /\ plot[1] = Graph(cell.row)
  /\ cell.number = <<total, lowest>>
  /\ total # 0 => cell.color = Color(total, lowest)

\* The cells of a row are those of one graph, in the colors of their ratios.
Colored ==
  /\ Drawn \X Shims \subseteq DOMAIN cells
  /\ \A p \in DOMAIN cells :
       CellIs(cells[p], p, total_adjusted_average_result(p), Lowest(p[1]))
  /\ \A p, q \in DOMAIN cells : p[1] = q[1] => cells[p].row = cells[q].row

IInv == Measured /\ IdInv /\ Ruled /\ Colored

\* The graphs up to the next one, all of them at the end.
LEMMA NextGraph ==
  ASSUME at \in Nat
  PROVE  /\ {Graph(n) : n \in 0 .. (at + 1) - 1}
              = {Graph(n) : n \in 0 .. at - 1} \cup {Graph(at)}
         /\ ~(at + 1 < GraphCount) =>
              Graphs \subseteq {Graph(n) : n \in 0 .. at - 1} \cup {Graph(at)}
<1>1. \A n : n \in 0 .. (at + 1) - 1 <=> n \in 0 .. at - 1 \/ n = at
  OBVIOUS
<1>2. ~(at + 1 < GraphCount) =>
        \A n \in 0 .. GraphCount - 1 : n \in 0 .. at - 1 \/ n = at
  BY Constants
<1> QED  BY <1>1, <1>2 DEF Graphs

\* A graph's plots get the next identities, which no plot has.
LEMMA NewIds ==
  ASSUME IdInv, graph_out
  PROVE  IdInv'
<1> DEFINE g == Graph(at)
           new == [p \in {g} \X Shims |-> NewId(p[2])]
<1>1. plot_id' = Extend(plot_id, new)
  BY DEF graph_out
<1>2. /\ DOMAIN plot_id' = DOMAIN plot_id \cup ({g} \X Shims)
      /\ \A p \in {g} \X Shims : plot_id'[p] = NewId(p[2])
      /\ \A p \in DOMAIN plot_id \ ({g} \X Shims) : plot_id'[p] = plot_id[p]
  BY <1>1 DEF Extend
<1>3. at \in Nat /\ plot_id_counter \in Nat /\ out = "graphs"
  BY DEF IdInv, graph_out
<1>4. \A s \in Shims :
        /\ NewId(s) \in plot_id_counter .. plot_id_counter + SHIMS - 1
        /\ \A t \in Shims : NewId(s) = NewId(t) => s = t
  BY <1>3, Constants DEF Shims, NewId
<1>5. plot_id_counter' = plot_id_counter + SHIMS
  BY DEF graph_out
<1>6. at' \in Nat /\ out' \in {"graphs", "heatmap", "view"}
  BY <1>3 DEF graph_out
<1>7. Identified' \subseteq Identified \cup {g}
  <2>1. CASE at + 1 < GraphCount
    <3>1. at' = at + 1 /\ out' = "graphs"
      BY <1>3, <2>1 DEF graph_out
    <3>2. \A n \in 0 .. (at + 1) - 1 : n \in 0 .. at - 1 \/ n = at
      BY <1>3
    <3>3. QED  BY <1>3, <3>1, <3>2 DEF Identified, Graph
  <2>2. CASE ~(at + 1 < GraphCount)
    <3>1. out' = "heatmap"
      BY <2>2 DEF graph_out
    <3>2. \A n \in 0 .. GraphCount - 1 : n \in 0 .. at - 1 \/ n = at
      BY <1>3, <2>2, Constants
    <3>3. Identified' = Graphs
      BY <3>1 DEF Identified, Graphs, GraphCount, Graph
    <3>4. QED  BY <1>3, <3>2, <3>3 DEF Identified, Graphs
  <2>3. QED  BY <2>1, <2>2
<1>8. (Identified \X Shims)' \subseteq DOMAIN plot_id'
  <2>1. Identified \X Shims \subseteq DOMAIN plot_id
    BY DEF IdInv
  <2>2. Shims' = Shims
    BY DEF Shims
  <2>3. QED  BY <1>2, <1>7, <2>1, <2>2
<1> HIDE DEF g, new
<1>9. ASSUME NEW p \in DOMAIN plot_id'
      PROVE  plot_id'[p] \in 0 .. plot_id_counter' - 1
  <2>1. CASE p \in {g} \X Shims
    <3>1. p[2] \in Shims /\ plot_id'[p] = NewId(p[2])
      BY <1>2, <2>1
    <3>2. QED  BY <1>3, <1>4, <1>5, <3>1, Constants
  <2>2. CASE p \notin {g} \X Shims
    <3>1. plot_id'[p] \in 0 .. plot_id_counter - 1
      BY <1>2, <1>9, <2>2 DEF IdInv
    <3>2. QED  BY <1>3, <1>5, <3>1, Constants
  <2>3. QED  BY <2>1, <2>2
<1>10. ASSUME NEW p \in {g} \X Shims, NEW q \in DOMAIN plot_id',
              plot_id'[p] = plot_id'[q]
       PROVE  p = q
  <2>1. p[2] \in Shims /\ p = <<g, p[2]>> /\ plot_id'[p] = NewId(p[2])
    BY <1>2, <1>10
  <2>2. CASE q \in {g} \X Shims
    <3>1. q[2] \in Shims /\ q = <<g, q[2]>> /\ plot_id'[q] = NewId(q[2])
      BY <1>2, <2>2
    <3>2. p[2] = q[2]
      BY <1>4, <1>10, <2>1, <3>1
    <3>3. QED  BY <2>1, <3>1, <3>2
  <2>3. CASE q \notin {g} \X Shims
    <3>1. plot_id'[q] \in 0 .. plot_id_counter - 1
      BY <1>2, <1>10, <2>3 DEF IdInv
    <3>2. QED  BY <1>3, <1>4, <1>10, <2>1, <3>1
  <2>4. QED  BY <2>2, <2>3
<1>11. ASSUME NEW p \in DOMAIN plot_id', NEW q \in DOMAIN plot_id',
              plot_id'[p] = plot_id'[q]
       PROVE  p = q
  <2>1. CASE p \in {g} \X Shims \/ q \in {g} \X Shims
    BY <1>10, <1>11, <2>1
  <2>2. CASE p \notin {g} \X Shims /\ q \notin {g} \X Shims
    BY <1>2, <1>11, <2>2 DEF IdInv
  <2>3. QED  BY <2>1, <2>2
<1>12. plot_id_counter' \in Nat
  BY <1>3, <1>5, Constants
<1>13. QED
  BY <1>6, <1>8, <1>9, <1>11, <1>12 DEF IdInv

\* The next graph's rules are sorted, and the measurements that sort them stay.
LEMMA SameRules ==
  ASSUME results' = results
  PROVE  /\ \A plot : /\ Averages(plot)' = Averages(plot)
                      /\ max_adjusted_average_result(plot)'
                           = max_adjusted_average_result(plot)
                      /\ total_adjusted_average_result(plot)'
                           = total_adjusted_average_result(plot)
         /\ \A g : ScalingRules(g)' = ScalingRules(g) /\ Lowest(g)' = Lowest(g)
BY DEF Averages, adjusted_average_result, max_adjusted_average_result,
       total_adjusted_average_result, ScalingRules, Lowest

LEMMA NewRules ==
  ASSUME IInv, graph_out
  PROVE  Ruled'
<1> DEFINE g == Graph(at)
<1>1. PICK r \in ScalingRules(g) : rules' = Extend(rules, [x \in {g} |-> r])
  BY DEF graph_out
<1>2. /\ g \in DOMAIN rules' /\ rules'[g] = r
      /\ \A x \in DOMAIN rules : x # g => x \in DOMAIN rules' /\ rules'[x] = rules[x]
  <2> DEFINE new == [x \in {g} |-> r]
  <2>1. DOMAIN new = {g} /\ new[g] = r
    OBVIOUS
  <2> HIDE DEF new
  <2>2. /\ DOMAIN rules' = DOMAIN rules \cup DOMAIN new
        /\ \A x \in DOMAIN new : rules'[x] = new[x]
        /\ \A x \in DOMAIN rules \ DOMAIN new : rules'[x] = rules[x]
    <3>1. rules' = Extend(rules, new)
      BY <1>1 DEF new
    <3> QED  BY <3>1 DEF Extend
  <2> QED  BY <2>1, <2>2
<1>3. Identified' \subseteq Identified \cup {g}
  <2>1. Identified = {Graph(n) : n \in 0 .. at - 1} /\ at \in Nat
    BY DEF IInv, IdInv, graph_out, Identified
  <2>2. CASE at + 1 < GraphCount
    <3>1. Identified' = {Graph(n) : n \in 0 .. (at + 1) - 1}
      BY <2>2 DEF graph_out, Identified
    <3> QED  BY <2>1, <3>1, NextGraph
  <2>3. CASE ~(at + 1 < GraphCount)
    <3>1. Identified' = Graphs
      BY <2>3 DEF graph_out, Identified
    <3> QED  BY <2>1, <2>3, <3>1, NextGraph
  <2> QED  BY <2>2, <2>3
<1>4. results' = results
  BY DEF graph_out
<1> HIDE DEF g
<1>5. ASSUME NEW x \in Identified'
      PROVE  x \in DOMAIN rules' /\ rules'[x] \in ScalingRules(x)
  BY <1>1, <1>2, <1>3 DEF IInv, Ruled
<1> QED  BY <1>4, <1>5, SameRules DEF Ruled

\* A step that keeps the cells.
LEMMA SameCells ==
  ASSUME IInv, results' = results, cells' = cells, Drawn' \subseteq Drawn
  PROVE  Colored'
<1>1. (Drawn \X Shims)' \subseteq DOMAIN cells'
  BY DEF IInv, Colored, Shims
<1>2. ASSUME NEW p \in DOMAIN cells'
      PROVE  CellIs(cells[p], p, total_adjusted_average_result(p), Lowest(p[1]))'
  <2>1. /\ total_adjusted_average_result(p)' = total_adjusted_average_result(p)
        /\ Lowest(p[1])' = Lowest(p[1])
    BY SameRules
  <2>2. CellIs(cells[p], p, total_adjusted_average_result(p), Lowest(p[1]))
    BY DEF IInv, Colored
  <2> QED  BY <2>1, <2>2
<1> QED  BY <1>1, <1>2 DEF IInv, Colored

LEMMA NewRow ==
  ASSUME IInv, heatmap_row_out
  PROVE  Colored'
<1> DEFINE g == Graph(at)
           total(p) == total_adjusted_average_result(p)
           totals == [s \in Shims |-> total(<<g, s>>)]
<1>1. PICK nan \in NaNColors :
        cells' = Extend(cells, [p \in {g} \X Shims |->
          [row    |-> at,
           color  |-> IF totals[p[2]] = 0
                      THEN nan ELSE Color(totals[p[2]], Min({totals[s] : s \in Shims})),
           number |-> <<totals[p[2]], Min({totals[s] : s \in Shims})>>]])
  BY DEF heatmap_row_out
<1>2. {totals[s] : s \in Shims} = {total(<<g, s>>) : s \in Shims}
  OBVIOUS
<1>3. Min({totals[s] : s \in Shims}) = Lowest(g)
  BY <1>2 DEF Lowest
<1>4. /\ DOMAIN cells' = DOMAIN cells \cup ({g} \X Shims)
      /\ \A p \in {g} \X Shims :
           /\ p[1] = g /\ p[2] \in Shims /\ p = <<p[1], p[2]>>
           /\ cells'[p].row = at
           /\ cells'[p].number = <<total(p), Lowest(g)>>
           /\ total(p) # 0 => cells'[p].color = Color(total(p), Lowest(g))
      /\ \A p \in DOMAIN cells \ ({g} \X Shims) : cells'[p] = cells[p]
  <2> DEFINE row == [p \in {g} \X Shims |->
          [row    |-> at,
           color  |-> IF totals[p[2]] = 0 THEN nan ELSE Color(totals[p[2]], Lowest(g)),
           number |-> <<totals[p[2]], Lowest(g)>>]]
  <2>1. cells' = Extend(cells, row)
    BY <1>1, <1>3
  <2>2. DOMAIN row = {g} \X Shims
    OBVIOUS
  <2>3. ASSUME NEW p \in {g} \X Shims
        PROVE  /\ p[1] = g /\ p[2] \in Shims /\ p = <<p[1], p[2]>>
               /\ row[p].row = at
               /\ row[p].number = <<total(p), Lowest(g)>>
               /\ total(p) # 0 => row[p].color = Color(total(p), Lowest(g))
    <3>1. p[1] = g /\ p[2] \in Shims /\ p = <<g, p[2]>>
      OBVIOUS
    <3> HIDE DEF total, g
    <3>2. totals[p[2]] = total(p)
      BY <3>1
    <3> HIDE DEF totals
    <3> QED  BY <3>1, <3>2
  <2> HIDE DEF row
  <2>4. /\ DOMAIN cells' = DOMAIN cells \cup DOMAIN row
        /\ \A x \in DOMAIN row : cells'[x] = row[x]
        /\ \A x \in DOMAIN cells \ DOMAIN row : cells'[x] = cells[x]
    BY <2>1 DEF Extend
  <2> QED  BY <2>2, <2>3, <2>4
<1>5. Drawn' \subseteq Drawn \cup {g}
  <2>1. Drawn = {Graph(n) : n \in 0 .. at - 1} /\ at \in Nat
    BY DEF IInv, IdInv, heatmap_row_out, Drawn
  <2>2. CASE at + 1 < GraphCount
    <3>1. Drawn' = {Graph(n) : n \in 0 .. (at + 1) - 1}
      BY <2>2 DEF heatmap_row_out, Drawn
    <3> QED  BY <2>1, <3>1, NextGraph
  <2>3. CASE ~(at + 1 < GraphCount)
    <3>1. Drawn' = Graphs
      BY <2>3 DEF heatmap_row_out, Drawn
    <3> QED  BY <2>1, <2>3, <3>1, NextGraph
  <2> QED  BY <2>2, <2>3
<1>6. results' = results
  BY DEF heatmap_row_out
<1>7. Graph(at) = g
  OBVIOUS
<1> HIDE DEF g, totals, total
<1>8. ASSUME NEW p \in DOMAIN cells'
      PROVE  CellIs(cells'[p], p, total(p), Lowest(p[1]))
  <2>1. CASE p \in {g} \X Shims
    BY <1>4, <1>7, <2>1 DEF CellIs
  <2>2. CASE p \notin {g} \X Shims
    <3>1. p \in DOMAIN cells /\ cells'[p] = cells[p]
      BY <1>4, <2>2
    <3> QED  BY <3>1 DEF IInv, Colored, total
  <2> QED  BY <2>1, <2>2
<1>9. ASSUME NEW p \in DOMAIN cells', NEW q \in DOMAIN cells', p[1] = q[1]
      PROVE  cells'[p].row = cells'[q].row
  <2>1. p \in {g} \X Shims <=> p[1] = g
    BY <1>4, <1>8 DEF CellIs
  <2>2. q \in {g} \X Shims <=> q[1] = g
    BY <1>4, <1>8 DEF CellIs
  <2>3. CASE p[1] = g
    BY <1>4, <1>9, <2>1, <2>2, <2>3
  <2>4. CASE p[1] # g
    <3>1. p \in DOMAIN cells /\ q \in DOMAIN cells /\ cells'[p] = cells[p] /\ cells'[q] = cells[q]
      BY <1>4, <1>9, <2>1, <2>2, <2>4
    <3> QED  BY <1>9, <3>1 DEF IInv, Colored
  <2> QED  BY <2>3, <2>4
<1>10. (Drawn \X Shims)' \subseteq DOMAIN cells'
  <2>1. Drawn' \X Shims \subseteq (Drawn \X Shims) \cup ({g} \X Shims)
    BY <1>5
  <2>2. Drawn \X Shims \subseteq DOMAIN cells
    BY DEF IInv, Colored
  <2> QED  BY <1>4, <2>1, <2>2 DEF Shims
<1>11. ASSUME NEW p \in DOMAIN cells'
       PROVE  CellIs(cells[p], p, total_adjusted_average_result(p), Lowest(p[1]))'
  <2>1. /\ total_adjusted_average_result(p)' = total(p)
        /\ Lowest(p[1])' = Lowest(p[1])
    BY <1>6, SameRules DEF total
  <2> QED  BY <1>8, <2>1
<1> QED  BY <1>9, <1>10, <1>11 DEF Colored

-----------------------------------------------------------------------------
(* The invariant.                                                          *)

LEMMA InitInv == Init => IInv
<1> SUFFICES ASSUME Init PROVE IInv
  OBVIOUS
<1>1. Measured
  BY DEF Init, Measured
<1>2. IdInv
  BY DEF Init, IdInv, Identified
<1>3. Ruled
  BY DEF Init, Ruled, Identified
<1>4. DOMAIN cells = {} /\ Drawn = {}
  BY DEF Init, Drawn
<1>5. Colored
  BY <1>4 DEF Colored
<1> QED  BY <1>1, <1>2, <1>3, <1>5 DEF IInv

LEMMA NextInv ==
  ASSUME IInv, [Next]_vars
  PROVE  IInv'
<1>1. results' = results /\ Measured' /\ IdInv
  <2>1. results' = results
    BY DEF Next, graph_out, heatmap_row_out, Toggle, vars
  <2>2. Plots' = Plots
    BY DEF Plots, Graphs, Graph, GraphCount, Shims
  <2> QED  BY <2>1, <2>2 DEF IInv, Measured
<1>2. CASE graph_out
  <2>1. IdInv' /\ Ruled'
    BY <1>1, <1>2, NewIds, NewRules
  <2>2. Drawn' \subseteq Drawn /\ cells' = cells
    <3>1. /\ cells' = cells
          /\ out' = "graphs" \/ (out' = "heatmap" /\ at' = 0)
      BY <1>2 DEF graph_out
    <3>2. Drawn' = {}
      BY <3>1 DEF Drawn
    <3> QED  BY <3>1, <3>2
  <2> QED  BY <1>1, <2>1, <2>2, SameCells DEF IInv
<1>3. CASE heatmap_row_out
  <2>1. /\ at' \in Nat /\ out' \in {"heatmap", "view"} /\ out = "heatmap"
        /\ UNCHANGED <<plot_id, plot_id_counter, rules>>
    BY <1>1, <1>3 DEF heatmap_row_out, IdInv
  <2>2. Identified' = Identified
    BY <2>1 DEF Identified, Graphs, Graph, GraphCount
  <2>3. IdInv'
    BY <1>1, <2>1, <2>2 DEF IdInv, Shims
  <2>4. Ruled'
    BY <1>1, <2>1, <2>2, SameRules DEF IInv, Ruled
  <2> QED  BY <1>1, <1>3, <2>3, <2>4, NewRow DEF IInv
<1>4. CASE UNCHANGED <<out, at, plot_id, plot_id_counter, rules, cells>>
  <2>1. Identified' = Identified /\ Drawn' = Drawn
    BY <1>4 DEF Identified, Drawn, Graphs, Graph, GraphCount
  <2>2. IdInv'
    BY <1>1, <1>4, <2>1 DEF IdInv, Shims
  <2>3. Ruled'
    BY <1>1, <1>4, <2>1, SameRules DEF IInv, Ruled
  <2>4. Colored'
    BY <1>1, <1>4, <2>1, SameCells
  <2> QED  BY <1>1, <2>2, <2>3, <2>4 DEF IInv
<1> QED  BY <1>2, <1>3, <1>4 DEF Next, Toggle, vars

\* Whatever was measured, the graphs that are out have an identity for each plot
\* and their rules in ascending order, and the rows of the heatmap show the totals.
THEOREM Invariance == Spec => []IInv
<1> QED  BY InitInv, NextInv, PTL DEF Spec

-----------------------------------------------------------------------------
(* What follows from it.                                                   *)

\* Trimming DISCARDED_RUNS_COUNT / 2 measurements at either end keeps an average
\* within the range of the runs that went right, whichever and however many up to
\* that number went wrong.
THEOREM OutliersAreDiscarded == Spec => []OutliersDiscarded
<1>1. ASSUME IInv PROVE OutliersDiscarded
  <2> SUFFICES ASSUME NEW plot \in Plots, NEW p \in 0 .. POINTS - 1,
                      NEW wrong \in kSubset(Trim, 1 .. RUN_COUNT)
               PROVE  LET others == {results[plot][p][r] : r \in (1 .. RUN_COUNT) \ wrong}
                          kept == RUN_COUNT - DISCARDED_RUNS_COUNT
                      IN  adjusted_average_result(plot, p) \in
                            kept * Min(others) .. kept * Max(others)
    BY DEF OutliersDiscarded
  <2>1. wrong \in SUBSET Runs /\ Cardinality(wrong) = Trim
    BY DEF kSubset, Runs
  <2>2. results[plot][p] \in [Runs -> Nat]
    BY <1>1, DurationsIs DEF IInv
  <2> QED  BY <2>1, <2>2, OutliersIs DEF adjusted_average_result, Runs
<1> QED  BY <1>1, Invariance, PTL

\* The order of neighbors makes an order of all.
LEMMA Ascends ==
  ASSUME NEW n \in Nat, NEW f, \A s \in 1 .. n : f[s] \in Nat,
         \A s \in 1 .. n - 1 : f[s] <= f[s + 1],
         NEW a \in 1 .. n, NEW b \in 1 .. n, a <= b
  PROVE  f[a] <= f[b]
<1> DEFINE Good == {m \in Nat : a + m <= n => f[a] <= f[a + m]}
<1>1. 0 \in Good
  OBVIOUS
<1>2. ASSUME NEW m \in Nat, m \in Good
      PROVE  m + 1 \in Good
  <2> SUFFICES ASSUME a + (m + 1) <= n
               PROVE  f[a] <= f[a + (m + 1)]
    OBVIOUS
  <2>1. f[a] <= f[a + m]
    BY <1>2
  <2>2. a + m \in 1 .. n - 1 /\ (a + m) + 1 = a + (m + 1) /\ a + (m + 1) \in 1 .. n
    OBVIOUS
  <2>3. f[a + m] <= f[(a + m) + 1]
    BY <2>2
  <2> QED  BY <2>1, <2>2, <2>3
<1>3. b - a \in Good
  <2> HIDE DEF Good
  <2>1. Nat \subseteq Good
    BY <1>1, <1>2, NatSetInduction
  <2> QED  BY <2>1
<1> QED  BY <1>3

\* The rules of a graph list each of its plots.
LEMMA RulesListAll ==
  ASSUME NEW g, NEW r \in ScalingRules(g), NEW p \in {g} \X Shims
  PROVE  \E s \in Shims : r[s] = p
<1> DEFINE T == {g} \X Shims
           h == [s \in Shims |-> <<g, s>>]
<1>1. IsFiniteSet(Shims)
  BY Constants, FS_Interval DEF Shims
<1>2. h \in Bijection(Shims, T)
  <2>1. h \in [Shims -> T]
    OBVIOUS
  <2>2. \A s, u \in Shims : h[s] = h[u] => s = u
    OBVIOUS
  <2>3. \A q \in T : \E s \in Shims : h[s] = q
    OBVIOUS
  <2> HIDE DEF h, T
  <2> QED  BY <2>1, <2>2, <2>3 DEF Bijection, Injection, IsInjective, Surjection
<1>3. IsFiniteSet(T) /\ Cardinality(T) = Cardinality(Shims)
  BY <1>1, <1>2, FS_Bijection DEF ExistsBijection
<1>4. r \in Injection(Shims, T)
  BY DEF ScalingRules, IsInjective, Injection
<1>5. r \in Surjection(Shims, T)
  BY <1>3, <1>4, FS_Injection
<1> QED  BY <1>5 DEF Surjection

\* The rules of a graph in ascending order, of which the last one that matches
\* is the one of the highest visible line, whichever boxes are checked.
THEOREM Fits == Spec => []VisiblePlotsFit
<1>1. ASSUME IInv PROVE VisiblePlotsFit
  <2> DEFINE highest(p) == max_adjusted_average_result(p)
             Visible(g) == checked \cap ({g} \X Shims)
  <2> SUFFICES ASSUME out = "view", NEW g \in Graphs, Visible(g) # {}
               PROVE  highest(AppliedRule(g)) = Max(UNION {Averages(p) : p \in Visible(g)})
    BY DEF VisiblePlotsFit
  <2> DEFINE r == rules[g]
             S == {s \in Shims : r[s] \in checked}
             m == Max(S)
             U == UNION {Averages(p) : p \in Visible(g)}
  <2>1. r \in ScalingRules(g)
    BY <1>1 DEF IInv, Ruled, Identified
  <2>2. AppliedRule(g) = r[m]
    BY DEF AppliedRule
  <2>3. Measured
    BY <1>1 DEF IInv
  <2> HIDE DEF r
  <2>4. /\ \A s \in Shims : r[s] \in {g} \X Shims
        /\ \A s \in 1 .. SHIMS - 1 : highest(r[s]) <= highest(r[s + 1])
    BY <2>1 DEF ScalingRules
  <2>5. \A p \in {g} \X Shims : p \in Plots
    BY DEF Plots
  <2>6. \A p \in {g} \X Shims : highest(p) \in Nat
    BY <2>3, <2>5, HighestIs
  <2>7. S # {}
    <3>1. PICK p \in {g} \X Shims : p \in checked
      OBVIOUS
    <3> QED  BY <2>1, <3>1, RulesListAll
  <2>8. m \in S /\ \A s \in S : s <= m
    <3> DEFINE f == [s \in 1 .. SHIMS |-> IF s \in S THEN s ELSE 0]
    <3>1. \A s \in 1 .. SHIMS : f[s] \in Nat
      OBVIOUS
    <3>2. PICK k \in 1 .. SHIMS : \A z \in 1 .. SHIMS : f[z] <= f[k]
      <4> HIDE DEF f
      <4> QED  BY <3>1, Constants, Greatest
    <3>20. f[k] = IF k \in S THEN k ELSE 0
      OBVIOUS
    <3>3. S \subseteq 1 .. SHIMS
      BY DEF Shims
    <3> HIDE DEF S
    <3>4. \A s \in S : f[s] = s
      BY <3>3
    <3>5. k \in S
      <4>1. PICK s \in S : TRUE
        BY <2>7
      <4>2. s \in Nat /\ f[s] = s /\ s > 0 /\ f[s] <= f[k]
        BY <3>2, <3>3, <3>4, <4>1
      <4> HIDE DEF f
      <4> QED  BY <3>20, <4>2
    <3>6. \A s \in S : s <= k
      BY <3>2, <3>3, <3>4, <3>5
    <3>7. S \subseteq Int
      BY <3>3
    <3> HIDE DEF f
    <3>8. Max(S) = k
      BY <3>5, <3>6, <3>7, MaxIs
    <3> QED  BY <3>5, <3>6, <3>8
  <2> HIDE DEF m
  <2>9. \A s \in S : highest(r[s]) <= highest(r[m])
    <3> DEFINE f == [s \in 1 .. SHIMS |-> highest(r[s])]
    <3>1. /\ \A s \in 1 .. SHIMS : f[s] \in Nat
          /\ \A s \in 1 .. SHIMS - 1 : f[s] <= f[s + 1]
      <4> HIDE DEF highest
      <4> QED  BY <2>4, <2>6, Constants DEF Shims
    <3>2. S \subseteq 1 .. SHIMS /\ SHIMS \in Nat
      BY Constants DEF Shims
    <3>3. \A s \in S : f[s] = highest(r[s])
      <4> HIDE DEF highest, S
      <4> QED  BY <3>2
    <3> HIDE DEF f, highest, S
    <3>4. \A s \in S : f[s] <= f[m]
      BY <2>8, <3>1, <3>2, Ascends
    <3> QED  BY <2>8, <3>3, <3>4
  <2>10. r[m] \in Visible(g)
    BY <2>4, <2>8
  <2>11. \A p \in Visible(g) : p \in Plots /\ \E s \in S : r[s] = p
    <3>1. \A p \in Visible(g) : \E s \in Shims : r[s] = p
      BY <2>1, RulesListAll
    <3> QED  BY <2>5, <3>1
  <2> DEFINE x == highest(r[m])
  <2>12. x \in U
    <3>1. r[m] \in Plots
      BY <2>10, <2>11
    <3>2. highest(r[m]) \in Averages(r[m])
      BY <2>3, <3>1, HighestIs
    <3> QED  BY <2>10, <3>2
  <2>13. ASSUME NEW y \in U
         PROVE  y \in Int /\ y <= x
    <3>1. PICK p \in Visible(g) : y \in Averages(p)
      OBVIOUS
    <3>2. PICK s \in S : r[s] = p
      BY <2>11
    <3>3. y \in Nat /\ y <= highest(p) /\ highest(p) \in Nat
      <4>1. p \in Plots
        BY <2>11
      <4> QED  BY <2>3, <2>6, <3>1, <4>1, HighestIs
    <3>4. highest(p) <= x /\ x \in Nat
      BY <2>6, <2>9, <2>10, <3>2
    <3> HIDE DEF x, highest
    <3> QED  BY <3>3, <3>4
  <2> HIDE DEF x, U
  <2>14. Max(U) = x
    BY <2>12, <2>13, MaxIs
  <2> QED  BY <2>2, <2>14 DEF x, U
<1> QED  BY <1>1, Invariance, PTL

\* The greater ratio has the darker color, although it is cut off and rounded.
LEMMA ColorIs ==
  ASSUME NEW t \in Nat, NEW l \in Nat, l > 0, l <= t
  PROVE  LET x == ((t - l) * 255) \div (9 * l)
         IN  /\ x \in Nat /\ Color(t, l) = (IF x <= 255 THEN x ELSE 255)
             /\ x * (9 * l) <= (t - l) * 255
             /\ (t - l) * 255 < (x + 1) * (9 * l)
<1> DEFINE a == (t - l) * 255
           b == 9 * l
           x == a \div b
<1>1. a \in Nat /\ b \in Nat \ {0}
  OBVIOUS
<1>2. Color(t, l) = Min({x, 255})
  BY DEF Color
<1> HIDE DEF a, b
<1>3. x \in Nat /\ x * b <= a /\ a < (x + 1) * b
  BY <1>1
<1> HIDE DEF x
<1>4. Min({x, 255}) = IF x <= 255 THEN x ELSE 255
  <2>1. {x, 255} \in SUBSET Nat /\ {x, 255} # {}
    BY <1>3
  <2>2. Min({x, 255}) \in {x, 255} /\ Min({x, 255}) <= x /\ Min({x, 255}) <= 255
    BY <2>1, MinIs
  <2> QED  BY <1>3, <2>2
<1> QED  BY <1>2, <1>3, <1>4 DEF a, b, x

LEMMA DarkerIs ==
  ASSUME NEW t \in Nat, NEW l \in Nat, l > 0, l <= t,
         NEW u \in Nat, NEW k \in Nat, k > 0, k <= u, t * k <= u * l
  PROVE  Color(t, l) <= Color(u, k)
<1> DEFINE x == ((t - l) * 255) \div (9 * l)
           y == ((u - k) * 255) \div (9 * k)
           a == t - l
           c == u - k
<1>1. /\ x \in Nat /\ Color(t, l) = (IF x <= 255 THEN x ELSE 255)
      /\ x * (9 * l) <= a * 255
  BY ColorIs, ZenonT(30)
<1>2. /\ y \in Nat /\ Color(u, k) = (IF y <= 255 THEN y ELSE 255)
      /\ c * 255 < (y + 1) * (9 * k)
  BY ColorIs, ZenonT(30)
<1>3. a \in Nat /\ c \in Nat
  OBVIOUS
<1>4. a * k <= c * l
  <2>1. a * k = t * k - l * k /\ c * l = u * l - k * l /\ l * k = k * l
    OBVIOUS
  <2>2. t * k \in Nat /\ u * l \in Nat /\ k * l \in Nat
    OBVIOUS
  <2> QED  BY <2>1, <2>2
<1> HIDE DEF x, y, a, c
<1>5. x <= y
  <2> SUFFICES ASSUME y + 1 <= x
               PROVE  FALSE
    BY <1>1, <1>2
  \* Both sides times l and k.
  <2> DEFINE n == 9 * (l * k)
  <2>1. (y + 1) * n <= x * n /\ n \in Nat
    <3>1. n \in Nat
      OBVIOUS
    <3> HIDE DEF n
    <3>2. \E d \in Nat : x = (y + 1) + d
      <4>1. x - (y + 1) \in Nat /\ x = (y + 1) + (x - (y + 1))
        BY <1>1, <1>2
      <4> QED  BY <4>1
    <3>3. PICK d \in Nat : x = (y + 1) + d
      BY <3>2
    <3>4. ((y + 1) + d) * n = (y + 1) * n + d * n /\ d * n \in Nat /\ (y + 1) * n \in Nat
      BY <1>2, <3>1
    <3> QED  BY <3>1, <3>3, <3>4
  <2>2. x * n <= (a * 255) * k
    <3>1. x * n = (x * (9 * l)) * k
      BY <1>1
    <3> DEFINE p == x * (9 * l)
               q == a * 255
    <3>2. p \in Nat /\ q \in Nat /\ p <= q
      BY <1>1, <1>3
    <3> HIDE DEF p, q
    <3>3. p * k <= q * k
      BY <3>2
    <3> QED  BY <3>1, <3>3 DEF p, q
  <2>3. (c * 255) * l < (y + 1) * n
    <3>1. (y + 1) * n = ((y + 1) * (9 * k)) * l
      BY <1>2
    <3> DEFINE p == c * 255
               q == (y + 1) * (9 * k)
    <3>2. p \in Nat /\ q \in Nat /\ p < q
      BY <1>2, <1>3
    <3> HIDE DEF p, q
    <3>3. p * l < q * l
      BY <3>2
    <3> QED  BY <3>1, <3>3 DEF p, q
  <2>4. (a * 255) * k <= (c * 255) * l
    <3>1. (a * 255) * k = 255 * (a * k) /\ (c * 255) * l = 255 * (c * l)
      BY <1>3
    <3>2. a * k \in Nat /\ c * l \in Nat
      BY <1>3
    <3> QED  BY <1>4, <3>1, <3>2
  <2> DEFINE A == (y + 1) * n
             B == x * n
             C == (a * 255) * k
             D == (c * 255) * l
  <2>5. A \in Int /\ B \in Int /\ C \in Int /\ D \in Int
    BY <1>1, <1>2, <1>3, <2>1
  <2>6. A <= B /\ B <= C /\ C <= D /\ D < A
    BY <2>1, <2>2, <2>3, <2>4
  <2> HIDE DEF A, B, C, D
  <2> QED  BY <2>5, <2>6
<1> QED  BY <1>1, <1>2, <1>5

LEMMA LightestIs ==
  ASSUME NEW l \in Nat, l > 0
  PROVE  Color(l, l) = 0
<1> DEFINE x == ((l - l) * 255) \div (9 * l)
<1>0. l <= l
  OBVIOUS
<1>1. x \in Nat /\ Color(l, l) = (IF x <= 255 THEN x ELSE 255) /\ x * (9 * l) <= (l - l) * 255
  BY <1>0, ColorIs
<1>2. (l - l) * 255 = 0
  OBVIOUS
<1> HIDE DEF x
<1>3. x = 0
  <2>1. x * (9 * l) <= 0
    BY <1>1, <1>2
  <2>2. CASE x >= 1
    <3>1. x = 1 + (x - 1) /\ x - 1 \in Nat
      BY <1>1, <2>2
    <3> DEFINE d == x - 1
    <3>2. d \in Nat /\ x = 1 + d
      BY <3>1
    <3> HIDE DEF d
    <3>3. (1 + d) * (9 * l) = 9 * l + d * (9 * l) /\ d * (9 * l) \in Nat
      BY <3>2
    <3> QED  BY <2>1, <3>2, <3>3
  <2> QED  BY <1>1, <2>2
<1> QED  BY <1>1, <1>3

\* Every row of the heatmap is that of one graph; in it the fastest shim has the
\* first color, and of any two cells the one with the smaller ratio is not darker.
THEOREM Ranks == Spec => []HeatmapRanks
<1>1. ASSUME IInv PROVE HeatmapRanks
  <2> SUFFICES ASSUME out = "view", NEW p \in Plots, NEW q \in Plots
               PROVE  /\ cells[p].row = cells[q].row <=> p[1] = q[1]
                      /\ cells[p].number[2] > 0 /\ cells[q].number[2] > 0 =>
                           /\ cells[p].number[1] = cells[p].number[2] => cells[p].color = 0
                           /\ cells[p].number[1] * cells[q].number[2]
                                <= cells[q].number[1] * cells[p].number[2]
                              => cells[p].color <= cells[q].color
    BY DEF HeatmapRanks
  <2> DEFINE total(x) == total_adjusted_average_result(x)
  <2>1. ASSUME NEW x \in Plots
        PROVE  /\ x \in DOMAIN cells /\ x[1] = Graph(cells[x].row)
               /\ cells[x].number = <<total(x), Lowest(x[1])>>
               /\ total(x) # 0 => cells[x].color = Color(total(x), Lowest(x[1]))
               /\ total(x) \in Nat /\ Lowest(x[1]) \in Nat /\ Lowest(x[1]) <= total(x)
    <3>1. x \in DOMAIN cells
      BY <1>1 DEF IInv, Colored, Drawn, Plots
    <3>2. CellIs(cells[x], x, total(x), Lowest(x[1]))
      BY <1>1, <3>1 DEF IInv, Colored
    <3>3. total(x) \in Nat
      BY <1>1, TotalIsNat DEF IInv
    <3> DEFINE T == {total(<<x[1], s>>) : s \in Shims}
    <3>4. Lowest(x[1]) = Min(T)
      BY DEF Lowest
    <3>5. \A s \in Shims : <<x[1], s>> \in Plots
      BY DEF Plots
    <3>6. T \in SUBSET Nat
      BY <1>1, <3>5, TotalIsNat DEF IInv
    <3>7. x[2] \in Shims /\ x = <<x[1], x[2]>>
      BY DEF Plots
    <3>8. total(x) \in T
      <4> HIDE DEF total
      <4> QED  BY <3>7
    <3> HIDE DEF T, total
    <3>9. Lowest(x[1]) \in Nat /\ Lowest(x[1]) <= total(x)
      <4>1. Min(T) \in T /\ \A y \in T : Min(T) <= y
        <5>1. T # {}
          BY <3>8
        <5> QED  BY <3>6, <5>1, MinIs
      <4> QED  BY <3>4, <3>6, <3>8, <4>1
    <3> QED  BY <3>1, <3>2, <3>3, <3>9 DEF CellIs
  <2> HIDE DEF total
  <2>2. cells[p].row = cells[q].row <=> p[1] = q[1]
    BY <1>1, <2>1 DEF IInv, Colored
  <2> DEFINE t == total(p)
             l == Lowest(p[1])
             u == total(q)
             k == Lowest(q[1])
  <2>3. /\ cells[p].number[1] = t /\ cells[p].number[2] = l
        /\ cells[q].number[1] = u /\ cells[q].number[2] = k
        /\ t \in Nat /\ l \in Nat /\ l <= t /\ u \in Nat /\ k \in Nat /\ k <= u
        /\ t # 0 => cells[p].color = Color(t, l)
        /\ u # 0 => cells[q].color = Color(u, k)
    BY <2>1
  <2> HIDE DEF t, l, u, k
  <2>4. ASSUME l > 0, k > 0
        PROVE  /\ t = l => cells[p].color = 0
               /\ t * k <= u * l => cells[p].color <= cells[q].color
    <3>1. cells[p].color = Color(t, l) /\ cells[q].color = Color(u, k)
      BY <2>3, <2>4
    <3>2. t = l => Color(t, l) = 0
      BY <2>3, <2>4, LightestIs
    <3>3. t * k <= u * l => Color(t, l) <= Color(u, k)
      BY <2>3, <2>4, DarkerIs
    <3> QED  BY <3>1, <3>2, <3>3
  <2> QED  BY <2>2, <2>3, <2>4
<1> QED  BY <1>1, Invariance, PTL

\* A checkbox hides and shows the line of its own shim in its own graph and no
\* other: no two plots of the document share an identity.
THEOREM OwnLine == Spec => TogglesOnePlot
<1> DEFINE Own == \A plot \in Plots : Toggle(plot) =>
                    \A p \in Plots \ {plot} : p \in checked' <=> p \in checked
<1>1. ASSUME IInv PROVE Own
  <2>1. SUFFICES ASSUME NEW plot \in Plots, Toggle(plot),
                        NEW p \in Plots \ {plot}
                 PROVE  p \in checked' <=> p \in checked
    OBVIOUS
  <2>2. out = "view" /\ Plots \subseteq DOMAIN plot_id
    BY <1>1, <2>1 DEF Toggle, IInv, IdInv, Identified, Plots
  <2>3. plot_id[p] # plot_id[plot]
    BY <1>1, <2>1, <2>2 DEF IInv, IdInv
  <2>4. QED  BY <2>1, <2>3 DEF Toggle
<1>2. IInv /\ [Next]_vars => [Own]_vars
  BY <1>1
<1>3. QED  BY Invariance, <1>2, PTL DEF Spec, TogglesOnePlot
=============================================================================
