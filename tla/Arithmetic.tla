------------------------------ MODULE Arithmetic ------------------------------
(***************************************************************************)
(* Facts about division, remainder and multiplication that the SMT solver  *)
(* does not find by itself, for the modules that prove something about     *)
(* wrapping counters and flattened indices; induction over the natural     *)
(* numbers, for a set instead of a predicate; and that triangular probing  *)
(* in a table whose size is a power of two looks at every place once       *)
(* before it is back where it started.                                     *)
(***************************************************************************)
EXTENDS Probing, FiniteSetTheorems, TLAPS

\* Division with remainder.
LEMMA DivMod ==
  ASSUME NEW a \in Nat, NEW n \in Nat \ {0}
  PROVE  /\ a \div n \in Nat
         /\ a % n \in 0 .. n - 1
         /\ a = n * (a \div n) + (a % n)
  BY SMT

LEMMA ModSmall ==
  ASSUME NEW a \in Nat, NEW n \in Nat, a < n
  PROVE  a % n = a
  BY SMT

\* A number fits its own interval of a division.
LEMMA DivBounds ==
  ASSUME NEW a \in Nat, NEW b \in Nat, NEW n \in Nat \ {0}, n <= a, a <= b
  PROVE  1 <= a \div n /\ a \div n <= b \div n
  BY SMT

\* The address of column p of row r in a flat array with P columns.
LEMMA FlatIndex ==
  ASSUME NEW R \in Nat, NEW P \in Nat,
         NEW r \in 0 .. R - 1, NEW p \in 0 .. P - 1
  PROVE  r * P + p \in 0 .. R * P - 1
  BY SMT

\* A larger factor gives a product larger by the other factor at least.
LEMMA MultStep ==
  ASSUME NEW p \in Nat, NEW q \in Nat, NEW n \in Nat, p < q
  PROVE  n * q >= n * p + n
<1>1. PICK d \in Nat : q = p + 1 + d
  <2>1. q - p - 1 \in Nat /\ q = p + 1 + (q - p - 1)
    OBVIOUS
  <2>2. QED  BY <2>1
<1>2. n * q = n * p + n + n * d
  BY <1>1, SMT
<1>3. n * d \in Nat /\ n * p \in Nat /\ n * q \in Nat
  BY SMT
<1>4. QED  BY <1>2, <1>3

\* ... and every address is that of a row and a column.
LEMMA FlatSplit ==
  ASSUME NEW R \in Nat, NEW P \in Nat \ {0}, NEW a \in 0 .. R * P - 1
  PROVE  \E r \in 0 .. R - 1, p \in 0 .. P - 1 : a = r * P + p
<1>1. PICK r \in Nat, p \in 0 .. P - 1 : a = P * r + p
  <2>1. a \in Nat
    BY SMT
  <2>2. QED  BY <2>1, DivMod
<1>2. ~(R <= r)
  <2>1. SUFFICES ASSUME R <= r PROVE FALSE
    OBVIOUS
  <2>2. P * R \in Nat /\ P * r \in Nat /\ P * R <= P * r
    <3>1. CASE R = r
      BY <3>1, SMT
    <3>2. CASE R < r
      <4>1. P * r >= P * R + P
        BY <3>2, MultStep
      <4>2. P * R \in Nat /\ P * r \in Nat
        BY SMT
      <4>3. QED  BY <4>1, <4>2
    <3>3. QED  BY <2>1, <3>1, <3>2
  <2>3. R * P = P * R
    BY SMT
  <2>4. QED  BY <1>1, <2>2, <2>3
<1>3. r \in 0 .. R - 1 /\ a = r * P + p
  BY <1>1, <1>2, SMT
<1>4. QED  BY <1>3

\* Quotient and remainder are unique.
LEMMA DivModUnique ==
  ASSUME NEW n \in Nat, NEW p \in Nat, NEW q \in Nat,
         NEW r \in 0 .. n - 1, NEW s \in 0 .. n - 1,
         n * p + r = n * q + s
  PROVE  p = q /\ r = s
<1>1. n * p \in Nat /\ n * q \in Nat
  BY SMT
<1>2. ~(p < q)
  BY <1>1, MultStep
<1>3. ~(q < p)
  BY <1>1, MultStep
<1>4. p = q
  BY <1>2, <1>3
<1>5. QED  BY <1>1, <1>4

\* The remainder of a counter that is stepped.
LEMMA ModStep ==
  ASSUME NEW a \in Nat, NEW n \in Nat \ {0}
  PROVE  (a + 1) % n = IF (a % n) + 1 = n THEN 0 ELSE (a % n) + 1
<1> DEFINE q == a \div n
           r == a % n
           p == (a + 1) \div n
           s == (a + 1) % n
<1>1. q \in Nat /\ r \in 0 .. n - 1 /\ a = n * q + r
  BY DivMod
<1>2. p \in Nat /\ s \in 0 .. n - 1 /\ a + 1 = n * p + s
  <2>1. a + 1 \in Nat
    OBVIOUS
  <2>2. QED  BY <2>1, DivMod, Zenon
<1> HIDE DEF q, r, p, s
<1>3. n * q \in Nat /\ n * p \in Nat
  BY <1>1, <1>2, SMT
<1>4. CASE r + 1 = n
  <2>1. n * (q + 1) = n * q + n
    BY <1>1, SMT
  <2>2. n * p + s = n * (q + 1) + 0
    BY <1>1, <1>2, <1>3, <1>4, <2>1
  <2>3. s = 0
    BY <1>1, <1>2, <2>2, DivModUnique
  <2>4. QED  BY <1>4, <2>3 DEF r, s
<1>5. CASE r + 1 # n
  <2>1. n * p + s = n * q + (r + 1)
    BY <1>1, <1>2, <1>3
  <2>2. s = r + 1
    BY <1>1, <1>2, <1>5, <2>1, DivModUnique
  <2>3. QED  BY <1>5, <2>2 DEF r, s
<1>6. QED  BY <1>4, <1>5

\* Less than n consecutive numbers have different remainders.
LEMMA ModDistinct ==
  ASSUME NEW b \in Nat, NEW m \in Nat, NEW k \in Nat, NEW n \in Nat \ {0},
         m < k, k - m < n
  PROVE  (b + m) % n # (b + k) % n
<1> DEFINE q == (b + m) \div n
           r == (b + m) % n
           p == (b + k) \div n
           s == (b + k) % n
<1>1. b + m \in Nat /\ b + k \in Nat
  OBVIOUS
<1>2. q \in Nat /\ r \in 0 .. n - 1 /\ b + m = n * q + r
  BY <1>1, DivMod, Zenon
<1>3. p \in Nat /\ s \in 0 .. n - 1 /\ b + k = n * p + s
  BY <1>1, DivMod, Zenon
<1> HIDE DEF q, r, p, s
<1>4. SUFFICES ASSUME r = s PROVE FALSE
  BY DEF r, s
<1>5. n * q \in Nat /\ n * p \in Nat
  BY <1>2, <1>3, SMT
<1>6. n * p - n * q = k - m
  BY <1>2, <1>3, <1>4, <1>5
<1>7. ~(p < q)
  BY <1>2, <1>3, <1>5, <1>6, MultStep
<1>8. ~(q < p)
  BY <1>2, <1>3, <1>5, <1>6, MultStep
<1>9. p = q
  BY <1>2, <1>3, <1>7, <1>8
<1>10. QED  BY <1>5, <1>6, <1>9

\* A remainder modulo twice a number has the remainder modulo that number.
LEMMA ModTwice ==
  ASSUME NEW h \in Nat, NEW n \in Nat \ {0}
  PROVE  (h % (2 * n)) % n = h % n
<1>1. PICK p \in Nat, r \in Nat : r = h % (2 * n) /\ h = (2 * n) * p + r
  <2>1. ASSUME NEW m \in Nat \ {0}
        PROVE  \E p \in Nat, r \in Nat : r = h % m /\ h = m * p + r
    <3>1. h \div m \in Nat /\ h % m \in 0 .. m - 1 /\ h = m * (h \div m) + (h % m)
      BY DivMod
    <3>2. h % m \in Nat
      BY <3>1
    <3> QED  BY <3>1, <3>2
  <2>2. 2 * n \in Nat \ {0}
    OBVIOUS
  <2> QED  BY <2>1, <2>2
<1>2. PICK q \in Nat, s \in 0 .. n - 1 : s = h % n /\ h = n * q + s
  BY DivMod
<1>3. PICK d \in Nat, e \in 0 .. n - 1 : e = r % n /\ r = n * d + e
  BY DivMod
<1>4. n * (2 * p + d) = (2 * n) * p + n * d
  OBVIOUS
<1>5. (2 * n) * p \in Nat /\ n * d \in Nat
  OBVIOUS
<1>6. n * (2 * p + d) + e = n * q + s
  <2>1. \A x, y \in Nat : (x + y) + e = x + (y + e)
    OBVIOUS
  <2>2. ((2 * n) * p + n * d) + e = (2 * n) * p + (n * d + e)
    BY <1>5, <2>1
  <2>3. (2 * n) * p + (n * d + e) = h
    BY <1>1, <1>3
  <2> QED  BY <1>2, <1>4, <2>2, <2>3
<1>7. e = s
  BY <1>6, DivModUnique
<1> QED  BY <1>1, <1>2, <1>3, <1>7
-----------------------------------------------------------------------------
\* A set that holds 0 and with each number the next one holds them all: the
\* inclusion of finite sets is well-founded.
LEMMA NatSetInduction ==
  ASSUME NEW S, 0 \in S, \A n \in Nat : n \in S => n + 1 \in S
  PROVE  Nat \subseteq S
<1> SUFFICES ASSUME NEW m \in Nat, m \notin S
             PROVE  FALSE
  OBVIOUS
<1> DEFINE Missing == {0 .. n : n \in Nat \ S}
<1>1. Missing \subseteq FiniteSubsetsOf(Nat)
  <2> SUFFICES ASSUME NEW n \in Nat
               PROVE  0 .. n \in FiniteSubsetsOf(Nat)
    OBVIOUS
  <2>1. IsFiniteSet(0 .. n)
    BY FS_Interval
  <2> QED  BY <2>1 DEF FiniteSubsetsOf
<1>2. IsWellFoundedOn(StrictSubsetOrdering(Nat), FiniteSubsetsOf(Nat))
  BY FS_StrictSubsetOrderingWellFounded
<1>3. Missing # {}
  OBVIOUS
<1>4. \E X \in Missing : \A Y \in Missing : <<Y, X>> \notin StrictSubsetOrdering(Nat)
  <2> HIDE DEF Missing
  <2> QED  BY <1>1, <1>2, <1>3, WFMin
<1>5. PICK n \in Nat \ S :
        \A Y \in Missing : <<Y, 0 .. n>> \notin StrictSubsetOrdering(Nat)
  BY <1>4
<1>6. n - 1 \in Nat \ S
  BY <1>5
<1>7. 0 .. n - 1 \subseteq 0 .. n /\ 0 .. n - 1 # 0 .. n
  BY <1>6
<1>8. <<0 .. n - 1, 0 .. n>> \in StrictSubsetOrdering(Nat)
  BY <1>6, <1>7 DEF StrictSubsetOrdering
<1> QED  BY <1>5, <1>6, <1>8

\* Every set of natural numbers has a least element.
LEMMA LeastElement ==
  ASSUME NEW S \in SUBSET Nat, S # {}
  PROVE  \E x \in S : \A y \in S : x <= y
<1> SUFFICES ASSUME \A x \in S : \E y \in S : ~(x <= y)
             PROVE  FALSE
  OBVIOUS
<1> DEFINE T == {n \in Nat : \A x \in S : x >= n}
<1>1. 0 \in T
  OBVIOUS
<1>2. ASSUME NEW n \in Nat, n \in T
      PROVE  n + 1 \in T
  <2> SUFFICES ASSUME NEW x \in S
               PROVE  x >= n + 1
    OBVIOUS
  <2>1. PICK y \in S : ~(x <= y)
    OBVIOUS
  <2>2. y >= n
    BY <1>2
  <2> QED  BY <2>1, <2>2
<1>3. Nat \subseteq T
  <2> HIDE DEF T
  <2> QED  BY <1>1, <1>2, NatSetInduction
<1>4. PICK x \in S : TRUE
  OBVIOUS
<1>5. x + 1 \in T
  <2> HIDE DEF T
  <2> QED  BY <1>3
<1> QED  BY <1>5

-----------------------------------------------------------------------------
(* Powers of two.                                                          *)

\* Divisors instead of remainders.
LEMMA Multiple ==
  ASSUME NEW n \in Nat, NEW d \in Nat \ {0}
  PROVE  n % d = 0 <=> \E q \in Nat : n = d * q
<1>1. ASSUME n % d = 0
      PROVE  \E q \in Nat : n = d * q
  <2>1. n \div d \in Nat /\ n = d * (n \div d) + (n % d)
    BY DivMod
  <2>2. d * (n \div d) \in Nat
    BY <2>1
  <2> QED  BY <1>1, <2>1, <2>2
<1>2. ASSUME NEW q \in Nat, n = d * q
      PROVE  n % d = 0
  <2>1. n \div d \in Nat /\ n % d \in 0 .. d - 1 /\ n = d * (n \div d) + (n % d)
    BY DivMod
  <2>2. d * q + 0 = d * (n \div d) + (n % d) /\ 0 \in 0 .. d - 1
    BY <1>2, <2>1
  <2> HIDE <1>2
  <2> QED  BY <2>1, <2>2, DivModUnique
<1> QED  BY <1>1, <1>2

LEMMA Parity ==
  ASSUME NEW n \in Nat
  PROVE  /\ n % 2 \in {0, 1}
         /\ n % 2 = 0 <=> \E m \in Nat : n = 2 * m
         /\ n % 2 = 1 <=> \E m \in Nat : n = 2 * m + 1
  BY SMT

LEMMA Divisors ==
  ASSUME NEW n \in Nat \ {0}
  PROVE  PowerOfTwo(n) <=>
           \A d, q \in Nat : n = d * q => d = 1 \/ \E m \in Nat : d = 2 * m
<1>1. ASSUME PowerOfTwo(n), NEW d \in Nat, NEW q \in Nat, n = d * q
      PROVE  d = 1 \/ \E m \in Nat : d = 2 * m
  <2>1. d # 0 /\ q # 0
    BY <1>1
  <2>2. d <= n
    BY <1>1, <2>1, SMT
  <2>3. n % d = 0
    BY <1>1, <2>1, Multiple
  <2>4. d \in 1 .. n
    BY <2>1, <2>2
  <2>5. d = 1 \/ d % 2 = 0
    BY <1>1, <2>3, <2>4 DEF PowerOfTwo
  <2> QED  BY <2>5, Parity
<1>2. ASSUME \A d, q \in Nat : n = d * q => d = 1 \/ \E m \in Nat : d = 2 * m
      PROVE  PowerOfTwo(n)
  <2> SUFFICES ASSUME NEW d \in 1 .. n, n % d = 0
               PROVE  d = 1 \/ d % 2 = 0
    BY DEF PowerOfTwo
  <2>1. d \in Nat \ {0}
    OBVIOUS
  <2>2. \E q \in Nat : n = d * q
    BY <2>1, Multiple, Zenon
  <2>3. d = 1 \/ \E m \in Nat : d = 2 * m
    BY <1>2, <2>1, <2>2, Zenon
  <2> QED  BY <2>1, <2>3, Parity
<1> QED  BY <1>1, <1>2

LEMMA HalfPower ==
  ASSUME NEW n \in Nat, PowerOfTwo(n)
  PROVE  n = 1 \/ \E m \in Nat \ {0} : n = 2 * m /\ m < n /\ PowerOfTwo(m)
<1> SUFFICES ASSUME n # 1
             PROVE  \E m \in Nat \ {0} : n = 2 * m /\ m < n /\ PowerOfTwo(m)
  OBVIOUS
<1>1. n # 0
  BY DEF PowerOfTwo
<1>2. n = n * 1
  OBVIOUS
<1>3. PICK m \in Nat : n = 2 * m
  BY <1>1, <1>2, Divisors
<1>4. m # 0 /\ m < n
  BY <1>1, <1>3
<1>5. PowerOfTwo(m)
  <2> SUFFICES ASSUME NEW d \in Nat, NEW q \in Nat, m = d * q
               PROVE  d = 1 \/ \E x \in Nat : d = 2 * x
    BY <1>4, Divisors
  <2>1. PICK e \in Nat : n = d * e
    <3>1. n = d * (2 * q) /\ 2 * q \in Nat
      BY <1>3
    <3> QED  BY <3>1
  <2>2. n \in Nat \ {0}
    BY <1>1
  <2>3. \A x, y \in Nat : n = x * y => x = 1 \/ \E z \in Nat : x = 2 * z
    BY <2>2, Divisors
  <2> QED  BY <2>1, <2>3, Zenon
<1> QED  BY <1>3, <1>4, <1>5

LEMMA DoublePower ==
  ASSUME NEW n \in Nat, PowerOfTwo(n)
  PROVE  PowerOfTwo(2 * n)
<1>1. n # 0
  BY DEF PowerOfTwo
<1> SUFFICES ASSUME NEW d \in Nat, NEW q \in Nat, 2 * n = d * q,
                    ~ \E x \in Nat : d = 2 * x
             PROVE  d = 1
  <2>1. 2 * n \in Nat \ {0}
    BY <1>1
  <2> QED  BY <2>1, Divisors, Zenon
<1>2. PICK x \in Nat : d = 2 * x + 1
  BY Parity
<1>3. \E y \in Nat : q = 2 * y
  <2>1. CASE q % 2 = 1
    <3>1. PICK y \in Nat : q = 2 * y + 1
      BY <2>1, Parity
    <3>2. d * q = 2 * (2 * x * y + x + y) + 1
      BY <1>2, <3>1, SMT
    <3>3. 2 * x * y \in Nat
      OBVIOUS
    <3> DEFINE z == 2 * x * y + x + y
    <3>4. z \in Nat
      BY <3>3
    <3> HIDE DEF z
    <3>5. 2 * n = 2 * z + 1
      BY <3>2 DEF z
    <3> QED  BY <3>4, <3>5
  <2> QED  BY <2>1, Parity
<1>4. PICK y \in Nat : q = 2 * y
  BY <1>3
<1>5. n = d * y
  <2>1. d * q = 2 * (d * y) /\ d * y \in Nat
    BY <1>4, SMT
  <2> QED  BY <2>1
<1> QED  BY <1>1, <1>5, Divisors

LEMMA FourIsPower == PowerOfTwo(1) /\ PowerOfTwo(4)
<1>1. PowerOfTwo(1)
  BY DEF PowerOfTwo
<1>2. PowerOfTwo(2 * 1)
  BY <1>1, DoublePower
<1>3. PowerOfTwo(2)
  BY <1>2
<1>4. PowerOfTwo(2 * 2)
  BY <1>3, DoublePower
<1> QED  BY <1>1, <1>4

\* The next larger power of two is at least twice as large.
LEMMA NextPower ==
  ASSUME NEW p \in Nat, NEW q \in Nat, PowerOfTwo(p), PowerOfTwo(q), p < q
  PROVE  2 * p <= q
<1> DEFINE S == {m \in Nat : \A x, y \in 0 .. m :
                   PowerOfTwo(x) /\ PowerOfTwo(y) /\ x < y => 2 * x <= y}
<1>1. 0 \in S
  OBVIOUS
<1>2. ASSUME NEW m \in Nat, m \in S
      PROVE  m + 1 \in S
  <2> SUFFICES ASSUME NEW x \in 0 .. m + 1, NEW y \in 0 .. m + 1,
                      PowerOfTwo(x), PowerOfTwo(y), x < y
               PROVE  2 * x <= y
    OBVIOUS
  <2>1. x # 0 /\ y # 1
    BY DEF PowerOfTwo
  <2>2. PICK v \in Nat \ {0} : y = 2 * v /\ v < y /\ PowerOfTwo(v)
    BY <2>1, HalfPower
  <2>3. CASE x = 1
    BY <2>2, <2>3
  <2>4. CASE x # 1
    <3>1. PICK u \in Nat \ {0} : x = 2 * u /\ u < x /\ PowerOfTwo(u)
      BY <2>4, HalfPower
    <3>2. u \in 0 .. m /\ v \in 0 .. m /\ u < v
      BY <2>2, <3>1
    <3>3. 2 * u <= v
      BY <1>2, <2>2, <3>1, <3>2
    <3> QED  BY <2>2, <3>1, <3>3
  <2> QED  BY <2>3, <2>4
<1>3. Nat \subseteq S
  <2> HIDE DEF S
  <2> QED  BY <1>1, <1>2, NatSetInduction
<1> QED  BY <1>3

Odd(a) == a % 2 = 1

\* A power of two that divides a product divides the other factor of an odd one.
LEMMA OddFactor ==
  \A n \in Nat : PowerOfTwo(n) =>
    \A a, b, c \in Nat : Odd(a) /\ a * b = n * c => \E d \in Nat : b = n * d
<1> DEFINE Divides(n) ==
             \A a, b, c \in Nat : Odd(a) /\ a * b = n * c => \E d \in Nat : b = n * d
           S == {m \in Nat : \A x \in 0 .. m : PowerOfTwo(x) => Divides(x)}
<1>1. 0 \in S
  BY DEF PowerOfTwo
<1>2. ASSUME NEW m \in Nat, m \in S
      PROVE  m + 1 \in S
  <2> SUFFICES ASSUME NEW x \in 0 .. m + 1, PowerOfTwo(x)
               PROVE  Divides(x)
    <3> HIDE DEF Divides
    <3> QED  OBVIOUS
  <2> SUFFICES ASSUME NEW a \in Nat, NEW y \in Nat, NEW z \in Nat,
                      Odd(a), a * y = x * z
               PROVE  \E d \in Nat : y = x * d
    BY Zenon
  <2>1. CASE x = 1
    <3>1. y = x * y
      BY <2>1
    <3> QED  BY <3>1
  <2>2. CASE x # 1
    <3>1. PICK w \in Nat \ {0} : x = 2 * w /\ w < x /\ PowerOfTwo(w)
      BY <2>2, HalfPower
    <3>2. \E v \in Nat : y = 2 * v
      <4>1. PICK u \in Nat : a = 2 * u + 1
        BY Parity DEF Odd
      <4>2. CASE y % 2 = 1
        <5>1. PICK v \in Nat : y = 2 * v + 1
          BY <4>2, Parity
        <5> DEFINE e == 2 * u * v + u + v
                   f == w * z
        <5>2. a * y = 2 * e + 1
          BY <4>1, <5>1, SMT
        <5>3. x * z = 2 * f
          BY <3>1, SMT
        <5>4. e \in Nat /\ f \in Nat
          <6>1. 2 * u * v \in Nat /\ w * z \in Nat
            OBVIOUS
          <6> QED  BY <6>1
        <5> HIDE DEF e, f
        <5> QED  BY <5>2, <5>3, <5>4
      <4> QED  BY <4>2, Parity
    <3>3. PICK v \in Nat : y = 2 * v
      BY <3>2
    <3>4. a * v = w * z
      <4>1. a * y = 2 * (a * v) /\ x * z = 2 * (w * z)
            /\ a * v \in Nat /\ w * z \in Nat
        BY <3>1, <3>3, SMT
      <4> QED  BY <4>1
    <3>5. PICK d \in Nat : v = w * d
      <4>1. w \in 0 .. m /\ PowerOfTwo(w)
        BY <3>1
      <4>2. Divides(w)
        BY <1>2, <4>1, Zenon
      <4> QED  BY <3>4, <4>2, Zenon
    <3>6. y = x * d
      BY <3>1, <3>3, <3>5, SMT
    <3> QED  BY <3>6
  <2> QED  BY <2>1, <2>2
<1>3. Nat \subseteq S
  <2> HIDE DEF S
  <2> QED  BY <1>1, <1>2, NatSetInduction
<1>4. \A n \in Nat : n \in 0 .. n
  OBVIOUS
<1>5. \A n \in Nat : PowerOfTwo(n) => Divides(n)
  BY <1>3, <1>4, Zenon
<1> QED  BY <1>5, Zenon

-----------------------------------------------------------------------------
(* Triangular probing.                                                     *)

LEMMA TriangleTwice ==
  ASSUME NEW t \in Nat
  PROVE  Triangle(t) \in Nat /\ 2 * Triangle(t) = t * (t + 1)
<1>1. PICK m \in Nat : t * (t + 1) = 2 * m
  <2>1. CASE t % 2 = 0
    <3>1. PICK x \in Nat : t = 2 * x
      BY <2>1, Parity
    <3>2. t * (t + 1) = 2 * (x * (t + 1)) /\ x * (t + 1) \in Nat
      BY <3>1, SMT
    <3> QED  BY <3>2
  <2>2. CASE t % 2 = 1
    <3>1. PICK x \in Nat : t = 2 * x + 1
      BY <2>2, Parity
    <3>2. t + 1 = 2 * (x + 1)
      BY <3>1
    <3>3. t * (t + 1) = 2 * (t * (x + 1)) /\ t * (x + 1) \in Nat
      BY <3>2, SMT
    <3> QED  BY <3>3
  <2> QED  BY <2>1, <2>2, Parity
<1>2. Triangle(t) = m
  <2>1. (2 * m) \div 2 = m
    OBVIOUS
  <2> QED  BY <1>1, <2>1 DEF Triangle
<1> QED  BY <1>1, <1>2

\* Equal remainders: the difference is a multiple.
LEMMA SameRemainder ==
  ASSUME NEW a \in Nat, NEW b \in Nat, NEW n \in Nat \ {0}, a <= b,
         a % n = b % n
  PROVE  \E c \in Nat : b = a + n * c
<1>1. PICK p \in Nat, r \in 0 .. n - 1 : a = n * p + r /\ r = a % n
  BY DivMod
<1>2. PICK q \in Nat, s \in 0 .. n - 1 : b = n * q + s /\ s = b % n
  BY DivMod
<1>3. r = s
  BY <1>1, <1>2
<1>4. n * p \in Nat /\ n * q \in Nat
  OBVIOUS
<1>5. n * p <= n * q
  BY <1>1, <1>2, <1>3, <1>4
<1>6. p <= q
  <2> SUFFICES ASSUME q < p
               PROVE  FALSE
    OBVIOUS
  <2>1. n * p >= n * q + n
    BY MultStep
  <2> QED  BY <1>4, <1>5, <2>1
<1>7. PICK c \in Nat : n * q = n * p + n * c
  <2>1. q - p \in Nat /\ n * q = n * p + n * (q - p)
    BY <1>6, SMT
  <2> QED  BY <2>1
<1>8. n * c \in Nat
  OBVIOUS
<1>9. b = a + n * c
  <2> DEFINE P == n * p
             Q == n * q
             C == n * c
  <2>1. /\ P \in Nat /\ Q \in Nat /\ C \in Nat
        /\ Q = P + C /\ a = P + r /\ b = Q + r
    BY <1>1, <1>2, <1>3, <1>4, <1>7, <1>8
  <2> HIDE DEF P, Q, C
  <2>2. b = a + C
    BY <2>1
  <2> QED  BY <2>2 DEF C
<1> QED  BY <1>9

\* In the first n steps they come across n different remainders.
LEMMA TriangleDistinct ==
  ASSUME NEW h \in Nat, NEW n \in Nat, PowerOfTwo(n),
         NEW t \in 0 .. n - 1, NEW u \in 0 .. n - 1, t < u
  PROVE  (h + Triangle(t)) % n # (h + Triangle(u)) % n
<1> SUFFICES ASSUME (h + Triangle(t)) % n = (h + Triangle(u)) % n
             PROVE  FALSE
  OBVIOUS
<1> DEFINE a == u - t
           b == u + t + 1
           m == 2 * n
<1>1. n \in Nat \ {0} /\ t \in Nat /\ u \in Nat
  BY DEF PowerOfTwo
<1>2. /\ Triangle(t) \in Nat /\ 2 * Triangle(t) = t * (t + 1)
      /\ Triangle(u) \in Nat /\ 2 * Triangle(u) = u * (u + 1)
  BY <1>1, TriangleTwice
<1>3. u * (u + 1) = t * (t + 1) + a * b
  BY <1>1, SMT
<1>4. a \in Nat /\ b \in Nat /\ 0 < a /\ a < n /\ 0 < b /\ b < 2 * n
      /\ a + b = 2 * u + 1
  BY <1>1
<1>5. a * b \in Nat /\ t * (t + 1) \in Nat /\ u * (u + 1) \in Nat
  <2> HIDE DEF a, b
  <2> QED  BY <1>1, <1>4, SMT
<1> HIDE DEF a, b
<1>6. PICK c \in Nat : h + Triangle(u) = (h + Triangle(t)) + n * c
  <2>1. h + Triangle(t) <= h + Triangle(u)
    BY <1>2, <1>3, <1>5
  <2>2. (h + Triangle(t)) % n = (h + Triangle(u)) % n
    OBVIOUS
  <2>3. h + Triangle(t) \in Nat /\ h + Triangle(u) \in Nat
    BY <1>2
  <2> QED  BY <1>1, <2>1, <2>2, <2>3, SameRemainder
<1>7. a * b = m * c
  <2>1. n * c \in Nat /\ (2 * n) * c = 2 * (n * c)
    BY <1>1, SMT
  <2> QED  BY <1>2, <1>3, <1>5, <1>6, <2>1
<1>8. PowerOfTwo(m) /\ m \in Nat /\ m = 2 * n
  BY DoublePower
<1> HIDE DEF m
<1>9. \A x, y, z \in Nat : Odd(x) /\ x * y = m * z => \E d \in Nat : y = m * d
  <2>1. PowerOfTwo(m) /\ m \in Nat
    BY <1>8
  <2> QED  BY <2>1, OddFactor, Zenon
<1>10. CASE Odd(a)
  <2>1. PICK d \in Nat : b = m * d
    BY <1>4, <1>7, <1>10, <1>9, Zenon
  <2>2. d # 0
    BY <1>1, <1>4, <1>8, <2>1
  <2>3. m * d >= m
    BY <1>1, <1>8, <2>2, SMT
  <2> QED  BY <1>1, <1>4, <1>8, <2>1, <2>3
<1>11. CASE a % 2 = 0
  <2>1. Odd(b)
    <3>1. PICK x \in Nat : a = 2 * x
      BY <1>4, <1>11, Parity
    <3> QED  BY <1>1, <1>4, <3>1 DEF Odd
  <2>2. b * a = m * c
    BY <1>4, <1>7, SMT
  <2>3. PICK d \in Nat : a = m * d
    BY <1>4, <1>9, <2>1, <2>2, Zenon
  <2>4. d # 0
    BY <1>1, <1>4, <1>8, <2>3
  <2>5. m * d >= m
    BY <1>1, <1>8, <2>4, SMT
  <2> QED  BY <1>1, <1>4, <1>8, <2>3, <2>5
<1> QED  BY <1>4, <1>10, <1>11, Parity DEF Odd

\* Every remainder is come across within as many steps.
LEMMA TriangleCovers ==
  ASSUME NEW h \in Nat, NEW n \in Nat, PowerOfTwo(n), NEW s \in 0 .. n - 1
  PROVE  \E t \in 0 .. n - 1 : (h + Triangle(t)) % n = s
<1> DEFINE S == 0 .. n - 1
           f == [t \in S |-> (h + Triangle(t)) % n]
<1>1. n \in Nat \ {0}
  BY DEF PowerOfTwo
<1>2. f \in [S -> S]
  <2>1. \A t \in S : t \in Nat
    OBVIOUS
  <2>2. \A t \in S : (h + Triangle(t)) % n \in S
    <3> SUFFICES ASSUME NEW t \in S
                 PROVE  (h + Triangle(t)) % n \in S
      OBVIOUS
    <3>1. h + Triangle(t) \in Nat
      BY <2>1, TriangleTwice
    <3> QED  BY <1>1, <3>1, DivMod
  <2> QED  BY <2>2
<1>3. \A t, u \in S : t < u => f[t] # f[u]
  BY TriangleDistinct
<1>4. f \in Injection(S, S)
  BY <1>2, <1>3 DEF Injection, IsInjective
<1>5. IsFiniteSet(S)
  BY FS_Interval
<1> HIDE DEF f
<1>6. f \in Surjection(S, S)
  BY <1>4, <1>5, FS_Injection
<1>7. \E t \in S : f[t] = s
  BY <1>6 DEF Surjection
<1> QED  BY <1>7 DEF f
=============================================================================
