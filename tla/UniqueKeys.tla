------------------------------ MODULE UniqueKeys ------------------------------
(***************************************************************************)
(* Where the keys of the benchmarks come from: shuffled_unique_key() makes *)
(* a vector of keys at its first use, has the blueprint fill it with       *)
(* distinct ones and shuffles it.  Here the blueprint is the one of        *)
(* strings (blueprints/cstring_uint64_fnv1a), which counts in the letters  *)
(* 'a' to 'z', the least significant letter first; the blueprints of       *)
(* integers count with std::iota.                                          *)
(*                                                                         *)
(* A letter is its distance from 'a', a string its letters without the     *)
(* terminating zero.                                                       *)
(*                                                                         *)
(* A definition named Fault_... is a broken variant of the one it stands   *)
(* before; only the mutation checks use it.                                *)
(***************************************************************************)
EXTENDS Integers, FiniteSets

CONSTANTS KEYS,      \* size of the vector
          LETTERS,   \* from 'a' to 'z'
          LENGTH,    \* string_length - 1
          NoString   \* a null pointer

Indices == 0 .. KEYS - 1
Places == 0 .. LENGTH - 1
Letters == 0 .. LETTERS - 1
Strings == [Places -> Letters]

ASSUME UniqueKeysAssumption ==
  /\ KEYS \in Nat \ {0} /\ LETTERS \in Nat \ {0} /\ LENGTH \in Nat \ {0}
  /\ NoString \notin Strings

\* There is a string for every key: 26 ^ 15 of them in the benchmark.
ASSUME EnoughStrings == KEYS <= Cardinality(Strings)

VARIABLES keys,        \* the vector
          current,     \* the string to store next
          step, i, j,  \* where in the loops
          overflowed   \* (ours) whether a carry left the last letter

keys_vars == <<keys, current, step, i, j, overflowed>>

KeysInit == /\ keys = [n \in Indices |-> NoString]
            /\ current = [p \in Places |-> 0]
            /\ step = "store" /\ i = 0 /\ j = 0
            /\ overflowed = FALSE

-----------------------------------------------------------------------------
(* fill_unique_keys().                                                     *)

StoreKey == /\ step = "store" /\ i < KEYS
            /\ keys' = [keys EXCEPT ![i] = current]
            /\ step' = "count" /\ j' = 0
            /\ UNCHANGED <<current, i, overflowed>>

NextKey == step' = "store" /\ i' = i + 1 /\ j' = 0

\* Whether a letter is at most 'z'.
Fault_WithoutZ(letter) == letter < LETTERS - 1
Fault_PastZ(letter) == letter <= LETTERS
UpToZ(letter) == letter <= LETTERS - 1

StepLetter == /\ step = "count" /\ UpToZ(current[j] + 1)
              /\ current' = [current EXCEPT ![j] = @ + 1]
              /\ NextKey
              /\ UNCHANGED <<keys, overflowed>>

Reset == current' = [current EXCEPT ![j] = 0] /\ UNCHANGED keys

Fault_CarryLost == /\ step = "count" /\ j + 1 < LENGTH
                   /\ ~UpToZ(current[j] + 1) /\ Reset
                   /\ NextKey
                   /\ UNCHANGED overflowed
CarryLetter == /\ step = "count" /\ j + 1 < LENGTH
               /\ ~UpToZ(current[j] + 1) /\ Reset
               /\ j' = j + 1
               /\ UNCHANGED <<step, i, overflowed>>

CarryOut == /\ step = "count" /\ j + 1 = LENGTH
            /\ ~UpToZ(current[j] + 1) /\ Reset
            /\ overflowed' = TRUE
            /\ NextKey

-----------------------------------------------------------------------------
(* shuffled_unique_key(): std::shuffle swaps every key with one at or      *)
(* before its place.                                                       *)

StartShuffle == /\ step = "store" /\ i = KEYS
                /\ step' = "shuffle" /\ i' = 0
                /\ UNCHANGED <<keys, current, j, overflowed>>

Swapped(n, r) == [keys EXCEPT ![n] = keys[r], ![r] = keys[n]]

ShuffleKey == /\ step = "shuffle" /\ i < KEYS
              /\ \E r \in 0 .. i : keys' = Swapped(i, r)
              /\ i' = i + 1
              /\ UNCHANGED <<current, step, j, overflowed>>

\* From then on the vector is only read.
Ready == step = "shuffle" /\ i = KEYS /\ UNCHANGED keys_vars

KeysNext == \/ StoreKey \/ StepLetter \/ CarryLetter \/ CarryOut
            \/ StartShuffle \/ ShuffleKey \/ Ready

KeysSpec == KeysInit /\ [][KeysNext]_keys_vars

-----------------------------------------------------------------------------
(* What Benchmark assumes of its keys.                                     *)

\* Every string consists of the letters from 'a' to 'z'.
TypeOK == /\ keys \in [Indices -> Strings \cup {NoString}]
          /\ current \in Strings
          /\ step \in {"store", "count", "shuffle"}
          /\ i \in 0 .. KEYS /\ j \in Places
          /\ overflowed \in BOOLEAN

Filled == {n \in Indices : keys[n] # NoString}

\* No two keys are the same, whatever letters a carry went through and wherever
\* the shuffle moved a key.
DistinctKeys == \A m, n \in Filled : m # n => keys[m] # keys[n]

\* The counter has a turn for every string there is: it overflows after the
\* last key only, when there are no more keys than strings.
OverflowsLast == overflowed => Filled = Indices
=============================================================================
