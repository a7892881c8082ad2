-------------------------------- MODULE StbDs --------------------------------
(***************************************************************************)
(* stb_ds (shims/stb_ds_hm_sh): the keys are in a dense array, in the      *)
(* order of their insertion but for the holes that erasures fill with the  *)
(* last one, and a hash index says where in the array each key is.  The    *)
(* index is probed bucket by bucket; an erasure leaves a tombstone in it.  *)
(*                                                                         *)
(* The shim hands in its own hash functions, and the maximum load factor   *)
(* was changed for the benchmark (stb_ds_modified.h:924-927).  Values,     *)
(* which are moved with their keys, and running out of memory, which       *)
(* stb_ds does not look for, are left out.                                 *)
(*                                                                         *)
(* A definition named Fault_... is a broken variant of the one it stands   *)
(* before; only the mutation checks use it.                                *)
(***************************************************************************)
EXTENDS Integers, FiniteSets, FiniteSetsExt, SequencesExt, Probing

CONSTANTS Keys,
          Hash,            \* the hash code of each key
          BUCKET_LENGTH,   \* STBDS_BUCKET_LENGTH: the slots of a bucket, 8
          NoKey            \* no call is under way

ASSUME StbDsAssumption == /\ Hash \in [Keys -> Nat]
                          /\ BUCKET_LENGTH \in {4, 8}
                          /\ NoKey \notin Keys

VARIABLES made,
          allocated,   \* whether the shim's table_type is not NULL
          array,       \* the keys behind the default element
          index,       \* its hash_table
          itr,         \* the caller's iterator, an index
          pc, key      \* the call under way and the key it was given

vars == <<made, allocated, array, index, itr, pc, key>>

-----------------------------------------------------------------------------
(* The hash index.                                                         *)

\* The codes 0 and 1 are those of an empty and of a deleted slot.
Fault_HashAsIs(k) == Hash[k]
hash(k) == IF Hash[k] < 2 THEN Hash[k] + 2 ELSE Hash[k]

EMPTY == [hash |-> 0, index |-> -1]
DELETED == [hash |-> 1, index |-> -2]
InUse(slot) == slot.index >= 0         \* STBDS_INDEX_IN_USE

NoIndex == [slot_count |-> 0, used_count |-> 0, tombstone_count |-> 0,
            slot |-> <<>>]

used_count_threshold(n) == (n * 14) \div 16
tombstone_count_threshold(n) == (n * 2) \div 16
used_count_shrink_threshold(n) ==
  IF n <= BUCKET_LENGTH THEN 0 ELSE (n * 6) \div 16

\* The p-th slot that a search for this hash looks at among n: all slots of a
\* bucket, beginning at the position of the hash and wrapping around, then of
\* one that is a step ahead, where each step is a bucket longer than the last.
Probe(n, h, p) ==
  LET turn == p \div BUCKET_LENGTH
      pos == (h + BUCKET_LENGTH * Triangle(turn)) % n
  IN  (pos \div BUCKET_LENGTH) * BUCKET_LENGTH
        + ((pos + p) % BUCKET_LENGTH)

\* The first slot of Goal it comes across.
FirstIn(Goal, n, h) ==
  Probe(n, h, Min({p \in 0 .. n - 1 : Probe(n, h, p) \in Goal}))

Empties(slots) == {s \in DOMAIN slots : slots[s].hash = EMPTY.hash}
Deleteds(ix) == {s \in DOMAIN ix.slot : ix.slot[s].index = DELETED.index}
InUses(ix) == {s \in DOMAIN ix.slot : InUse(ix.slot[s])}

\* stbds_make_hash_index: the slots in use go over, the tombstones do not.
Copy(slots, n, old) ==
  IF InUse(old)
  THEN [slots EXCEPT ![FirstIn(Empties(slots), n, old.hash)] = old]
  ELSE slots

TombstonesCopied(ix) == 0
make_hash_index(n, ot) ==
  LET copied[i \in 0 .. ot.slot_count] ==
        IF i = 0 THEN [s \in 0 .. n - 1 |-> EMPTY]
        ELSE Copy(copied[i - 1], n, ot.slot[i - 1])
  IN  [slot_count |-> n, used_count |-> ot.used_count,
       tombstone_count |-> TombstonesCopied(ot),
       slot |-> copied[ot.slot_count]]

\* Where a lookup of k ends, if it does: at k or at an empty slot.
Fault_AnyOfThisHash(arr, ix, k) ==
  {s \in InUses(ix) : ix.slot[s].hash = hash(k)}
Matching(arr, ix, k) ==
  {s \in InUses(ix) : /\ ix.slot[s].hash = hash(k)
                       /\ ix.slot[s].index < Len(arr)
                       /\ arr[ix.slot[s].index + 1] = k}

\* With neither, the search goes on for ever.
Terminates(ix, k) ==
  ix = NoIndex \/ Empties(ix.slot) \cup Matching(array, ix, k) # {}

\* stbds_hm_find_slot: the slot of k, as a set.
find_slot(arr, ix, k) ==
  IF ix = NoIndex THEN {}
  ELSE Matching(arr, ix, k) \cap
         {FirstIn(Empties(ix.slot) \cup Matching(arr, ix, k),
                  ix.slot_count, hash(k))}

-----------------------------------------------------------------------------
(* The operations.                                                         *)

Init == /\ made = FALSE /\ allocated = FALSE
        /\ array = <<>> /\ index = NoIndex
        /\ itr = -1 /\ pc = "idle" /\ key = NoKey

Idle == made /\ pc = "idle"

create_table == /\ ~made /\ made' = TRUE
                /\ UNCHANGED <<allocated, array, index, itr, pc, key>>

destroy_table == /\ Idle /\ made' = FALSE
                 /\ allocated' = FALSE /\ array' = <<>> /\ index' = NoIndex
                 /\ itr' = -1
                 /\ UNCHANGED <<pc, key>>

\* The caller calls an operation and lets go of its iterator.
call(op, k) == /\ Idle
               /\ pc' = op /\ key' = k /\ itr' = -1
               /\ UNCHANGED <<made, allocated, array, index>>

Return == pc' = "idle" /\ key' = NoKey

\* hmgeti; on NULL it makes an array of the default element alone.
find ==
  /\ pc = "find" /\ Terminates(index, key)
  /\ allocated' = TRUE
  /\ itr' = IF find_slot(array, index, key) = {} THEN -1
            ELSE index.slot[Min(find_slot(array, index, key))].index
  /\ Return
  /\ UNCHANGED <<made, array, index>>

Crowded(ix) == ix.used_count >= used_count_threshold(ix.slot_count)

Grown(ix) ==
  IF ix = NoIndex THEN make_hash_index(BUCKET_LENGTH, ix)
  ELSE IF Crowded(ix) THEN make_hash_index(2 * ix.slot_count, ix)
  ELSE ix

\* The first tombstone on the way to the empty slot, else that slot.
NewSlot(ix, k) ==
  LET n == ix.slot_count
      end == Min({p \in 0 .. n - 1 : Probe(n, hash(k), p) \in Empties(ix.slot)})
      passed == {Probe(n, hash(k), p) : p \in 0 .. end}
  IN  FirstIn((passed \cap Deleteds(ix)) \cup Empties(ix.slot), n, hash(k))

\* hmput.
insert ==
  /\ pc = "insert"
  /\ allocated' = TRUE
  /\ LET ix == Grown(index)
         slot == NewSlot(ix, key)
     IN  IF find_slot(array, ix, key) # {}
         THEN index' = ix /\ UNCHANGED array
         ELSE /\ array' = Append(array, key)
              /\ index' = [ix EXCEPT
                   !.slot[slot] = [hash |-> hash(key), index |-> Len(array)],
                   !.used_count = @ + 1,
                   !.tombstone_count = IF slot \in Deleteds(ix) THEN @ - 1
                                                                ELSE @]
  /\ Return
  /\ UNCHANGED <<made, itr>>

\* The end of stbds_hmdel_key.
Tidied(ix) ==
  IF /\ ix.used_count < used_count_shrink_threshold(ix.slot_count)
     /\ ix.slot_count > BUCKET_LENGTH
  THEN make_hash_index(ix.slot_count \div 2, ix)
  ELSE IF ix.tombstone_count > tombstone_count_threshold(ix.slot_count)
  THEN make_hash_index(ix.slot_count, ix)
  ELSE ix

\* The last key of the array moves to position to, and its slot follows.
Fault_SlotLeft(arr, ix, last, to) == ix
PointedTo(arr, ix, last, to) ==
  IF to = last THEN ix
  ELSE [ix EXCEPT !.slot[Min(find_slot(arr, ix, arr[to + 1]))].index = to]

\* hmdel.
erase ==
  /\ pc = "erase" /\ Terminates(index, key)
  /\ IF find_slot(array, index, key) = {}
     THEN UNCHANGED <<array, index>>
     ELSE LET slot == Min(find_slot(array, index, key))
              hole == index.slot[slot].index
              last == Len(array) - 1
              marked == [index EXCEPT !.slot[slot] = DELETED,
                                      !.used_count = @ - 1,
                                      !.tombstone_count = @ + 1]
              moved == [array EXCEPT ![hole + 1] = array[last + 1]]
          IN  /\ array' = Front(moved)
              /\ index' = Tidied(PointedTo(moved, marked, last, hole))
  /\ Return
  /\ UNCHANGED <<made, allocated, itr>>

begin_itr == /\ Idle /\ itr' = 0
             /\ UNCHANGED <<made, allocated, array, index, pc, key>>

is_itr_valid == itr # -1 /\ itr < Len(array)

increment_itr == /\ Idle /\ is_itr_valid
                 /\ itr' = itr + 1
                 /\ UNCHANGED <<made, allocated, array, index, pc, key>>

Next == \/ create_table \/ destroy_table
        \/ \E op \in {"find", "insert", "erase"}, k \in Keys : call(op, k)
        \/ find \/ insert \/ erase
        \/ begin_itr \/ increment_itr

Spec == Init /\ [][Next]_vars

-----------------------------------------------------------------------------
(* What has to hold.                                                       *)

\* A power of two of buckets.
IndexSize(n) == n % BUCKET_LENGTH = 0 /\ PowerOfTwo(n \div BUCKET_LENGTH)

\* In particular the remainders modulo slot_count are the & of the code, an
\* array that was never allocated has no keys, and what tells empty and deleted
\* slots by their hash agrees with what tells them by their index.
TypeOK ==
  /\ made \in BOOLEAN /\ allocated \in BOOLEAN
  /\ array \in Seq(Keys) /\ (~allocated => array = <<>> /\ index = NoIndex)
  /\ index = NoIndex \/
       /\ index.slot_count \in Nat /\ IndexSize(index.slot_count)
       /\ index.slot \in [0 .. index.slot_count - 1 ->
                            [hash : Nat, index : {-1, -2} \cup Nat]]
       /\ \A s \in DOMAIN index.slot :
            /\ index.slot[s].hash = 0 <=> index.slot[s].index = -1
            /\ index.slot[s].hash = 1 <=> index.slot[s].index = -2
  /\ itr \in -1 .. Len(array)
  /\ pc \in {"idle", "find", "insert", "erase"}
  /\ key \in Keys \cup {NoKey} /\ (key = NoKey <=> pc = "idle")

\* The counters that decide when to grow, shrink and rebuild count what is in
\* the slots and between two calls stay within their thresholds.
CountersAreRight ==
  /\ index.used_count = Cardinality(InUses(index))
  /\ index.tombstone_count = Cardinality(Deleteds(index))
  /\ index.used_count <= used_count_threshold(index.slot_count)
  /\ index.tombstone_count <= tombstone_count_threshold(index.slot_count)

\* Whatever was swapped into holes and copied into other indexes, each key of
\* the array is there once, looking it up leads to its place, and the counters
\* agree with the slots.
IndexFollowsArray ==
  /\ CountersAreRight
  /\ Cardinality(InUses(index)) = Len(array)
  /\ \A i \in 1 .. Len(array) :
       \E s \in find_slot(array, index, array[i]) :
         index.slot[s].index = i - 1

(***************************************************************************)
(* stb_ds is the table the benchmark expects: each operation does what the *)
(* contract's operation of that name does, as long as it returns.          *)
(***************************************************************************)
KeysOf(Positions) == {array[i + 1] : i \in Positions \cap (0 .. Len(array) - 1)}

AbstractItr == [here |-> KeysOf({itr}),
                rest |-> IF is_itr_valid THEN KeysOf(itr + 1 .. Len(array)) ELSE {}]

Contract == INSTANCE ShimContract WITH table <- Range(array), itr <- AbstractItr

ContractStep == \/ create_table /\ Contract!create_table
                \/ destroy_table /\ Contract!destroy_table
                \/ find /\ Contract!find(key)
                \/ insert /\ Contract!insert(key)
                \/ erase /\ Contract!erase(key)
                \/ Idle /\ pc' # "idle" /\ Contract!release_itr
                \/ begin_itr /\ Contract!begin_itr
                \/ increment_itr /\ Contract!increment_itr

ImplementsContract == Contract!TableInit /\ [][ContractStep]_vars

\* "to avoid infinite loop, we need to guarantee that at least one slot is
\* empty and will terminate probes" (stb_ds_modified.h:939).
SlotLeft == index # NoIndex => Empties(index.slot) # {}
=============================================================================
