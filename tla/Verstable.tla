------------------------------ MODULE Verstable ------------------------------
(***************************************************************************)
(* Verstable (shims/verstable): every key is in a chain that starts in its *)
(* home bucket, and the chains are threaded through one 16-bit metadatum   *)
(* per bucket: a fragment of the hash code, a flag for a key in its home   *)
(* bucket, and the displacement of the next key in the chain.  A key that  *)
(* is not at home makes way for one that is.                               *)
(*                                                                         *)
(* insert_raw and erase_itr_raw are functions of a table, as in the code,  *)
(* where a rehash calls the former on a table of its own.  Values, which   *)
(* move with their keys, are left out, and with them what distinguishes    *)
(* insert from get_or_insert.  What is left in a bucket that was emptied   *)
(* is as good as what was in a new one.                                    *)
(*                                                                         *)
(* A definition named Fault_... is a broken variant of the one it stands   *)
(* before; only the mutation checks use it.                                *)
(***************************************************************************)
EXTENDS Integers, FiniteSets, FiniteSetsExt, Probing

CONSTANTS Keys,
          Hash,                \* the bits of a hash code that select a bucket
          Frag,                \* and the four that go to the metadatum
          DISPLACEMENT_LIMIT,  \* VT_DISPLACEMENT_MASK, 2047
          ReserveSizes,        \* what reserve() may be asked for
          Garbage,             \* what an empty bucket holds
          NoMemoryFor          \* the calls whose malloc may return NULL

ASSUME VerstableAssumption ==
  /\ Hash \in [Keys -> Nat] /\ Frag \in [Keys -> 0 .. 15]
  /\ DISPLACEMENT_LIMIT \in Nat \ {0, 1} /\ ReserveSizes \subseteq Nat
  /\ Garbage \notin Keys /\ NoMemoryFor \subseteq {"insert", "resize"}

VARIABLES made, table,
          itr,               \* the caller's iterator: a bucket and, if it is
                             \* known, the home bucket of its key
          pc, key,           \* the call under way and the key to be inserted
          bucket_count, new_table, bucket    \* _rehash's argument and locals

vars == <<made, table, itr, pc, key, bucket_count, new_table, bucket>>

rvars == <<bucket_count, new_table, bucket>>

Empty == [frag |-> 0, first |-> FALSE, next |-> 0]

\* A table of n buckets; none at all is one placeholder metadatum.
EmptyTable(n) ==
  LET Buckets == IF n = 0 THEN {0} ELSE 0 .. n - 1
  IN  [mask  |-> IF n = 0 THEN 0 ELSE n - 1,
       count |-> 0,
       key   |-> [b \in Buckets |-> Garbage],
       meta  |-> [b \in Buckets |-> Empty]]

BucketCount(t) == IF t.mask = 0 THEN 0 ELSE t.mask + 1
Occupied(t) == {b \in 0 .. t.mask : t.meta[b] # Empty}

\* key_count + 1 > bucket_count * MAX_LOAD, which the shim sets to 0.875.
Overloaded(t) == 8 * (t.count + 1) > 7 * BucketCount(t)

-----------------------------------------------------------------------------
(* Chains.                                                                 *)

vt_quadratic(d) == (d * d + d) \div 2

Home(t, k) == Hash[k] % (t.mask + 1)
Displaced(t, home, d) == (home + vt_quadratic(d)) % (t.mask + 1)
Link(t, home, b) == Displaced(t, home, t.meta[b].next)
IsLast(t, b) == t.meta[b].next = DISPLACEMENT_LIMIT

Following(t, home, b) == IF IsLast(t, b) THEN b ELSE Link(t, home, b)

\* The buckets that a loop along the chain of home meets from bucket b on; a
\* chain has no more keys than there are displacements.
Walk(t, home, b) ==
  LET at[n \in 0 .. DISPLACEMENT_LIMIT - 1] ==
        IF n = 0 THEN b ELSE Following(t, home, at[n - 1])
  IN  at

\* The first one that is in Goal.
WalkTo(t, home, b, Goal) ==
  LET at == Walk(t, home, b)
  IN  at[Min({n \in DOMAIN at : at[n] \in Goal})]

LastOnes(t) == {x \in 0 .. t.mask : IsLast(t, x)}

Before(t, home, b, target) ==
  WalkTo(t, home, b, {x \in 0 .. t.mask : Link(t, home, x) = target})

\* _find_first_empty: the displacement of the earliest empty bucket, or 0.
find_first_empty(t, home) ==
  LET free == {d \in 1 .. DISPLACEMENT_LIMIT - 1 :
                 t.meta[Displaced(t, home, d)] = Empty}
  IN  IF free = {} THEN 0 ELSE Min(free)

\* _find_insert_location_in_chain.
insert_location(t, home, d) ==
  WalkTo(t, home, home, {x \in 0 .. t.mask : t.meta[x].next > d})

\* The new metadata when a key with this fragment joins the chain of home.
Joined(t, home, d, frag) ==
  LET prev == insert_location(t, home, d)
  IN  [t.meta EXCEPT
         ![Displaced(t, home, d)] =
            [frag |-> frag, first |-> FALSE, next |-> t.meta[prev].next],
         ![prev].next = d]

\* _evict: the key in bucket b leaves its chain and joins it again elsewhere;
\* when there is no room for that it has left it all the same.
evict(t, b) ==
  LET home == Home(t, t.key[b])
      cut == [t EXCEPT !.meta[Before(t, home, home, b)].next = t.meta[b].next]
      d == find_first_empty(cut, home)
  IN  IF d = 0 THEN [ok |-> FALSE, table |-> cut]
      ELSE [ok    |-> TRUE,
            table |-> [cut EXCEPT !.key[Displaced(t, home, d)] = t.key[b],
                                  !.meta = Joined(cut, home, d,
                                                  t.meta[b].frag)]]

-----------------------------------------------------------------------------
(* Lookups, insertion and erasure.                                         *)

Matches(t, b, k) == t.meta[b].frag = Frag[k] /\ t.key[b] = k

\* _get, and the search in _insert_raw: the bucket of k, if there is one.
get(t, k) ==
  LET home == Home(t, k)
      b == WalkTo(t, home, home,
                  LastOnes(t) \cup {x \in 0 .. t.mask : Matches(t, x, k)})
  IN  IF t.meta[home].first /\ Matches(t, b, k) THEN {b} ELSE {}

Failed(t) == [ok |-> FALSE, table |-> t]

\* Case 1 of _insert_raw: the home bucket holds no key that belongs there.
InsertAtHome(t, k) ==
  LET home == Home(t, k)
      vacated == IF t.meta[home] = Empty THEN [ok |-> TRUE, table |-> t]
                                         ELSE evict(t, home)
  IN  IF Overloaded(t) THEN Failed(t)
      ELSE IF ~vacated.ok THEN vacated
      ELSE [ok    |-> TRUE,
            table |-> [vacated.table EXCEPT
                         !.key[home] = k,
                         !.meta[home] = [frag |-> Frag[k], first |-> TRUE,
                                         next |-> DISPLACEMENT_LIMIT],
                         !.count = t.count + 1]]

\* Case 2: it starts a chain, which the new key joins.
InsertInChain(t, k) ==
  LET home == Home(t, k)
      d == find_first_empty(t, home)
  IN  IF Overloaded(t) \/ d = 0 THEN Failed(t)
      ELSE [ok    |-> TRUE,
            table |-> [t EXCEPT !.key[Displaced(t, home, d)] = k,
                                !.meta = Joined(t, home, d, Frag[k]),
                                !.count = t.count + 1]]

Present(t, k) == get(t, k)

insert_raw(t, k, unique) ==
  IF ~t.meta[Home(t, k)].first THEN InsertAtHome(t, k)
  ELSE IF ~unique /\ Present(t, k) # {} THEN [ok |-> TRUE, table |-> t]
  ELSE InsertInChain(t, k)

\* _erase_itr_raw: the last key of the chain is moved to where the erased one
\* was.  stay: that key is still ahead of an iteration.
Fault_FragLeft(t, b, last) == [t EXCEPT !.key[b] = t.key[last]]
MoveTo(t, b, last) == [t EXCEPT !.key[b] = t.key[last],
                                !.meta[b].frag = t.meta[last].frag]

Fault_NeverStay(b, last) == FALSE
Stay(b, last) == last > b

Detached(t, home, b, last) ==
  [t EXCEPT !.meta[Before(t, home, b, last)].next = DISPLACEMENT_LIMIT,
            !.meta[last] = Empty, !.key[last] = Garbage,
            !.count = t.count - 1]

erase_itr_raw(t, b, home) ==
  IF t.meta[b].first /\ IsLast(t, b)
  THEN [stay |-> FALSE, table |-> [t EXCEPT !.meta[b] = Empty,
                                            !.key[b] = Garbage,
                                            !.count = t.count - 1]]
  ELSE IF IsLast(t, b)
  THEN [stay |-> FALSE, table |-> Detached(t, home, home, b)]
  ELSE LET last == WalkTo(t, home, b, LastOnes(t))
       IN  [stay |-> Stay(b, last),
            table |-> Detached(MoveTo(t, b, last), home, b, last)]

-----------------------------------------------------------------------------
(* The operations.                                                         *)

Unknown == -1                             \* SIZE_MAX
EndItr(t) == [at |-> BucketCount(t), home |-> Unknown]
is_itr_valid == itr.at # BucketCount(table)

NoRehash == bucket_count = 0 /\ new_table = EmptyTable(0) /\ bucket = 0
EndRehash == bucket_count' = 0 /\ new_table' = EmptyTable(0) /\ bucket' = 0

Init == /\ made = FALSE
        /\ table = EmptyTable(0) /\ itr = EndItr(table)
        /\ pc = "idle" /\ key = Garbage /\ NoRehash

Idle == made /\ pc = "idle"

create_table == /\ ~made /\ made' = TRUE
                /\ UNCHANGED <<table, itr, pc, key, rvars>>

destroy_table == /\ Idle /\ made' = FALSE
                 /\ table' = EmptyTable(0) /\ itr' = EndItr(table')
                 /\ UNCHANGED <<pc, key, rvars>>

find(k) ==
  /\ Idle
  /\ itr' = IF get(table, k) = {} THEN EndItr(table)
            ELSE [at |-> Min(get(table, k)), home |-> Home(table, k)]
  /\ UNCHANGED <<made, table, pc, key, rvars>>

\* _fast_forward stops at the metadatum behind the last one.
ItrFrom(t, b) ==
  [at   |-> Min({x \in Occupied(t) : x >= b} \cup {BucketCount(t)}),
   home |-> Unknown]

\* _first.
begin_itr == /\ Idle
             /\ itr' = IF table.count = 0 THEN EndItr(table)
                                          ELSE ItrFrom(table, 0)
             /\ UNCHANGED <<made, table, pc, key, rvars>>

\* _next.
increment_itr == /\ Idle /\ is_itr_valid
                 /\ itr' = ItrFrom(table, itr.at + 1)
                 /\ UNCHANGED <<made, table, pc, key, rvars>>

HomeOfItr == IF itr.home # Unknown THEN itr.home
             ELSE IF table.meta[itr.at].first THEN itr.at
             ELSE Home(table, table.key[itr.at])

\* The iterator is handed back, moved on unless another key to come is there.
erase_itr ==
  /\ Idle /\ is_itr_valid
  /\ LET r == erase_itr_raw(table, itr.at, HomeOfItr)
     IN  /\ table' = r.table
         /\ itr' = IF r.stay THEN itr ELSE ItrFrom(r.table, itr.at + 1)
  /\ UNCHANGED <<made, pc, key, rvars>>

erase(k) ==
  /\ Idle
  /\ table' = IF get(table, k) = {} THEN table
              ELSE erase_itr_raw(table, Min(get(table, k)),
                                 Home(table, k)).table
  /\ itr' = EndItr(table)
  /\ UNCHANGED <<made, pc, key, rvars>>

clear == /\ Idle
         /\ table' = EmptyTable(BucketCount(table))
         /\ itr' = EndItr(table)
         /\ UNCHANGED <<made, pc, key, rvars>>

\* The loops of _insert: insert_raw, then _rehash, until one of them gives in.
insert(k) == /\ Idle
             /\ pc' = "insert" /\ key' = k
             /\ itr' = EndItr(table)
             /\ UNCHANGED <<made, table, rvars>>

Fault_SameCount(t) == IF t.mask = 0 THEN 8 ELSE BucketCount(t)
GrownCount(t) == IF t.mask = 0 THEN 8 ELSE 2 * BucketCount(t)

TryInsert ==
  /\ pc = "insert"
  /\ \E r \in {insert_raw(table, key, FALSE)} :
       /\ table' = r.table
       /\ IF r.ok
          THEN pc' = "idle" /\ key' = Garbage /\ UNCHANGED bucket_count
          ELSE pc' = "rehash" /\ bucket_count' = GrownCount(r.table)
                 /\ UNCHANGED key
  /\ UNCHANGED <<made, itr, new_table, bucket>>

\* _min_bucket_count_for_size.
Fault_NoPowerOfTwo(size) == IF size = 0 THEN 0 ELSE Max({8, (8 * size) \div 7})
min_bucket_count_for_size(size) ==
  IF size = 0 THEN 0
  ELSE Min({n \in 8 .. 16 * size : PowerOfTwo(n) /\ 8 * size <= 7 * n})

Resize(n) == /\ pc' = "rehash" /\ bucket_count' = n
             /\ itr' = EndItr(table)
             /\ UNCHANGED <<made, table, key, new_table, bucket>>

reserve(size) == /\ Idle
                 /\ min_bucket_count_for_size(size) > BucketCount(table)
                 /\ Resize(min_bucket_count_for_size(size))

shrink ==
  /\ Idle
  /\ LET n == min_bucket_count_for_size(table.count)
     IN  /\ n # BucketCount(table)
         /\ IF n > 0 THEN Resize(n)
            ELSE /\ table' = EmptyTable(0) /\ itr' = EndItr(table')
                 /\ UNCHANGED <<made, pc, key, rvars>>

-----------------------------------------------------------------------------
(* _rehash.                                                                *)

StartRehash == /\ pc = "rehash"
               /\ pc' = "reinsert"
               /\ new_table' = EmptyTable(bucket_count) /\ bucket' = 0
               /\ UNCHANGED <<made, table, itr, key, bucket_count>>

\* No memory: the call under way ends, and what it was to insert is not there.
FailRehash == /\ pc = "rehash"
              /\ (IF key = Garbage THEN "resize" ELSE "insert") \in NoMemoryFor
              /\ pc' = "idle" /\ key' = Garbage
              /\ EndRehash
              /\ UNCHANGED <<made, table, itr>>

\* One turn of the loop over the buckets; it breaks when a key finds no room.
Reinsert ==
  /\ pc = "reinsert" /\ bucket < BucketCount(table)
  /\ IF table.meta[bucket] = Empty
     THEN bucket' = bucket + 1 /\ UNCHANGED new_table
     ELSE \E r \in {insert_raw(new_table, table.key[bucket], TRUE)} :
            /\ new_table' = r.table
            /\ bucket' = IF r.ok THEN bucket + 1 ELSE BucketCount(table)
  /\ UNCHANGED <<made, table, itr, pc, key, bucket_count>>

Fault_AnyTable == TRUE
AllReinserted == new_table.count >= table.count

\* Install the new table, or try again with twice as many buckets.
FinishRehash ==
  /\ pc = "reinsert" /\ bucket = BucketCount(table)
  /\ IF AllReinserted
     THEN /\ table' = new_table
          /\ itr' = EndItr(new_table)
          /\ pc' = IF key = Garbage THEN "idle" ELSE "insert"
          /\ EndRehash
     ELSE /\ pc' = "rehash"
          /\ bucket_count' = 2 * bucket_count
          /\ UNCHANGED <<table, itr, new_table, bucket>>
  /\ UNCHANGED <<made, key>>

Next == \/ create_table \/ destroy_table
        \/ \E k \in Keys : insert(k) \/ erase(k) \/ find(k)
        \/ begin_itr \/ increment_itr \/ erase_itr
        \/ clear \/ shrink
        \/ \E size \in ReserveSizes : reserve(size)
        \/ TryInsert \/ StartRehash \/ FailRehash \/ Reinsert \/ FinishRehash

Internal == TryInsert \/ StartRehash \/ Reinsert \/ FinishRehash

Spec == Init /\ [][Next]_vars

\* A call that was made runs to its end.
FairSpec == Spec /\ WF_vars(Internal)

-----------------------------------------------------------------------------
(* What has to hold.                                                       *)

IsTable(t) ==
  /\ t.mask # 0 => t.mask >= 7 /\ PowerOfTwo(t.mask + 1)
  /\ t \in [mask : Nat, count : Nat,
            key  : [0 .. t.mask -> Keys \cup {Garbage}],
            meta : [0 .. t.mask -> [frag : 0 .. 15, first : BOOLEAN,
                                    next : 0 .. DISPLACEMENT_LIMIT]]]

\* In particular & buckets_mask is a remainder.
TypeOK == /\ made \in BOOLEAN
          /\ IsTable(table) /\ IsTable(new_table)
          /\ itr.at \in Occupied(table) \cup {BucketCount(table)}
          /\ itr.home \in {Unknown} \cup 0 .. table.mask
          /\ pc \in {"idle", "insert", "rehash", "reinsert"}
          /\ key \in Keys \cup {Garbage}
          /\ bucket_count \in Nat /\ bucket \in 0 .. BucketCount(table)

\* Every key is in the chain of its home bucket, with its own fragment; chains
\* start at home, are ordered by displacement, end, and hold no empty bucket.
Intact(t) ==
  \A b \in Occupied(t) :
    LET home == Home(t, t.key[b])
        chain == Walk(t, home, home)
    IN  /\ t.meta[home].first
        /\ b \in {chain[n] : n \in DOMAIN chain}
        /\ t.meta[b].first <=> b = home
        /\ t.meta[b].frag = Frag[t.key[b]]
        /\ ~IsLast(t, b) => /\ Link(t, home, b) \in Occupied(t)
                            /\ t.meta[b].next < t.meta[Link(t, home, b)].next

\* key_count, on which the load factor, the shrinking and the outcome of a
\* rehash depend, counts the keys, and none is in two buckets.
KeysCounted(t) ==
  /\ t.count = Cardinality(Occupied(t))
  /\ Cardinality({t.key[b] : b \in Occupied(t)}) = t.count

\* Wherever evictions and moves of last keys take the keys, the chains stay
\* intact, between calls and in the table a rehash builds, and no key is left
\* uncounted or behind in a second bucket.
ChainsIntact ==
  /\ KeysCounted(table) /\ KeysCounted(new_table)
  /\ pc \in {"idle", "insert"} => Intact(table)
  /\ pc = "reinsert" /\ bucket < BucketCount(table) => Intact(new_table)

KeysIn(t, Buckets) == {t.key[b] : b \in Buckets \cap Occupied(t)}
KeysFrom(t, b) == KeysIn(t, b .. BucketCount(t))

\* "To delete keys during iteration and resume iterating, use the return value
\* of NAME_erase_itr" (verstable.h:381): although erasing moves the last key of
\* a chain, the iteration sees each key that it has not seen yet, none twice,
\* and no key but the erased one is gone.
\* The home bucket that the iterator remembers stays that of its key.
IterationResumes ==
  [][erase_itr =>
       /\ KeysIn(table', Occupied(table')) =
            KeysIn(table, Occupied(table) \ {itr.at})
       /\ KeysFrom(table', itr'.at) = KeysFrom(table, itr.at + 1)
       /\ itr'.home # Unknown =>
            itr'.home = Home(table', table'.key[itr'.at])]_vars

\* insert(), reserve() and shrink() return: at some number of buckets no key
\* is displaced beyond the limit.
CallReturns == pc \in {"insert", "rehash", "reinsert"} ~> pc = "idle"

(***************************************************************************)
(* Verstable is the table the benchmark expects: each operation does what  *)
(* the contract's operation of that name does, an insertion when its last  *)
(* attempt succeeds, and all that is in between leaves the keys alone.     *)
(* The contract has no erase_itr and no clear.                             *)
(***************************************************************************)
Contract == INSTANCE ShimContract WITH
  table <- KeysIn(table, Occupied(table)),
  itr   <- [here |-> KeysIn(table, {itr.at}),
            rest |-> KeysFrom(table, itr.at + 1)]

InBetween == \/ \E k \in Keys : insert(k)
             \/ TryInsert /\ pc' = "rehash"
             \/ shrink \/ \E size \in ReserveSizes : reserve(size)
             \/ StartRehash \/ FailRehash \/ Reinsert \/ FinishRehash

ImplementsContract ==
  /\ Contract!TableInit
  /\ [][\/ create_table /\ Contract!create_table
        \/ destroy_table /\ Contract!destroy_table
        \/ \E k \in Keys : \/ find(k) /\ Contract!find(k)
                           \/ erase(k) /\ Contract!erase(k)
        \/ begin_itr /\ Contract!begin_itr
        \/ increment_itr /\ Contract!increment_itr
        \/ TryInsert /\ pc' = "idle" /\ Contract!insert(key)
        \/ InBetween /\ Contract!release_itr
        \/ erase_itr \/ clear]_vars

\* "Returns a iterator to the specified key, or an end iterator if no such key
\* exists" (verstable.h:327).
KeysAreFound ==
  pc = "idle" => \A b \in Occupied(table) : get(table, table.key[b]) = {b}
=============================================================================
