-------------------------------- MODULE Khash --------------------------------
(***************************************************************************)
(* khash (shims/khash): open addressing with triangular probing, a two-bit *)
(* flag per bucket, and a rehash that works in place by kicking out the    *)
(* elements it meets.  The rehash is modelled one element at a time; every *)
(* probe loop is the first step of the probe sequence at which the loop    *)
(* stops.                                                                  *)
(*                                                                         *)
(* The shim only ever stores value_type(), so a value is represented by    *)
(* the key it was stored with.                                             *)
(*                                                                         *)
(* A definition named Fault_... is a broken variant of the one it stands   *)
(* before; only the mutation checks use it.                                *)
(***************************************************************************)
EXTENDS Integers, FiniteSets, FiniteSetsExt, Probing

CONSTANTS Keys,
          Hash,          \* Hash[k]: the value of blueprint::hash_key(k)
          Garbage,       \* what a bucket no one has written to holds
          AllocMayFail   \* whether malloc and realloc may return NULL

ASSUME KhashAssumption ==
  /\ Hash \in [Keys -> Nat] /\ Garbage \notin Keys /\ AllocMayFail \in BOOLEAN

VARIABLES made,                                      \* kh_init was called
          n_buckets, size, n_occupied, upper_bound,
          flags, keys, vals,                         \* the three arrays
          itr,                                       \* the caller's iterator
          pc, key,                                   \* the insert() under way
          new_n, new_flags, j, hand                  \* kh_resize's locals

hvars == <<n_buckets, size, n_occupied, upper_bound, flags, keys, vals>>
rvars == <<new_n, new_flags, j, hand>>
vars == <<made, hvars, itr, pc, key, rvars>>

NoHand == [key |-> Garbage, val |-> Garbage]
NoArray == [s \in {} |-> Garbage]
Slots == 0 .. n_buckets - 1

\* i = (i + (++step)) & mask, t times from hash & mask, mask being n - 1.
Probe(h, t, n) == (h + Triangle(t)) % n

\* (khint_t)(n * __ac_HASH_UPPER + 0.5), which the shim sets to 0.875.
UpperBound(n) == (7 * n + 4) \div 8

\* kroundup32, and the minimum of 4.
Fault_NotRounded(n) == IF n < 4 THEN 4 ELSE n
RoundUp(n) == Min({b \in 4 .. 2 * n + 4 : b >= n /\ PowerOfTwo(b)})

-----------------------------------------------------------------------------
(* kh_get and the probe loop of kh_put.                                    *)

At(k, t) == Probe(Hash[k], t, n_buckets)

\* The loop is back where it started and gives up.
Back(k, t) == t > 0 /\ At(k, t) = At(k, 0)

\* The loop's condition fails: a never used bucket, or k itself.
Fault_StopAtDeleted(k, t) ==
  flags[At(k, t)] # "live" \/ keys[At(k, t)] = k
Hit(k, t) == \/ flags[At(k, t)] = "empty"
             \/ flags[At(k, t)] = "live" /\ keys[At(k, t)] = k

StopStep(k) == Min({t \in 0 .. 2 * n_buckets : Hit(k, t) \/ Back(k, t)})

kh_get(k) == IF n_buckets = 0 THEN 0
             ELSE LET t == StopStep(k)
                  IN  IF Back(k, t) \/ flags[At(k, t)] = "empty"
                      THEN n_buckets ELSE At(k, t)

\* The bucket kh_put settles on: that of k, else the last deleted one on the
\* way, else the one where the loop stopped.
PutSlot(k) ==
  LET t == StopStep(k)
      deleted == {u \in 0 .. t - 1 : flags[At(k, u)] = "del"}
  IN  IF deleted # {} /\ (Back(k, t) \/ flags[At(k, t)] = "empty")
      THEN At(k, Max(deleted)) ELSE At(k, t)

-----------------------------------------------------------------------------
NoTable == /\ n_buckets = 0 /\ size = 0 /\ n_occupied = 0 /\ upper_bound = 0
           /\ flags = NoArray /\ keys = NoArray /\ vals = NoArray

NoResize == new_n = 0 /\ new_flags = NoArray /\ j = 0 /\ hand = NoHand

EndResize == new_n' = 0 /\ new_flags' = NoArray /\ j' = 0 /\ hand' = NoHand

Init == /\ made = FALSE /\ NoTable /\ itr = 0
        /\ pc = "idle" /\ key = Garbage /\ NoResize

Idle == made /\ pc = "idle"

\* kh_init: calloc.
create_table == /\ ~made /\ made' = TRUE
                /\ UNCHANGED <<hvars, itr, pc, key, rvars>>

destroy_table ==
  /\ Idle
  /\ made' = FALSE
  /\ n_buckets' = 0 /\ size' = 0 /\ n_occupied' = 0 /\ upper_bound' = 0
  /\ flags' = NoArray /\ keys' = NoArray /\ vals' = NoArray
  /\ itr' = 0
  /\ UNCHANGED <<pc, key, rvars>>

Fault_CrowdedTooLate == n_occupied > upper_bound
Crowded == n_occupied >= upper_bound

\* insert() calls kh_put, which resizes first when the table is crowded.
insert(k) == /\ Idle
             /\ key' = k
             /\ pc' = IF Crowded THEN "resize" ELSE "put"
             /\ itr' = n_buckets
             /\ UNCHANGED <<made, hvars, rvars>>

\* The size kh_put asks for: the same again when half the buckets hold nothing
\* (to clear the deleted ones), else twice as many.
RequestedSize == RoundUp(IF n_buckets > 2 * size THEN n_buckets - 1
                                                 ELSE n_buckets + 1)

Extended(array, n) ==
  [s \in 0 .. n - 1 |-> IF s \in DOMAIN array THEN array[s] ELSE Garbage]

StartResize ==
  /\ pc = "resize"
  /\ IF size >= UpperBound(RequestedSize)
     THEN pc' = "put" /\ UNCHANGED <<keys, vals, rvars>>
     ELSE /\ pc' = "rehash"
          /\ new_n' = RequestedSize
          /\ new_flags' = [s \in 0 .. RequestedSize - 1 |-> "empty"]
          /\ keys' = Extended(keys, RequestedSize)
          /\ vals' = Extended(vals, RequestedSize)
          /\ j' = 0 /\ hand' = NoHand
  /\ UNCHANGED <<made, n_buckets, size, n_occupied, upper_bound, flags, itr,
                 key>>

\* kh_resize returns -1 and kh_put an iterator past the last bucket, through
\* which insert() stores the value without looking at ret.
FailResize == /\ AllocMayFail /\ pc = "resize"
              /\ pc' = "overrun"
              /\ keys' \in {keys, Extended(keys, RequestedSize)}
              /\ UNCHANGED <<made, n_buckets, size, n_occupied, upper_bound,
                             flags, vals, itr, key, rvars>>

Fault_SameSlotAgain == j
NextSlot == j + 1

\* for( j = 0; j != h->n_buckets; ++j ): take the next live element in hand.
RehashNext ==
  /\ pc = "rehash" /\ hand = NoHand /\ j < n_buckets
  /\ IF flags[j] = "live"
     THEN /\ hand' = [key |-> keys[j], val |-> vals[j]]
          /\ flags' = [flags EXCEPT ![j] = "del"]
          /\ UNCHANGED j
     ELSE j' = NextSlot /\ UNCHANGED <<hand, flags>>
  /\ UNCHANGED <<made, n_buckets, size, n_occupied, upper_bound, keys, vals,
                 itr, pc, key, new_n, new_flags>>

\* The first bucket on the new probe sequence of k that is still free.
NewSlot(k) ==
  LET NewAt(t) == Probe(Hash[k], t, new_n)
  IN  NewAt(Min({t \in 0 .. new_n - 1 : new_flags[NewAt(t)] = "empty"}))

\* while( 1 ): put the element in hand into its new bucket, and take the live
\* element that is still there in hand.
Fault_OldFlagKept(i) == flags
ClearOld(i) == [flags EXCEPT ![i] = "del"]

Fault_ValueNotSwapped(i) == [key |-> keys[i], val |-> hand.val]
KickedOut(i) == [key |-> keys[i], val |-> vals[i]]

Place ==
  /\ pc = "rehash" /\ hand # NoHand
  /\ LET i == NewSlot(hand.key)
     IN  /\ new_flags' = [new_flags EXCEPT ![i] = "live"]
         /\ keys' = [keys EXCEPT ![i] = hand.key]
         /\ vals' = [vals EXCEPT ![i] = hand.val]
         /\ IF i < n_buckets /\ flags[i] = "live"
            THEN hand' = KickedOut(i) /\ flags' = ClearOld(i) /\ UNCHANGED j
            ELSE hand' = NoHand /\ j' = NextSlot /\ UNCHANGED flags
  /\ UNCHANGED <<made, n_buckets, size, n_occupied, upper_bound, itr, pc, key,
                 new_n>>

Fault_OccupiedKept == n_occupied
OccupiedAfterResize == size

FinishResize ==
  /\ pc = "rehash" /\ hand = NoHand /\ j = n_buckets
  /\ flags' = new_flags
  /\ n_buckets' = new_n
  /\ n_occupied' = OccupiedAfterResize
  /\ upper_bound' = UpperBound(new_n)
  /\ itr' = new_n
  /\ pc' = "put"
  /\ EndResize
  /\ UNCHANGED <<made, size, keys, vals, key>>

\* The rest of kh_put, and the store through the iterator it returns.
Put ==
  /\ pc = "put"
  /\ LET x == PutSlot(key)
     IN  /\ keys' = IF flags[x] = "live" THEN keys ELSE [keys EXCEPT ![x] = key]
         /\ flags' = [flags EXCEPT ![x] = "live"]
         /\ vals' = [vals EXCEPT ![x] = key]
         /\ size' = IF flags[x] = "live" THEN size ELSE size + 1
         /\ n_occupied' = IF flags[x] = "empty" THEN n_occupied + 1
                                                ELSE n_occupied
  /\ itr' = n_buckets
  /\ pc' = "idle" /\ key' = Garbage
  /\ UNCHANGED <<made, n_buckets, upper_bound, rvars>>

\* kh_get, then kh_del unless it returned kh_end.
Deleted(x) == [flags EXCEPT ![x] = "del"]

erase(k) ==
  /\ Idle
  /\ LET x == kh_get(k)
     IN  IF x # n_buckets /\ flags[x] = "live"
         THEN flags' = Deleted(x) /\ size' = size - 1
         ELSE UNCHANGED <<flags, size>>
  /\ itr' = n_buckets
  /\ UNCHANGED <<made, n_buckets, n_occupied, upper_bound, keys, vals, pc, key,
                 rvars>>

find(k) == /\ Idle
           /\ itr' = kh_get(k)
           /\ UNCHANGED <<made, hvars, pc, key, rvars>>

\* kh_begin.
begin_itr == /\ Idle
             /\ itr' = 0
             /\ UNCHANGED <<made, hvars, pc, key, rvars>>

is_itr_valid == itr # n_buckets

\* ++itr until kh_end or a bucket that kh_exist.
NextLive == {s \in Slots : s > itr /\ flags[s] = "live"}

increment_itr == /\ Idle /\ is_itr_valid
                 /\ itr' = Min(NextLive \cup {n_buckets})
                 /\ UNCHANGED <<made, hvars, pc, key, rvars>>

Overrun == pc = "overrun" /\ UNCHANGED vars

Next == \/ create_table \/ destroy_table
        \/ \E k \in Keys : insert(k) \/ erase(k) \/ find(k)
        \/ begin_itr \/ increment_itr
        \/ StartResize \/ FailResize \/ RehashNext \/ Place \/ FinishResize
        \/ Put \/ Overrun

Spec == Init /\ [][Next]_vars

-----------------------------------------------------------------------------
(* What has to hold.                                                       *)

Flags == {"empty", "del", "live"}
Content == Keys \cup {Garbage}

TableSize(n) == n # 0 => n >= 4 /\ PowerOfTwo(n)

\* In particular & ( n_buckets - 1 ) is a remainder.
TypeOK == /\ made \in BOOLEAN
          /\ n_buckets \in Nat /\ TableSize(n_buckets)
          /\ new_n \in Nat /\ TableSize(new_n)
          /\ size \in Nat /\ n_occupied \in Nat
          /\ upper_bound \in Nat
          /\ flags \in [Slots -> Flags]
          /\ Slots \subseteq DOMAIN keys \cap DOMAIN vals
          /\ \A s \in DOMAIN keys : keys[s] \in Content
          /\ \A s \in DOMAIN vals : vals[s] \in Content
          /\ itr \in 0 .. n_buckets
          /\ pc \in {"idle", "resize", "rehash", "put", "overrun"}
          /\ key \in Content
          /\ new_flags \in [0 .. new_n - 1 -> {"empty", "live"}]
          /\ j \in 0 .. n_buckets
          /\ hand \in {NoHand} \cup [key : Keys, val : Keys]

OldLive == {s \in Slots : flags[s] = "live"}
NewLive == {s \in DOMAIN new_flags : new_flags[s] = "live"}

\* size and n_occupied, which decide when kh_put resizes and to what, are
\* counted up and down by kh_put and kh_del; they are the numbers of elements
\* and of buckets that are not free, in the middle of a rehash as well.
CountersAreRight ==
  /\ size = Cardinality(OldLive) + Cardinality(NewLive)
              + (IF hand = NoHand THEN 0 ELSE 1)
  /\ pc # "rehash" =>
       n_occupied = Cardinality({s \in Slots : flags[s] # "empty"})

\* A key is in one bucket at most, and its value stays with it, wherever a
\* rehash kicks the two.
PairsStayTogether ==
  /\ OldLive \cap NewLive = {}
  /\ \A s, u \in OldLive \cup NewLive : keys[s] = keys[u] => s = u
  /\ \A s \in OldLive \cup NewLive : vals[s] = keys[s]
  /\ hand # NoHand => /\ hand.key = hand.val
                      /\ \A s \in OldLive \cup NewLive : keys[s] # hand.key

\* kh_put's probe loop can come back to its first bucket without having seen a
\* free one, and would then overwrite the value of another key, if its table
\* were full: it never is after the resize check, nor is the new table that
\* the kick-out loop fills.
RoomWhenInserting ==
  /\ pc = "put" => \E s \in Slots : flags[s] = "empty"
  /\ pc = "put" => LET x == PutSlot(key) IN flags[x] = "live" => keys[x] = key
  /\ pc = "rehash" /\ hand # NoHand => \E s \in DOMAIN new_flags :
                                          new_flags[s] = "empty"

\* The kick-out loop, the while( 1 ) of a rehash, comes to an end: every step
\* of a rehash leaves less to do, be it a bucket to visit, an element to move or
\* the one in hand.
RehashLeft == 2 * (n_buckets - j) + 2 * Cardinality(OldLive)
                + (IF hand = NoHand THEN 0 ELSE 1)
RehashAdvances ==
  [][pc = "rehash" /\ pc' = "rehash" => RehashLeft' < RehashLeft]_vars

(***************************************************************************)
(* khash is the table that the benchmark expects, except for begin_itr:    *)
(* each operation does what the contract's operation of that name does, an *)
(* insertion when it returns, and the steps of a rehash leave the keys     *)
(* alone.                                                                  *)
(***************************************************************************)
TableKeys == {keys[s] : s \in OldLive \cup NewLive}
             \cup (IF hand = NoHand THEN {} ELSE {hand.key})

AbstractItr == IF itr = n_buckets THEN [here |-> {}, rest |-> {}]
               ELSE [here |-> {keys[itr]}, rest |-> {keys[s] : s \in NextLive}]

Contract == INSTANCE ShimContract WITH table <- TableKeys, itr <- AbstractItr

InBetween == \/ \E k \in Keys : insert(k)
             \/ StartResize \/ FailResize \/ RehashNext \/ Place \/ FinishResize

ContractStep ==
  \/ Put /\ Contract!insert(key)
  \/ (pc # "idle" \/ pc' # "idle") /\ InBetween /\ Contract!release_itr
  \/ create_table /\ Contract!create_table
  \/ destroy_table /\ Contract!destroy_table
  \/ begin_itr
  \/ increment_itr /\ Contract!increment_itr
  \/ \E k \in Keys : \/ Contract!find(k) /\ find(k)
                     \/ Contract!erase(k) /\ erase(k)

ImplementsContract == Contract!TableInit /\ [][ContractStep]_vars
=============================================================================
