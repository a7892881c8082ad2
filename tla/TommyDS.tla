------------------------------- MODULE TommyDS -------------------------------
(***************************************************************************)
(* The three chained tables of TommyDS, whose shims differ in a few lines  *)
(* (shims/tommyds_dyn, shims/tommyds_hash, shims/tommyds_lin):             *)
(*   "dyn"   doubles and halves its buckets in one go;                     *)
(*   "hash"  has a fixed number of buckets;                                *)
(*   "lin"   splits and merges them a few at a time, as elements come and  *)
(*           go.                                                           *)
(* The first low_max buckets are always in use, and so are the first split *)
(* ones from low_max on; "dyn" and "hash", which do not have these fields, *)
(* are here always as "lin" is when it is stable.                          *)
(*                                                                         *)
(* Values and running out of memory, which the library does not look for,  *)
(* are left out.                                                           *)
(*                                                                         *)
(* A definition named Fault_... is a broken variant of the one it stands   *)
(* before; only the mutation checks use it.                                *)
(***************************************************************************)
EXTENDS Integers, FiniteSets, FiniteSetsExt, SequencesExt, Probing

CONSTANTS Keys,
          Hash,        \* the hash code of each key
          Kinds,       \* the tables under consideration
          BUCKET_MIN,  \* for each kind, the initial number of buckets:
                       \* 1 << TOMMY_HASHDYN_BIT, 1 << TOMMY_HASHLIN_BIT
          Callers,     \* which keys a caller uses, and whether in order
          Unset,       \* what a bucket not in use holds
          NoKey

ASSUME TommyAssumption ==
  /\ Keys \subseteq Nat /\ Hash \in [Keys -> Nat]
  /\ Kinds \subseteq {"dyn", "hash", "lin"}
  /\ \A kd \in Kinds : BUCKET_MIN[kd] \in Nat /\ PowerOfTwo(BUCKET_MIN[kd])
  /\ Callers \subseteq [keys : SUBSET Keys, inOrder : BOOLEAN]
  /\ NoKey \notin Keys

VARIABLES kind, caller,   \* of this behavior
          made,
          hashtable,      \* the library's table
          itr,            \* the caller's iterator
          pc, key         \* the call under way and the key it was given

vars == <<kind, caller, made, hashtable, itr, pc, key>>

-----------------------------------------------------------------------------
(* Buckets.                                                                *)

\* tommy_hashlin_stable.
Fault_SplitKept(t) == [t EXCEPT !.state = "stable", !.low_max = t.bucket_max]
Stable(t) == [t EXCEPT !.state = "stable", !.low_max = t.bucket_max,
                       !.split = 0]

NewTable(n) == Stable([bucket_max |-> n, low_max |-> n, split |-> 0,
                       state |-> "stable", count |-> 0,
                       bucket |-> [pos \in 0 .. n - 1 |-> <<>>]])

InitialTable(kd) == NewTable(BUCKET_MIN[kd])
NoTable == NewTable(0)

Active(t) == 0 .. t.low_max + t.split - 1

\* tommy_hashlin_bucket_ref.
Fault_LowHalfOnly(t, k) == Hash[k] % t.low_max
bucket_ref(t, k) == LET pos == Hash[k] % t.low_max
                    IN  IF pos < t.split THEN Hash[k] % t.bucket_max ELSE pos

Chain(t, k) == t.bucket[bucket_ref(t, k)]
Has(t, k) == k \in Range(Chain(t, k))

\* Twice as many buckets, of which the new ones are not in use yet.
Doubled(t) ==
  [t EXCEPT !.bucket_max = 2 * t.bucket_max,
            !.low_max = t.bucket_max,
            !.split = 0,
            !.bucket = [pos \in 0 .. 2 * t.bucket_max - 1 |->
                          IF pos < t.bucket_max THEN t.bucket[pos] ELSE Unset]]

\* The keys of a chain that are in S, in their order.
Kept(chain, S) ==
  LET kept[i \in 0 .. Len(chain)] ==
        IF i = 0 THEN <<>>
        ELSE IF chain[i] \in S THEN Append(kept[i - 1], chain[i])
        ELSE kept[i - 1]
  IN  kept[Len(chain)]

\* Those of low bucket pos that belong to its low (0) or high (1) half.
Half(t, pos, bit) ==
  Kept(t.bucket[pos], {k \in Keys : (Hash[k] \div t.low_max) % 2 = bit})

\* Buckets are split until n of them are; when all are, the table is stable.
SplitTo(t, n) ==
  LET Low == t.split .. n - 1
      split == [t EXCEPT
        !.split = n,
        !.bucket = [pos \in DOMAIN t.bucket |->
          IF pos \in Low THEN Half(t, pos, 0)
          ELSE IF pos - t.low_max \in Low THEN Half(t, pos - t.low_max, 1)
          ELSE t.bucket[pos]]]
  IN  IF n = t.low_max THEN Stable(split) ELSE split

\* Split buckets are merged again until n are left; when none is, the upper
\* half is given up.
MergeTo(t, n) ==
  LET Low == n .. t.split - 1
      merged == [t EXCEPT
        !.split = n,
        !.bucket = [pos \in DOMAIN t.bucket |->
          IF pos \in Low THEN t.bucket[pos] \o t.bucket[pos + t.low_max]
          ELSE IF pos - t.low_max \in Low THEN Unset
          ELSE t.bucket[pos]]]
  IN  IF n > 0 THEN merged
      ELSE Stable([merged EXCEPT
             !.bucket_max = t.low_max,
             !.bucket = [pos \in 0 .. t.low_max - 1 |-> merged.bucket[pos]]])

-----------------------------------------------------------------------------
(* Growing and shrinking.                                                  *)

\* hashdyn_grow_step and hashdyn_shrink_step: all at once.
dyn_grow_step(t) ==
  IF t.count >= t.bucket_max \div 2 THEN SplitTo(Doubled(t), t.bucket_max)
                                    ELSE t
dyn_shrink_step(t) ==
  IF /\ t.count <= t.bucket_max \div 8
     /\ t.bucket_max > BUCKET_MIN["dyn"]
  THEN MergeTo([t EXCEPT !.low_max = t.bucket_max \div 2,
                         !.split = t.bucket_max \div 2], 0)
  ELSE t

\* A table that is shrinking goes the same way back.
Growing(t) ==
  IF t.state # "grow" /\ t.count > t.bucket_max \div 2
  THEN [(IF t.state = "stable" THEN Doubled(t) ELSE t) EXCEPT !.state = "grow"]
  ELSE t

\* hashlin_grow_step.
Fault_OneForOne(t) == t.count - t.low_max
SplitTarget(t) == 2 * t.count - t.low_max
lin_grow_step(t) ==
  LET g == Growing(t)
  IN  IF g.state = "grow" /\ g.split < SplitTarget(g)
      THEN SplitTo(g, Min({g.low_max, SplitTarget(g)}))
      ELSE g

Shrinking(t) ==
  IF /\ t.state # "shrink" /\ t.count < t.bucket_max \div 8
     /\ t.bucket_max > BUCKET_MIN["lin"]
  THEN [(IF t.state = "stable"
         THEN [t EXCEPT !.low_max = t.bucket_max \div 2,
                        !.split = t.bucket_max \div 2]
         ELSE t) EXCEPT !.state = "shrink"]
  ELSE t

\* hashlin_shrink_step.
MergeTarget(t) == 8 * t.count - t.low_max
lin_shrink_step(t) ==
  LET s == Shrinking(t)
  IN  IF s.state = "shrink" /\ s.split > MergeTarget(s)
      THEN MergeTo(s, Max({0, MergeTarget(s)}))
      ELSE s

grow_step(t) == CASE kind = "dyn" -> dyn_grow_step(t)
                  [] kind = "lin" -> lin_grow_step(t)
                  [] OTHER -> t

shrink_step(t) == CASE kind = "dyn" -> dyn_shrink_step(t)
                    [] kind = "lin" -> lin_shrink_step(t)
                    [] OTHER -> t

-----------------------------------------------------------------------------
(* Iterators: a node, as the set of its key, and the bucket to go on with. *)

EndItr == [bucket_idx |-> 0, node |-> {}]
is_itr_valid(it) == it.node # {}

\* The keys behind k in its chain.
Behind(t, k) == LET chain == Chain(t, k)
                    place == CHOOSE i \in DOMAIN chain : chain[i] = k
                IN  SubSeq(chain, place + 1, Len(chain))

\* Iterator::advance.
advance(t, it) ==
  LET behind == IF it.node = {} THEN <<>> ELSE Behind(t, Min(it.node))
      ahead == {pos \in Active(t) : pos >= it.bucket_idx /\ t.bucket[pos] # <<>>}
  IN  IF behind # <<>> THEN [it EXCEPT !.node = {Head(behind)}]
      ELSE IF ahead = {} THEN [bucket_idx |-> Cardinality(Active(t)), node |-> {}]
      ELSE [bucket_idx |-> Min(ahead) + 1, node |-> {Head(t.bucket[Min(ahead)])}]

\* Where find() leaves the iterator: "dyn" at the bucket it is in, the others
\* at the next one.
Fault_SameBucket(t, k) == [bucket_idx |-> bucket_ref(t, k), node |-> {k}]
FoundItr(t, k) ==
  [bucket_idx |-> bucket_ref(t, k) + (IF kind = "dyn" THEN 0 ELSE 1),
   node |-> {k}]

-----------------------------------------------------------------------------
(* The operations of the shims.                                            *)

Init == /\ kind \in Kinds /\ caller \in Callers
        /\ made = FALSE /\ hashtable = NoTable
        /\ itr = EndItr /\ pc = "idle" /\ key = NoKey

Idle == made /\ pc = "idle"

create_table == /\ ~made /\ made' = TRUE
                /\ hashtable' = InitialTable(kind)
                /\ UNCHANGED <<kind, caller, itr, pc, key>>

\* The entries are freed one by one, then the buckets.
destroy_table == /\ Idle /\ made' = FALSE
                 /\ hashtable' = NoTable /\ itr' = EndItr
                 /\ UNCHANGED <<kind, caller, pc, key>>

Stored(t) == UNION {Range(t.bucket[pos]) : pos \in Active(t)}

\* A caller that works in order of its keys inserts the first one that is not
\* in the table and erases the last one that is.
MayCall(op, k) ==
  /\ k \in caller.keys
  /\ caller.inOrder /\ op = "insert" => k = Min((caller.keys \ Stored(hashtable))
                                                   \cup {Max(caller.keys)})
  /\ caller.inOrder /\ op = "erase" /\ Stored(hashtable) # {} =>
       k = Max(Stored(hashtable))

\* The caller calls an operation and lets go of its iterator.
call(op, k) == /\ Idle /\ MayCall(op, k)
               /\ pc' = op /\ key' = k /\ itr' = EndItr
               /\ UNCHANGED <<kind, caller, made, hashtable>>

Return == pc' = "idle" /\ key' = NoKey /\ UNCHANGED <<kind, caller, made>>

find == /\ pc = "find"
        /\ itr' = IF Has(hashtable, key) THEN FoundItr(hashtable, key) ELSE EndItr
        /\ Return
        /\ UNCHANGED hashtable

insert ==
  /\ pc = "insert"
  /\ hashtable' =
       IF Has(hashtable, key) THEN hashtable
       ELSE grow_step([hashtable EXCEPT
              !.bucket[bucket_ref(hashtable, key)] = Append(@, key),
              !.count = @ + 1])
  /\ Return
  /\ UNCHANGED itr

erase ==
  /\ pc = "erase"
  /\ hashtable' =
       IF ~Has(hashtable, key) THEN hashtable
       ELSE shrink_step([hashtable EXCEPT
              !.bucket[bucket_ref(hashtable, key)] =
                 Kept(@, Keys \ {key}),
              !.count = @ - 1])
  /\ Return
  /\ UNCHANGED itr

begin_itr == /\ Idle
             /\ itr' = advance(hashtable, EndItr)
             /\ UNCHANGED <<kind, caller, made, hashtable, pc, key>>

increment_itr == /\ Idle /\ is_itr_valid(itr)
                 /\ itr' = advance(hashtable, itr)
                 /\ UNCHANGED <<kind, caller, made, hashtable, pc, key>>

Next == \/ create_table \/ destroy_table
        \/ \E op \in {"find", "insert", "erase"}, k \in Keys : call(op, k)
        \/ find \/ insert \/ erase
        \/ begin_itr \/ increment_itr

Spec == Init /\ [][Next]_vars

-----------------------------------------------------------------------------
(* What has to hold.                                                       *)

TypeOK ==
  /\ kind \in Kinds /\ caller \in Callers /\ made \in BOOLEAN
  /\ hashtable.bucket_max \in Nat
  /\ hashtable.bucket_max = 0 \/ PowerOfTwo(hashtable.bucket_max)
  /\ hashtable.state \in {"stable", "grow", "shrink"}
  /\ Active(hashtable) \subseteq DOMAIN hashtable.bucket
  /\ \A pos \in DOMAIN hashtable.bucket :
       IF pos \in Active(hashtable) THEN hashtable.bucket[pos] \in Seq(Keys)
                                    ELSE hashtable.bucket[pos] = Unset
  /\ itr.node \in {{}} \cup {{k} : k \in Keys}
  /\ itr.bucket_idx \in 0 .. Cardinality(Active(hashtable))
  /\ pc \in {"idle", "find", "insert", "erase"} /\ key \in Keys \cup {NoKey}

\* However far the buckets are split or merged, each key is in the bucket that
\* a lookup goes to, that bucket is one that an iteration visits, and count,
\* which decides on the next split or merge, is the number of keys.
EveryKeyInItsBucket ==
  /\ \A pos \in Active(hashtable) :
       /\ \A k \in Range(hashtable.bucket[pos]) : bucket_ref(hashtable, k) = pos
       /\ IsInjective(hashtable.bucket[pos])
  /\ hashtable.count = Cardinality(Stored(hashtable))

\* "finish the reallocation before the next resize" (tommyhashlin.c:122, 212):
\* "lin" never needs twice, or half, the buckets it is still splitting or
\* merging.
ReallocatedInTime ==
  /\ hashtable.state = "grow" => hashtable.count < hashtable.bucket_max \div 2
  /\ hashtable.state = "shrink" => hashtable.count > hashtable.low_max \div 8

(***************************************************************************)
(* The TommyDS shims are the table the benchmark expects.  An iterator of  *)
(* "dyn" that find() returned is good for the key it points at only.       *)
(***************************************************************************)
Seen(t, it) == IF it.node = {} THEN {} ELSE {bucket_ref(t, Min(it.node))}
StaysInBucket == kind = "dyn" /\ itr.bucket_idx \in Seen(hashtable, itr)

Ahead(t, it) == UNION {Range(t.bucket[pos]) :
                         pos \in {p \in Active(t) : p >= it.bucket_idx}}

AbstractItr == [here |-> itr.node,
                rest |-> IF itr.node = {} \/ StaysInBucket THEN {}
                         ELSE Range(Behind(hashtable, Min(itr.node)))
                                \cup Ahead(hashtable, itr)]

Contract == INSTANCE ShimContract WITH table <- Stored(hashtable),
                                       itr   <- AbstractItr

ContractStep ==
  \/ create_table /\ Contract!create_table
  \/ destroy_table /\ Contract!destroy_table
  \/ Idle /\ pc' # "idle" /\ Contract!release_itr
  \/ find /\ Contract!find(key)
  \/ insert /\ Contract!insert(key)
  \/ erase /\ Contract!erase(key)
  \/ begin_itr /\ Contract!begin_itr
  \/ increment_itr /\ (Contract!increment_itr \/ StaysInBucket)

ImplementsContract == Contract!TableInit /\ [][ContractStep]_vars

\* "If the chain is exhausted, it scans subsequent buckets until it finds a
\* non-empty one" (tommyds_dyn/shim.h:97): incrementing an iterator leads on in
\* the chain, or to a later bucket.
ScansSubsequentBuckets ==
  [][increment_itr /\ is_itr_valid(itr') =>
       \/ itr'.node \subseteq Range(Behind(hashtable, Min(itr.node)))
       \/ Min(Seen(hashtable, itr')) > Min(Seen(hashtable, itr))]_vars
=============================================================================
