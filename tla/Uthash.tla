------------------------------- MODULE Uthash -------------------------------
(***************************************************************************)
(* uthash behind its shim (shims/uthash).  The items are in two structures *)
(* at once: in the buckets, by hash code, and in a doubly linked list, in  *)
(* the order of their insertion ("app order"), along which one iterates.   *)
(* A table exists only while it has items: the handle of an empty one is   *)
(* NULL.                                                                   *)
(*                                                                         *)
(* The chain of a bucket is a set here: no lookup and no expansion depends *)
(* on its order.  The list is kept as the code does, in its links.  An     *)
(* allocation that fails ends the program and is left out, as are values.  *)
(*                                                                         *)
(* A definition named Fault_... is a broken variant of the one it stands   *)
(* before; only the mutation checks use it.                                *)
(***************************************************************************)
EXTENDS Integers, FiniteSets

CONSTANTS Keys,
          Hash,                       \* the hash code of each key
          HASH_INITIAL_NUM_BUCKETS,
          HASH_BKT_CAPACITY_THRESH,
          NULL

ASSUME UthashAssumption ==
  /\ IsFiniteSet(Keys) /\ Hash \in [Keys -> Nat]
  /\ HASH_INITIAL_NUM_BUCKETS \in Nat \ {0}
  /\ HASH_BKT_CAPACITY_THRESH \in Nat \ {0}
  /\ NULL \notin Keys

VARIABLES made,
          head,      \* the shim's table: the first item in app order
          tbl,       \* what the items' hh.tbl points to
          hh,        \* the app order links of each item
          itr,       \* the caller's iterator: an item
          pc, key    \* the call under way and the key it was given

vars == <<made, head, tbl, hh, itr, pc, key>>

-----------------------------------------------------------------------------
(* The table.                                                              *)

EmptyBuckets(n) == [b \in 0 .. n - 1 |-> [items |-> {}, count |-> 0, expand_mult |-> 0]]

\* HASH_MAKE_TABLE.
NewTable(k) == [num_buckets |-> HASH_INITIAL_NUM_BUCKETS, num_items |-> 0,
                tail |-> k, ideal_chain_maxlen |-> 0,
                ineff_expands |-> 0, noexpand |-> FALSE,
                buckets |-> EmptyBuckets(HASH_INITIAL_NUM_BUCKETS)]

FreedTable == [NewTable(NULL) EXCEPT !.num_buckets = 0, !.buckets = EmptyBuckets(0)]

HASH_TO_BKT(k, n) == Hash[k] % n

EmptyList == [k \in {} |-> NULL]

\* HASH_FIND_BYHASHVALUE: the item of a key, which is named like its key.
Found(k) ==
  IF head # NULL /\ k \in tbl.buckets[HASH_TO_BKT(k, tbl.num_buckets)].items
  THEN k ELSE NULL

\* The least integer that is not less than n / d.
Ceil(n, d) == (n + d - 1) \div d

\* What expand_mult comes to when items are put into a new bucket one by one.
Fault_NoDelay(count, ideal) == 0
ExpandMult(count, ideal) ==
  LET mult[n \in 0 .. count] ==
        IF n = 0 THEN 0
        ELSE IF n > ideal /\ n > mult[n - 1] * ideal THEN mult[n - 1] + 1
        ELSE mult[n - 1]
  IN  mult[count]

\* HASH_EXPAND_BUCKETS.
Fault_KeepBuckets(t, n) == [b \in 0 .. n - 1 |->
  IF b < t.num_buckets THEN t.buckets[b].items ELSE {}]
Redistributed(t, n) ==
  [b \in 0 .. n - 1 |-> {k \in t.buckets[b % t.num_buckets].items :
                           HASH_TO_BKT(k, n) = b}]

\* The items beyond the ideal length of their chains decide whether an
\* expansion was worth it.
IneffExpands(t, items, ideal) ==
  LET nonideal == UNION {{b} \X (ideal + 1 .. Cardinality(items[b])) :
                           b \in DOMAIN items}
  IN  IF Cardinality(nonideal) > t.num_items \div 2 THEN t.ineff_expands + 1
                                                    ELSE 0

Expanded(t) ==
  LET n == 2 * t.num_buckets
      items == Redistributed(t, n)
      ideal == Ceil(t.num_items, n)
      ineff == IneffExpands(t, items, ideal)
  IN  [t EXCEPT
         !.num_buckets = n,
         !.buckets = [b \in 0 .. n - 1 |->
           [items |-> items[b], count |-> Cardinality(items[b]),
            expand_mult |-> ExpandMult(Cardinality(items[b]), ideal)]],
         !.ideal_chain_maxlen = ideal,
         !.ineff_expands = ineff,
         !.noexpand = t.noexpand \/ ineff > 1]

\* HASH_ADD_TO_TABLE and HASH_ADD_TO_BKT.
Full(bkt) == bkt.count >= (bkt.expand_mult + 1) * HASH_BKT_CAPACITY_THRESH

AddedTo(t, k) ==
  LET b == HASH_TO_BKT(k, t.num_buckets)
      added == [t EXCEPT !.num_items = @ + 1,
                         !.buckets[b].items = @ \cup {k},
                         !.buckets[b].count = @ + 1]
  IN  IF Full(added.buckets[b]) /\ ~t.noexpand THEN Expanded(added) ELSE added

\* HASH_DEL_IN_BKT.
DeletedFrom(t, k) ==
  LET b == HASH_TO_BKT(k, t.num_buckets)
  IN  [t EXCEPT !.num_items = @ - 1,
                !.buckets[b].items = @ \ {k},
                !.buckets[b].count = @ - 1]

-----------------------------------------------------------------------------
(* The operations of the shim.                                             *)

Init == /\ made = FALSE /\ head = NULL /\ tbl = FreedTable /\ hh = EmptyList
        /\ itr = NULL /\ pc = "idle" /\ key = NULL

Idle == made /\ pc = "idle"

create_table == /\ ~made /\ made' = TRUE
                /\ UNCHANGED <<head, tbl, hh, itr, pc, key>>

\* HASH_ITER deletes the items one by one, the last one with the table.
destroy_table == /\ Idle /\ made' = FALSE
                 /\ head' = NULL /\ tbl' = FreedTable /\ hh' = EmptyList
                 /\ itr' = NULL
                 /\ UNCHANGED <<pc, key>>

\* The caller calls an operation and lets go of its iterator.
call(op, k) == /\ Idle
               /\ pc' = op /\ key' = k /\ itr' = NULL
               /\ UNCHANGED <<made, head, tbl, hh>>

Return == pc' = "idle" /\ key' = NULL /\ UNCHANGED made

find == /\ pc = "find"
        /\ itr' = Found(key)
        /\ Return
        /\ UNCHANGED <<head, tbl, hh>>

InsertPresent == /\ pc = "insert" /\ Found(key) # NULL
                 /\ Return
                 /\ UNCHANGED <<head, tbl, hh, itr>>

\* The first item brings the table with it.
InsertFirst == /\ pc = "insert" /\ head = NULL
               /\ head' = key
               /\ tbl' = AddedTo(NewTable(key), key)
               /\ hh' = [k \in {key} |-> [prev |-> NULL, next |-> NULL]]
               /\ Return
               /\ UNCHANGED itr

\* HASH_APPEND_LIST.
Linked(k) ==
  [x \in DOMAIN hh \cup {k} |->
     IF x = k THEN [prev |-> tbl.tail, next |-> NULL]
     ELSE IF x = tbl.tail THEN [hh[x] EXCEPT !.next = k]
     ELSE hh[x]]

InsertAnother == /\ pc = "insert" /\ head # NULL /\ Found(key) = NULL
                 /\ hh' = Linked(key)
                 /\ tbl' = AddedTo([tbl EXCEPT !.tail = key], key)
                 /\ Return
                 /\ UNCHANGED <<head, itr>>

insert == InsertPresent \/ InsertFirst \/ InsertAnother

EraseAbsent == /\ pc = "erase" /\ Found(key) = NULL
               /\ Return
               /\ UNCHANGED <<head, tbl, hh, itr>>

\* The table goes with its last item, and is made anew with the next one.
EraseLast == /\ pc = "erase" /\ Found(key) # NULL
             /\ hh[key].prev = NULL /\ hh[key].next = NULL
             /\ head' = NULL /\ tbl' = FreedTable /\ hh' = EmptyList
             /\ Return
             /\ UNCHANGED itr

Fault_PrevKept(k) ==
  [x \in DOMAIN hh \ {k} |->
     IF x = hh[k].prev THEN [hh[x] EXCEPT !.next = hh[k].next] ELSE hh[x]]
Unlinked(k) ==
  [x \in DOMAIN hh \ {k} |->
     IF x = hh[k].prev THEN [hh[x] EXCEPT !.next = hh[k].next]
     ELSE IF x = hh[k].next THEN [hh[x] EXCEPT !.prev = hh[k].prev]
     ELSE hh[x]]

Fault_TailKept(k) == tbl.tail
NewTail(k) == IF k = tbl.tail THEN hh[k].prev ELSE tbl.tail

EraseOther == /\ pc = "erase" /\ Found(key) # NULL
              /\ ~(hh[key].prev = NULL /\ hh[key].next = NULL)
              /\ head' = IF hh[key].prev = NULL THEN hh[key].next ELSE head
              /\ hh' = Unlinked(key)
              /\ tbl' = DeletedFrom([tbl EXCEPT !.tail = NewTail(key)], key)
              /\ Return
              /\ UNCHANGED itr

erase == EraseAbsent \/ EraseLast \/ EraseOther

begin_itr == /\ Idle /\ itr' = head
             /\ UNCHANGED <<made, head, tbl, hh, pc, key>>

increment_itr == /\ Idle /\ itr # NULL
                 /\ itr' = hh[itr].next
                 /\ UNCHANGED <<made, head, tbl, hh, pc, key>>

Next == \/ create_table \/ destroy_table
        \/ \E op \in {"find", "insert", "erase"}, k \in Keys : call(op, k)
        \/ find \/ insert \/ erase
        \/ begin_itr \/ increment_itr

Spec == Init /\ [][Next]_vars

-----------------------------------------------------------------------------
(* What has to hold.                                                       *)

Items == DOMAIN hh

Table(n) == [num_buckets : {n}, num_items : Nat, tail : Keys \cup {NULL},
             ideal_chain_maxlen : Nat, ineff_expands : Nat, noexpand : BOOLEAN,
             buckets : [0 .. n - 1 -> [items : SUBSET Keys, count : Nat,
                                       expand_mult : Nat]]]

TypeOK ==
  /\ made \in BOOLEAN /\ head \in Items \cup {NULL}
  /\ Items \subseteq Keys
  /\ hh \in [Items -> [prev : Items \cup {NULL}, next : Items \cup {NULL}]]
  /\ tbl.num_buckets \in Nat /\ tbl \in Table(tbl.num_buckets)
  /\ itr \in Items \cup {NULL}
  /\ pc \in {"idle", "find", "insert", "erase"} /\ key \in Keys \cup {NULL}

\* The items from k on, in app order: those that are in whatever set k is in
\* together with the item after each of its members.
Closed(S) == \A x \in S : hh[x].next \in S \cup {NULL}
Walk(k) == {x \in Items : k # NULL /\
              \A S \in SUBSET Items : k \in S /\ Closed(S) => x \in S}

\* What HASH_FSCK looks for (uthash.h:519-562), which is compiled with
\* HASH_DEBUG only, and the tail, where the next item is appended: the list
\* and the buckets hold the same items, each in the bucket it is looked up in,
\* with the right counts, and the list is linked in both directions.
ListAndBucketsAgree ==
  /\ \A b \in DOMAIN tbl.buckets :
       /\ tbl.buckets[b].count = Cardinality(tbl.buckets[b].items)
       /\ \A k \in tbl.buckets[b].items : HASH_TO_BKT(k, tbl.num_buckets) = b
  /\ UNION {tbl.buckets[b].items : b \in DOMAIN tbl.buckets} = Items
  /\ tbl.num_items = Cardinality(Items)
  /\ Walk(head) = Items
  /\ \A k \in Items : hh[k].next # NULL => hh[hh[k].next].prev = k
  /\ head # NULL => /\ hh[head].prev = NULL
                    /\ tbl.tail \in Items /\ hh[tbl.tail].next = NULL

\* "It is better to let its chain length grow to a longer yet-still-bounded
\* value" (uthash.h:1088): until expansion is inhibited, a chain is shorter than
\* what makes its bucket expand, or else as short as that multiple of the ideal
\* length which the last expansion left it with.
ChainsBounded ==
  ~tbl.noexpand =>
    \A b \in DOMAIN tbl.buckets :
      LET bkt == tbl.buckets[b]
      IN  ~Full(bkt) \/ bkt.count <= (bkt.expand_mult + 1) * tbl.ideal_chain_maxlen

\* An iterator of the contract: an item, and those from the next one on.
AbstractItr == IF itr = NULL THEN [here |-> {}, rest |-> {}]
               ELSE [here |-> {itr}, rest |-> Walk(itr) \ {itr}]

Contract == INSTANCE ShimContract WITH table <- Items, itr <- AbstractItr

ContractStep ==
  \/ create_table /\ Contract!create_table
  \/ destroy_table /\ Contract!destroy_table
  \/ Idle /\ pc' # "idle" /\ Contract!release_itr
  \/ find /\ Contract!find(key)
  \/ insert /\ Contract!insert(key)
  \/ erase /\ Contract!erase(key)
  \/ begin_itr /\ Contract!begin_itr
  \/ increment_itr /\ Contract!increment_itr

\* The uthash shim is the table the benchmark expects: it finds what was
\* inserted and not erased since, and an iteration visits each key once.
ImplementsContract == Contract!TableInit /\ [][ContractStep]_vars
===============================================================================
