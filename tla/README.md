# A TLA+ model of the C/C++ hash tables benchmark

This directory holds a TLA+ model of the benchmark program in the repository: the driver that fills, probes and
empties hash tables and records measurements, the generation of its keys, the interface behind which every hash table
stands, the C tables that the repository adapts by more than a line of forwarding (khash, Verstable, stb_ds, uthash,
TommyDS), the driver composed with one of them, and the report that is written from the measurements. TLC checks small
instances; TLAPS proves every safety property checked of the driver, of the keys, of the five tables, of the driver's
block that erases on khash and of the report, for every configuration.

`PROJECT.json` lists for every definition the source lines it stands for, the runs, the findings, the hazards with the
properties that guard against them, and the theorems. All paths below are relative to the repository's root.

## 1. The system

The program is single-threaded. `main()` repeats all benchmarks `RUN_COUNT` times for every shim (a wrapper around one
hash table library) and every blueprint (key type, value type, hash function, comparison), then writes an HTML report
and a CSV file. Nothing runs concurrently, nothing is persisted and nothing is retried. What is hard is of another
kind: long sequences of legal table operations whose contract is implicit, state carried from one measured sequence to
the next, iterators read without a check, index arithmetic into shared flat vectors, and in-place algorithms in the
tables.

| Component | State | Operations | Interacts with |
|---|---|---|---|
| Benchmark driver (`main.cpp`, `config.h`) | loop counters, the vector of keys, the flat vectors of results, one table at a time | `main`, `benchmarks`, `benchmark` (four blocks, eight benchmarks), `results`, `shuffled_unique_key` | calls the shim; the report reads its results |
| Shim interface (the concepts of `main.cpp`) | a table and an iterator | `create_table`, `insert`, `erase`, `find`, `begin_itr`, `is_itr_valid`, `increment_itr`, `destroy_table` | promised by each shim, assumed by the driver |
| khash (`shims/khash`) | bucket array, two flag bits per bucket, four counters | `kh_init`, `kh_put`, `kh_get`, `kh_del`, `kh_resize`, `kh_destroy`, iteration | behind its shim |
| Verstable (`shims/verstable`) | bucket array, 16 bits of metadata per bucket (hash fragment, home flag, displacement of the next key), key count, mask | `insert`, `get`, `erase`, `erase_itr`, `first`, `next`, `reserve`, `shrink`, `clear`, `cleanup` | behind its shim |
| HTML report (`main.cpp`) | plot ids handed out on first use; in the document, checkboxes | `html_out` and what it calls | reads all results |
| CSV report (`main.cpp`) | none | `csv_out` | reads all results |
| Compile-time checks (`main.cpp:19-997`) | none | concepts and `static_assert`s | constrain the configuration, shims and blueprints |
| Blueprints | a string counter in one of them | `fill_unique_keys`, `hash_key`, `cmpr_keys` | called by the driver once, by the tables always |
| stb_ds (`shims/stb_ds_hm_sh`) | a dense array of pairs, a hash index over it with counts of used slots and tombstones | `hmput`, `hmgeti`, `hmdel`, `hmfree`, iteration by array index | behind its shim |
| uthash (`shims/uthash`) | items on two structures: buckets, and a doubly linked list in insertion order; the state of bucket expansion | `HASH_ADD`, `HASH_FIND`, `HASH_DELETE`, iteration along the list | behind its shim |
| TommyDS (`shims/tommyds_dyn`, `_hash`, `_lin`) | chains of nodes; for `lin` how far a split or merge of its buckets has come; an iterator of node and bucket | insert, search, remove, resize; the shims' own iterator | behind its shims |
| Other shims | none of their own | one-line forwarding | vendored or third-party containers |

What makes each of them correct, and where it is hard:

* **Driver.** A measurement claims "... with N keys in the table": each measured sequence has to start with exactly the
  first N keys, although the sequences before it, on the same table, inserted and erased. `erase_existing` erases 1000
  keys with wrap-around and restores them with a second loop; at the first point the table has only 500. Keys looked
  up as nonexisting must never have been inserted. `get_existing` and `iteration` read through iterators that nobody
  checks; `get_existing` calls `exit( 0 )` on a wrong key, and all results are gone. All runs of a benchmark share a
  flat vector, in which a wrong index overwrites a neighbour's measurement and nothing fails.
* **khash.** The rehash works in place: it takes elements in hand, puts them where they belong and goes on with the one
  that was there. Deleted buckets are tombstones, reused by insertions and cleared by a rehash; probe loops rely on
  room being left. Allocations may fail half-way through a resize.
* **Verstable.** A key that sits in another key's home bucket is evicted, and erasing one key moves another: each time a
  chain is cut and linked again, and an iteration may be under way. Links are displacements of 11 bits, so that a key
  may find no room in a table that is nearly empty; then the table must grow, and growing may fail in the same way.
* **stb_ds.** Erasing moves the array's last key into the hole, and the index slot that pointed there must follow.
  Tombstones stay in the index until it is rebuilt; searches end only at an empty slot, and nothing but two thresholds
  keeps one empty. Two hash codes are reserved.
* **uthash.** Every item is on a list and in a bucket, the table hangs on the first item and goes with the last; each
  case of an erasure takes another path. Buckets expand when a chain is too long, unless that has not helped twice.
* **TommyDS.** `lin` splits and merges its buckets a few at a time while keys come and go, and may turn round half-way:
  where a key is depends on how far it has come, and it must have finished before the next resize. The iterators are
  the shims' own code, and `find` makes ones that must continue where an iteration would.
* **Keys.** The driver takes distinct keys for granted. A string key is a counter with carry over its letters; a carry
  that goes wrong repeats a key, and lookups of nonexisting keys then hit.
* **Report.** Trimming has to reject outliers on both sides; the scale of a graph is chosen by the order in which CSS
  rules appear, for every choice of visible lines; a color is narrowed to eight bits; ids tie checkboxes to lines.

## 2. Modules

| Module | Models | Uses |
|---|---|---|
| `ShimContract` | what any shim promises: the abstract specification of a table | |
| `Benchmark` | the driver, on any table that keeps the contract | `ShimContract` |
| `UniqueKeys` | the generation of string keys and the shuffle | |
| `Khash` | khash and its shim, one rehash step at a time | refines `ShimContract` |
| `EraseOnKhash` | the `erase_existing` block calling khash | extends `Khash`, refines `Benchmark`'s block |
| `Verstable` | Verstable and its shim, one rehash step at a time | refines `ShimContract` |
| `StbDs` | stb_ds and its shim | refines `ShimContract` |
| `TommyDS` | the three chained tables of TommyDS and their shims | refines `ShimContract` |
| `Uthash` | uthash and its shim | refines `ShimContract` |
| `Report` | `html_out()` and the viewer of its document | |
| `Probing` | powers of two, the sizes of tables (khash, Verstable, stb_ds, TommyDS), and triangular numbers, the probe sequences of khash and stb_ds | |
| `Arithmetic` | lemmas about division, remainders and flat indices, powers of two and triangular probing; induction over the naturals | `Probing` |
| `BenchmarkProofs` | the theorems about `Benchmark` | `Benchmark`, `Arithmetic` |
| `UthashProofs` | the theorems about `Uthash` | `Uthash`, `Arithmetic` |
| `KhashProofs` | the theorems about `Khash` and `EraseOnKhash` | `EraseOnKhash`, `Arithmetic` |
| `StbDsProofs` | the theorems about `StbDs` | `StbDs`, `Arithmetic` |
| `TommyDSProofs` | the theorems about `TommyDS` | `TommyDS`, `Arithmetic` |
| `VerstableProofs` | the theorems about `Verstable` | `Verstable`, `Arithmetic` |
| `KeysReportProofs` | the theorems about what the measurements start from and end with: `UniqueKeys` and `Report` | `UniqueKeys`, `Report`, `Arithmetic` |
| `MCBenchmark`, `MCKhash`, `MCEraseOnKhash`, `MCVerstable`, `MCStbDs`, `MCTommyDS`, `MCUthash`, `MCReport` | constants for TLC | |

Definitions called `Fault_...` are broken variants of the definition after them (a dropped condition, an index off by
one, a forgotten reset). They are not part of any specification; substituting one shows that a property is able to
fail.

### ShimContract

A table is a set of keys: the driver only ever inserts default-constructed values (`value_type()`), so that two tables
with the same keys cannot be told apart. The iterator is the key it points at and the set of keys still before it,
so that the order of an iteration is left to the table. The meaning of the operations is that of the
`std_unordered_map` shim, whose container a standard defines. `insert` and `erase` leave the caller without an usable
iterator.

### Benchmark

`shuffled_unique_key< blueprint >( n )` returns the n-th element of one permutation of distinct keys, so a key is its
index. The vector has `KEY_COUNT + KEY_COUNT / KEY_COUNT_MEASUREMENT_INTERVAL * 1000` elements, the existing keys
first. That the keys are distinct is what the blueprints promise; it is assumed here, and checked and proved for the
blueprint of strings in `UniqueKeys`.

`CONFIGS` is the set of choices of `BENCHMARK_...` macros under consideration; `enabled`, the choice of a behavior, is
fixed by `Init`, so that one run covers several builds.

The state is where the program is (`run`, `shim`, `blueprint`, `bench`, `step`), the local counters of `benchmark()`
under the names they have there (`i`, `j`, `k`, `l`, and `begin` for `erase_keys_begin`), the cells of the result vectors
that were written, and the table. Each action is one table call with what follows up to the next one, or a branch:

| Code | Actions |
|---|---|
| the `#ifdef` around a block, its braces | `SkipBlock`, `EnterBlock`, `LeaveBlock`, `NextBlock` |
| `insert_nonexisting`, `reinsert_after_erasure` | `FillForReinsert`, `EraseForReinsert`, `StartReinsert`, `TimedInsert` |
| the outer insertion loop of the other two blocks | `GrowTable` |
| `erase_existing` | `StartErase`, `EraseExisting`, `RestoreErased` |
| the five sequences of the combined block | `SkipSequence`, `StartSequence`, `InsertExisting`, `EraseNonexisting`, `FindExisting`, `ReadExisting`, `GetNonexisting`, `StartIteration`, `IterateRead`, `IterateWrap` |
| the loops of `benchmarks()` and `main()`, the output | `NextBlueprint`, `NextShim`, `NextRun`, `OutputResults` |

The random number generator is a free choice over its whole range. Durations, the cache flush, the cool-down and the
`do_not_optimize` sums are left out. `OPS` stands for the literal 1000. The order in which the shims run is the order
of the slots, as in `main()`.

### UniqueKeys

`fill_unique_keys()` of the string blueprint, one letter at a time: `StoreKey` copies the counter into the vector,
`StepLetter` is an increment that stays within 'z', `CarryLetter` one that does not and goes on with the next letter,
`CarryOut` one that leaves the last letter, upon which the counter starts anew with 'a's. `ShuffleKey` is a step of
`std::shuffle`, which swaps an element with any at or before it. `overflowed` records that the counter has started
anew; the program has no such variable. A letter is its distance from 'a'. The specification is `KeysSpec`, from `KeysInit` and
`KeysNext`.

### Khash

The hash function is an arbitrary function to the naturals. The three arrays, the four counters and the local variables of `kh_resize`
are variables. `flags` names the two bits ("empty", "del", "live"); `Garbage` is what a bucket nobody has written to
holds. A value is named after the key it was stored with, which is how a value that went astray is recognised.

A call of `insert` starts with `insert(k)` and ends with `Put`; in between, `StartResize`, `RehashNext`, `Place` and
`FinishResize` are the steps of `kh_resize`: one per element that is taken in hand or put down. A probe loop is the first
step of the probe sequence at which the loop's condition fails (`StopStep`). The load factor is the shim's 0.875.
`kroundup32` is modelled by what it computes for the sizes below 2^31, the least power of two that is no smaller; a table
of 2^31 buckets is beyond the model. A power of two is a number that no odd number but 1 divides, since exponentiation
is not within the provers' reach. `hand` is the key and the value that the kick-out loop has in hand.

When an allocation fails `kh_resize` returns -1, `kh_put` sets its `ret` to -1 and returns `n_buckets`, and the shim,
which does not look at `ret`, stores a value past the end of the array (`shims/khash/shim.h:34-35`). What happens then
is undefined, and the model stops in `overrun`.

### EraseOnKhash

The composition: a driver's step that calls `insert()` waits until `Put` returns, and rehash steps happen in between.
The mapping to `Benchmark` takes the driver's counters as they are and the keys found in live buckets, in both
tables during a rehash and in hand, as the abstract table.

### Verstable

`table` is the struct: `mask`, `count`, `key` and `meta`, one metadatum per bucket with the fragment (`frag`), the flag for
a key in its home bucket (`first`) and the displacement of the next key of the chain (`next`, the limit in the last one).
`insert_raw`, `evict` and `erase_itr_raw` are functions of a table, as in the code, since a rehash inserts into a
table of its own. The loops along a chain are `WalkTo`: the first bucket on it at which the loop's condition holds. `Walk` has no
more steps than there are displacements, which no chain outlasts; were a chain broken, `WalkTo` would find no such bucket and TLC
would report it. That it always finds one is proved (`WalkToIs`, section 4).

`insert(k)` starts a call and `TryInsert` is one turn of its loop; `StartRehash`, `Reinsert` (one bucket) and `FinishRehash`
are the steps of `_rehash`, which `reserve` and `shrink` start too. `FailRehash` is the allocation that returns NULL;
`NoMemoryFor` says in which calls it may. What an emptied bucket still holds is not read again, and is `Garbage`. An
iterator is a bucket and, if the iterator records it, the home bucket of its key. Values are left out, because they move
with their keys in one assignment; so `_get_or_insert` is `_insert` here. The scan of four metadata at a time
(`_fast_forward`) is modelled by what it finds.

### StbDs

`array` holds the keys behind the default element, `index` the hash index with its slots and counters. A call is
started by `call(op, k)` and performed by `find`, `insert` or `erase` in one step: nothing happens in between, and no
loop of stb_ds calls back. `Probe(n, h, p)` is the p-th slot that a search looks at, so that a search is the first
probe that finds what ends it; `Terminates` says whether there is one. `make_hash_index` copies the slots in use one by
one (`Copy`), as the code does, into an index of the same size, twice or half of it. `Tidied` is the shrinking and rebuilding at
the end of `stbds_hmdel_key`. The hash codes 0 and 1 stand for empty and deleted slots, and `hash` moves keys that have
them to 2 and 3. The thresholds are those the benchmark changed (`stb_ds_modified.h:918-938`).

### TommyDS

One module for the three tables, which differ in when and how far they resize: `kind` says which it is. `SplitTo` and
`MergeTo` are what the loops of `hashlin_grow_step` and `hashlin_shrink_step` do in one call, and with all buckets at
once they are `tommy_hashdyn_resize`. `bucket_ref` is `tommy_hashlin_bucket_ref`; a bucket that is allocated but not
yet split into holds `Unset`. The chains are sequences of keys, as iteration goes through them in order, and `Kept` is
what is left of one that a loop takes keys out of. `advance` is
`Iterator::advance` of the shims, and `FoundItr` the one place where `tommyds_dyn` differs from the other two.

### Uthash

`hh` holds the `prev` and `next` of each item, `tbl` the table with its buckets. Where an item is in its bucket's chain
decides nothing, so a chain is a set with its `count` and `expand_mult`. `AddedTo` is `HASH_ADD_TO_BKT` with
`HASH_EXPAND_BUCKETS` where it applies, `ExpandMult` what the counting in its loop comes to; `IneffExpands` decides on
the inhibition. `InsertFirst`, `InsertAnother`, `EraseLast` and `EraseOther` are the branches of the macros, for a table
that is made with its first item and freed with its last. `Walk(k)` is the part of the list from k on, as the least set
that is closed under `next`.

### Report

Each plot (graph and shim) has any of a few vectors of measurements. `graph_out` hands out plot ids and sorts the
scaling rules; `heatmap_row_out` colors a row; `Toggle` is a click of the document's viewer. An average is represented by its
sum, since all have the same divisor. `Sorted` is `std::sort` by what it yields, `Accumulated` `std::accumulate`. Ties under `std::sort` are broken in every way. The conversion of a NaN to
`uint8_t`, which is undefined, yields any of `NaNColors`. That the last matching CSS rule wins (`AppliedRule`) is the
browser's part.

## 3. Runs

| Run | Configuration | Shows |
|---|---|---|
| `driver` | `MCBenchmark.cfg` | all eight benchmarks, and two smaller choices of macros that skip blocks and sequences; two shims, two blueprints, two runs |
| `khash` | `MCKhash.cfg` | khash's invariants, that a rehash comes to an end, `ShimContract`; allocations may fail |
| `erase_on_khash` | `MCEraseOnKhash.cfg` | the block on khash implements the block on an ideal table, and ends |
| `verstable` | `MCVerstable.cfg` | chains, iteration with erasure, `ShimContract`, calls return; `reserve` and `shrink` may fail |
| `verstable_memory` | `MCVerstableMemory.cfg` | a defect, see section 5 |
| `stb_ds` | `MCStbDs.cfg` | index and array agree through growth, shrinking and rebuilding; `ShimContract` |
| `stb_ds_full` | `MCStbDsFull.cfg` | a defect, see section 5 |
| `tommy` | `MCTommyDS.cfg` | keys are found while buckets split and merge, which ends in time; `ShimContract` |
| `tommy_dyn` | `MCTommyDSFound.cfg` | a disagreement with a comment, see section 5 |
| `uthash` | `MCUthash.cfg` | list and buckets agree, chains stay bounded; `ShimContract` |
| `unique_keys` | `MCUniqueKeys.cfg` | keys are distinct, and the counter runs through all strings |
| `report` | `MCReport.cfg` | averages, scaling, ids and colors |

**Properties of the driver.** `MeasuredWithNKeys`, `ReinsertLeavesOneKey` and `EraseExistingHits` say what is in the table
when a sequence is measured. `NonexistingNotFound` and `ReadsAreValid` say what lookups find. `ResultsComplete` and `EachCellOnce` say that every measurement has a cell of its own and none is missing;
`Termination` says that the program ends by writing its report.

**Properties of khash.** `CountersAreRight` ties `size` and `n_occupied`, which decide every resize, to what the
buckets hold, also in mid-rehash; `PairsStayTogether` says that no key is twice in the table and no value leaves its key;
`RoomWhenInserting` that the loops without a bound always have a free bucket before them, and `RehashAdvances` that the
kick-out loop comes to an end, by a measure of what a rehash has left to do. `ImplementsContract` states the whole:
that lookups find what is there, past tombstones and after every resize.

**Properties of Verstable.** `ChainsIntact` says that every key is on the chain of its home bucket, with its own fragment, and
that chains end, are ordered and hold no empty bucket, also in the table a rehash is building. `IterationResumes` is what makes erasing while iterating safe: no
key is skipped or met twice although another key moves. `ImplementsContract` and `CallReturns` state the whole.

**Properties of stb_ds.** `IndexFollowsArray`: the slots in use point at the array's keys, one each, with their codes; the
counters that decide on growth and rebuilding are right, and an empty slot is left for searches to end at.

**Properties of TommyDS.** `EveryKeyInItsBucket`: however far a split or merge has come, each key is where a lookup goes
and where an iteration comes by. `ReallocatedInTime`: an incremental resize is finished before the next one is due,
which the code takes for granted (`tommyhashlin.c:122`, 212).

**Properties of uthash.** `ListAndBucketsAgree` is what `HASH_FSCK` looks for in debug builds: both structures hold the same
items, linked in both directions and counted right; and the tail is the last item. `ChainsBounded` is what bucket
expansion is for.

**Properties of the keys.** `DistinctKeys`, and `OverflowsLast`: the counter misses no string before it starts anew, so that
there are as many keys as strings.

The tables implement `ShimContract` operation by operation: a step of `find(k)` is a step of the contract's `find(k)`, the step
that completes an insertion is the contract's `insert`, and the steps in between change nothing that the contract
sees but the iterator, which they invalidate. `erase_itr` and `clear` have no counterpart there; `IterationResumes`
and the invariants are about them.

**Properties of the report.** `OutliersDiscarded`: as many wrong runs as are dropped on one side never move an average
out of the range of the others. `VisiblePlotsFit`: under every choice of checkboxes the applied scale is the one that fits
the visible lines. `HeatmapRanks`: a cell never looks faster than one with a smaller ratio to its row's fastest.
`TogglesOnePlot`: a checkbox hides its own line only.

### Bounds

* `driver`: 6 keys, a point every 2, sequences of 4. The ratio of 4 to 2 is that of 1000 to 500 in `config.h`: at the first
  point a sequence wraps around completely, at the second it is as long as the table, at the third shorter. Two runs,
  shims and blueprints make the flat indices of different runs meet. Three configurations: all benchmarks; three, so
  that blocks and sequences are skipped; one block alone.
* `khash`: two of four keys share a home bucket in tables of 4 and 8 buckets, one has its home on their way. Tables
  have 0, 4 and 8 buckets, the smallest full; tombstones make same-size rehashes happen, as well as doublings, and
  every allocation may fail. Four keys of which two collide and one is in the way kick each other out in both kinds of
  rehash.
* `erase_on_khash`: 6 keys whose homes cluster; the table grows 4, 8 and, when tombstones pile up, 16.
* `verstable`: the displacement limit is 3 instead of 2047 (`VT_DISPLACEMENT_MASK`), so that a chain holds three keys and is filled by
  the three that share a home; a fourth, or one to be evicted from such a chain, finds no room among 8 buckets far below the
  load factor. Two more keys have their homes where members of that chain are displaced to. Tables have 0, 8 and 16
  buckets; the homes include the last bucket, so that chains wrap around. Two fragments make fragments collide
  for different keys and differ for others.
* `stb_ds`: buckets of 4 slots, as the source has with `STBDS_INTERNAL_SMALL_BUCKET`, so that five keys suffice for
  probes that leave a bucket, for growth to 8 slots, for tombstones that are reused and cleared, and for shrinking. Five
  keys cannot fill an index of that size. `stb_ds_full` has the 8 slots that are compiled in, and eight keys.
* `tommy`: tables start with two buckets. Six keys, three of which share buckets at most sizes, are inserted and erased in any
  order; nineteen are inserted and erased in order, as a stack, which takes `lin` through several splits and merges and
  back from the middle of each. A free choice among nineteen keys would be beyond TLC.
* `uthash`: one bucket at first, which the second item expands; six keys of which four have one code, so that two
  expansions in a row are of no use and the third is inhibited. The four keys of one code are interchangeable in Hash, and
  no operation depends on a key but for its code: symmetry.
* `unique_keys`: as many keys as there are strings, 2^3: every carry occurs, and the overflow comes after the last key.
* `report`: two graphs of two lines with two points, one with a total that is the sum of its points and one without; four
  runs of which two are discarded; measurements with one outlier, with two and zeros, and of zero.

Nothing counts without bound: the tables' counters are bounded by the number of keys and buckets, and all loops of the
driver by the constants. Deadlock is checked everywhere but in `stb_ds_full`, where a search that never ends is a state
without a step; where a program stops there is a step that says so (`Stopped`, `Ready`, `Left`, `Overrun`).

### Fairness

`Benchmark` and `EraseOnKhash` assume weak fairness of their whole next-state relation: a single-threaded program that
never waits for anything goes on. `Verstable` assumes it of the steps inside a call only, because whether another
operation is called is the caller's choice; it does not assume it of `FailRehash`, so that a call must also return
when memory never runs out. The other tables assume none: `Khash` states the end of its rehash as an action property
(`RehashAdvances`), and the operations of the others are single steps. Nothing is assumed about which random numbers are
drawn.

## 4. Proofs

`BenchmarkProofs` proves, from the assumption `Config` alone (positive constants, `KEY_COUNT` a multiple of
`KEY_COUNT_MEASUREMENT_INTERVAL`, as `main.cpp:19` asserts; any subset of the benchmarks, any sequence length, shorter or
longer than the interval):

| Theorem | Property |
|---|---|
| `TypeCorrect` | `TypeOK`: indices of keys and result cells are in range |
| `Measured` | `MeasuredWithNKeys` |
| `NonexistingAbsent` | `NonexistingNeverInserted`, which no run repeats |
| `NonexistingFindsNothing` | `NonexistingNotFound`, an action property |
| `ValidReads` | `ReadsAreValid`, and with it that `exit( 0 )` is never reached |
| `ReinsertLeftover` | `ReinsertLeavesOneKey` |
| `EraseHits` | `EraseExistingHits` |
| `OwnCell` | `EachCellOnce`, an action property |
| `AllWritten` | `ResultsComplete` |

None of these is inductive. That the table holds the first `i` keys when a sequence is measured depends on
what it held at every step of the sweep and of the restore before it. The inductive invariant `Inv` therefore has, besides
`TypeOK`, four parts: `Control` (which steps belong to which benchmark), `Counters` (the ranges of the loop
counters at each step), `Contents` and `Iterator`. The heart is `Contents` for `erase_existing`. With
`Stretch(b, n, i)` the n positions from b on a circle of i keys, the table of a sweep after k erasures is
`Existing(i) \ Stretch(begin, k, i)`, that of a restore is `Existing(i) \ (Stretch(begin, OPS, i) \ Stretch(begin, k, i))`,
and l is `(begin + k) % i` in both. When k reaches `OPS` in the second loop the table is whole, whether or not the stretch has
wrapped around, any number of times. `StretchGrows` and `StretchFresh` are the lemmas this rests on; they and the flat index
of the results rest on the lemmas of `Arithmetic`, which derive what is needed of `%` and `\div` by a variable. `Inv`
was checked with TLC on the instance of `driver` before it was proved.

`InvStep`, that every action preserves `Inv`, has one step per action, and one per conjunct under the longer ones.

The two theorems about the results add `Progress`. `Written` says that the written cells are exactly those the loops have passed
(`Before` for the loops of `main()`, `Passed` for the blocks and sequences of the current one), and `Aligned` that the
insertions behind the current interval are `INTERVAL * Filled`, so that `i / INTERVAL - 1` is the number of the point. Passing
a point and writing its cell must be the same step (`Quiet`, `Recorded`), and two points with one address in the flat vector
would be one point, since quotient and remainder are unique (`DivModUnique`). When the results are read every
point is passed, and every address is that of a point (`FlatSplit`). `Aligned` and `Written` were checked with TLC first.

### The keys

`KeysReportProofs` proves `TypeOK`, `OverflowsLast` and `DistinctKeys` for every number of keys, letters and places, from two
assumptions: the numbers are positive, and there are no more keys than strings (`EnoughStrings`; the benchmark has
26^15). The strings are ordered by their last letters (`Before`). While keys are generated, they ascend, and the counter is
ahead of them all (`Ascending`, `CounterAhead`); in the middle of a carry the counter differs from the last key in the
letters that were reset (`Carried`). That alone makes keys distinct as long as the counter has not overflowed. That it
does not overflow early needs the converse, `Covered`: every string before the counter is stored. `StepCovers` is its heart:
a string before the incremented counter is the last key or before it, since the letters that were reset were all 'z'.
When the carry leaves the last letter every string is stored, so there were at least as many keys as strings. The shuffle is
a permutation.

### uthash

`UthashProofs` proves `TypeOK`, `ListAndBucketsAgree`, `ChainsBounded` and `ImplementsContract` for every set of keys, every hash
function, every initial number of buckets and every threshold. The inductive invariant `IInv` has three parts:

* `Holds`: the buckets of a table hold a given set of items, each in the bucket of its code, and all counts are right.
  Expansion keeps it by `ModTwice`: a code modulo 2n is in bucket n or n further on.
* `Bounded`, for the chains. That a bucket which has just been expanded satisfies it is a fact about the loop that
  computes `expand_mult`, which is recursive; `ExpandMultBounds` proves it by `NatSetInduction`, induction for a set rather
  than a predicate, which is within the provers' reach.
* `InList`: the links run both ways from `head` to `tail`, and every set that contains `head` and is closed under `next`
  contains all items. Reachability as closed sets needs no induction to maintain: from a closed set of the
  list with an item added or removed, one of the list before is made (`AppendInList`, `RemoveInList`).

The refinement follows from `IInv` and a few facts about `Walk`, one lemma per operation.

### khash

`KhashProofs` proves every property that `khash` checks, for every set of keys (finite or not; a table only ever holds
finitely many), every hash function and with or without failing allocations. It rests on these lemmas:

* `TriangleDistinct` (in `Arithmetic`): in a table of n buckets, n a power of two, the first n steps of a probe sequence see
  n different buckets. If steps t < u saw the same one, 2n would divide (u - t)(u + t + 1). One of the factors is odd, so 2n
  divides the other (`OddFactor`), which is positive and less than 2n. `TriangleCovers` follows by counting, and
  `ProbeReturns` says that a probe is back at its first bucket after at most 2n - 1 steps.
* `Requested`: the size kh_put asks for is never refused by kh_resize as too small, so that a full table does grow.
  Next to a power of two there is none below its double (`NextPower`).

The invariant `IInv` has six parts: `TypeOK`; `Control`, what kh_put has made sure of at each step of a call, above all
that it has fewer occupied buckets than the limit when it starts to probe; `Rehashing`, that the new table has room for all
elements and that the old one holds none before `j`; `CountersAreRight`; `Pairs`; and `Reach`: between the home of a
key and its bucket no bucket is free, in the table that is in use, and during a rehash in the one being filled. `Reach` is
what makes lookups right, and it is why a deleted bucket must not become a free one. `Found`, `NotFound` and `Fresh` derive
from it what kh_get and kh_put do. There is one lemma per action that says what it leaves of `IInv`, of the keys in the
table and of the work of a rehash; theorems and refinement are put together from these.

### erase_existing on khash

`BlockImplements`, also in `KhashProofs`, is `ImplementsBlock` for positive constants and under the hypothesis `DriversKeys`: keys are
numbered from 0, and no allocation fails. The theorems about `Khash` do not use this hypothesis. To the invariant of khash it adds `Driver`: which call is under way at which of the driver's steps
and on which key, and that the key is one of those inserted so far. Each step of a rehash maps to a stutter of the
block of `Benchmark`, each return of a call to its step. With the theorems of `BenchmarkProofs` about that block this says
what a sweep on khash finds.

### stb_ds

`StbDsProofs` proves `TypeOK`, `IndexFollowsArray` and `ImplementsContract`, all that `stb_ds` checks, for every set of keys,
every hash function and buckets of 4 or 8 slots. The invariant `IInv` says:

* `Control`: which call is under way, where the iterator is, and that a table that was never allocated is empty.
* `Distinct`: no key is in the array twice.
* `IndexOf`: the slots in use point at all places of the array, each place from one slot and with the hash of its key; the
  counters are right; and `Reached`: a search for the hash of a slot in use comes to this slot before it comes to an empty one.
  `Reached` is what makes lookups right, it is why an erasure leaves a tombstone, and it survives an insertion into
  a tombstone because the search there has not passed an empty slot either (`NewSlotIs`).
* `WithinThresholds`: between two calls neither counter is above its threshold. Growing before an insertion
  then leaves fewer than 14/16 of the slots in use, so that together with at most 2/16 of tombstones at least one
  slot is empty (`EmptyLeft`): hmput always finds a slot, which is why `insert` has no `Terminates` in its guard. The sums
  do not leave one between calls; section 5 says what comes of it.

`ProbeCovers` says that the probe sequence, which takes whole buckets and wraps around within each, looks at every slot: it
comes to every bucket by `TriangleCovers`, as the number of buckets is a power of two, and within a bucket to every
slot. `make_hash_index` is a recursive function; that it exists (`CopiedExists`) and what it computes (`RebuiltIs`) are shown
by `NatSetInduction`, with `CopyKeeps` for one round of the loop. Each round has an empty slot to go to because the
slots in use point at different places of an array shorter than the index (`RoomToCopy`). There is one lemma for each of
`find`, `insert` and `erase` (`FindStep`, `InsertStep`, `EraseStep`), from which both the invariance and the refinement
follow; the iterator's refinement is about an index into the array alone (`ItrAt`).

### TommyDS

`TommyDSProofs` proves `TypeOK`, `EveryKeyInItsBucket`, `ReallocatedInTime` and `ImplementsContract`, all that `tommy` checks,
for the three kinds of table, every set of keys, every hash function, every initial number of buckets that is a power of two, and
callers that come and go with their keys in any order. The invariant `IInv` says, besides `Control`:

* `Placed`: the buckets in use hold chains of keys, no key twice, each key in the bucket that `bucket_ref` leads to; the others
  are `Unset`, and `count` is the number of keys. A step of the reallocation keeps it (`SplitIs`, `MergeIs`) for one
  reason, `RefsMove`: when the low buckets s to n - 1 are split, the keys whose bucket changes are those with the
  next bit of their hash code set, and their bucket is m further on, where no other keys are.
* `Pace`: how far the reallocation has come. A growing table of c keys has 2c <= `low_max` + `split`, a shrinking one 8c >=
  `low_max` + `split`. This is what makes `ReallocatedInTime` inductive: the bound on a growing table with all its buckets
  split is that of a stable one. The target of a step puts the split where the new count demands it, whichever way the
  table was going before. `GrowingIs` and `ShrinkingIs` are the transitions of the state, before any bucket is moved.
* `ItrRight`: an iterator at a key stands before the bucket behind the key's own, or, one that `tommyds_dyn`'s `find()`
  made, before its own.

A split filters a chain by `Kept`, a recursive function, whose existence and result (the keys in the set, each once)
are shown by `NatSetInduction` (`KeptExists`, `KeptIs`). `AdvanceIs` is the iteration: what is left to it is the rest of
the chain and of the buckets behind (`LeftIs`, `AheadIs`), and `advance` takes one key of that. The refinement holds for
every iterator but the one of section 5; `PassedIs` separates the two.

### Verstable

`VerstableProofs` proves `TypeOK`, `ChainsIntact`, `IterationResumes` and `ImplementsContract`, every safety property that
`verstable` checks, for every set of keys, every hash function and fragments, every displacement limit from 2 on, all sizes that
`reserve` may be asked for, and with or without failing allocations in `reserve` and `shrink`. The theorems have one
hypothesis, `InsertHasMemory`: the allocation of a rehash that an insertion sets off succeeds. It cannot be dropped. Without
it `ChainsIntact` is false, which is the finding of `verstable_memory` (section 5). The instance of `verstable` satisfies it.

`ChainsIntact` is not inductive. It says where a chain leads, and an operation on a chain has to know that
the bucket it looks for is on it and that those behind are the later ones. The invariant `IInv` therefore numbers the chains. It has four
parts:

* `TypeOK`, with the iterator at a key or at the end.
* `Calls`: what the steps of a call leave behind, above all that `bucket_count` is a power of two of at least 8, and that no iterator
  survives the beginning of a call.
* `Tables`: both tables are `Stored` (no key in two buckets, all counted), whatever has become of their chains. `table` is `Linked` between
  calls and at each attempt of an insertion, but not while a rehash replaces a table from which an eviction has taken a
  key: `Reinsert` reads buckets, not chains. The table being built is `Linked` and holds exactly the keys of the buckets before
  `bucket`, or the loop has broken off with fewer keys than the old one (`Reinserted`). The comparison of counts in `FinishRehash`
  tells these apart, so that a truncated table is never installed (`FinishIs`).
* `ItrRight`: the home bucket that an iterator remembers is that of its key.

`Linked(t)` says that there is a function D from buckets to displacements that threads the keys (`Threaded`): a key b is at
displacement D[b] from its home, which is in the chain at displacement 0; its metadatum has the right flag and
fragment, and points at the next larger displacement in the chain, or at none if there is none. D is not a variable: it is quantified,
since a bucket may be at several displacements from a home, and each operation says what becomes of it:

| Lemma | Operation | Chains |
|---|---|---|
| `JoinThreaded` | `Joined`, in insertions and evictions | a bucket joins the chain between the one `insert_location` stops at and its successor |
| `CutThreaded` | the first half of `evict`, `Detached` | a bucket leaves, its predecessor points at its successor |
| `HomeThreaded`, `AloneThreaded` | `InsertAtHome`, erasing the only key | a chain of one key begins or ends |
| `MoveThreaded` | `MoveTo` | the last key of a chain takes the place of another, all links stay |

A loop along a chain comes from a bucket to every later one of its chain and passes only those in between (`WalkVisits`, by `NatSetInduction`
over the loop's turns); from it `WalkToIs` gives the result of every loop that is a `WalkTo`: `GetIs` says that
lookups are right, `BeforeIs` and `InsertLocationIs` that chains are relinked in the right place. `EvictIs`,
`InsertIs`, `EraseRawIs` and `ErasesIs` sum up the operations of a table, failed attempts included: an attempt that fails
leaves every key in its bucket (`AttemptStored`). There is one lemma per action for the invariant. `IterationResumes` is `EraseItrIs`: if the last key of the
chain comes from a bucket ahead of the iterator's, it has not been seen yet and the iterator stays; otherwise it was seen and the iterator
goes on. The refinement has one lemma per operation of the contract, and `InBetweenImplements` for the steps that change no key.

### The report

`KeysReportProofs` proves all that `report` checks, for every number of runs, points, graphs and shims and every measurement, from
`ReportAssumption`. `IdInv` says that the ids given out are below the counter and distinct, and that every graph that is out
has one for each shim; from it follows `TogglesOnePlot`. With `Ruled` and `Colored`, which say what the rules and the
rows put out so far are, it makes the invariant `IInv`.

* `OutliersDiscarded` is a fact about numbers (`OutliersIs`). The n-th of the sorted durations has n not above it and fewer than n
  below it; so if no more than `Trim` runs went wrong, each place that is kept has one that went right at or below it and
  one at or above it (`OthersAround`, two sets that together are larger than all runs). `SumBounds` is the sum, by
  `NatSetInduction`.
* `VisiblePlotsFit`: a graph's rules list each of its plots, as they are distinct and as many (`RulesListAll`), and neighbors
  in order make all in order (`Ascends`). So no visible plot is above that of the last rule that matches.
* `HeatmapRanks`: from t / l <= u / k follows the order of the colors although they are quotients cut off and rounded down
  (`DarkerIs`), since otherwise (y + 1) * 9lk <= 255(t - l)k <= 255(u - k)l < (y + 1) * 9lk for the second color y.

**Only model-checked:** liveness (`Termination`, `CallReturns`, `BlockEnds`), which the prover does not
reach. Every invariant and action property that a passing run checks is proved.

## 5. Disagreements between code and comments

Three have a run that exhibits them, which expects a violation:

* `verstable.h:327` says that `NAME_get` returns an iterator to the specified key unless there is no such key. `_evict` takes the key
  out of its chain before it knows whether it can move it. When it cannot, and the rehash that `_insert` then attempts
  gets no memory, the key stays in its bucket, counted and met by iterations, and no lookup finds it (`KeysAreFound`).
  It needs a chain at the displacement limit and a failing allocation at once; this is why `verstable` lets `reserve` and `shrink`
  fail but not `insert`.
* `stb_ds_modified.h:939` says that at least one slot of the index must be empty for probes to end, and an assertion says
  so of the thresholds. For the benchmark the thresholds for keys and for tombstones were set to 14/16 and 2/16 of the
  slots, which add up to all of them. With the first index of 8 slots, seven keys and a tombstone leave no slot
  empty, and the search for a missing key does not end (`SlotLeft`). Compiled from this source, a program that
  inserts seven keys, erases one, inserts an eighth and looks up the erased one hangs. Every index size has
  that sum; the larger the index is, the less likely are insertions that use up its last empty slots while the
  tombstones stay.
* `tommyds_dyn/shim.h:97` says that an iterator goes on to subsequent buckets when its chain is exhausted. One that
  `find()` returned goes to its own bucket first, and starts the chain again (`ScansSubsequentBuckets`). The
  iteration benchmark starts with such an iterator. `ImplementsContract` of `tommy` excepts it.

Others need no run, or the comparison of two lines:

* `benchmark_names` promises "Time to erase 1,000 existing keys"; at 500 keys in the table half of the measured
  erasures ask for a key that is no longer there (`main.cpp:1199`).
* `benchmark_names` promises "Time to iterate over 5,000 keys" (`main.cpp:1040`); the loop ends after 1000
  (`main.cpp:1395`), as every other sequence does.
* `README.md:130` says that `begin_itr()` returns an iterator to the first key; the khash shim returns bucket 0, which may
  be unused. This is why `ImplementsContract` of `khash` excepts `begin_itr`.
* `main.cpp:1209-1211` says that re-inserting the erased keys replaces all tombstones; in khash it need not, because an
  insertion may come to a bucket that was never used first.
* `main.cpp:2084` says that `INSERT_NONEXISTING` is the only benchmark whose total is not the sum of its points;
  `reinsert_after_erasure` is another.

## 6. Not modelled

* Durations and everything that only affects them; layout, fonts and wording of the report; the CSV report, which prints
  in fixed loops and keeps no state.
* The compile-time checks, which have no run. Those of the configuration are assumptions here.
* Parts of khash the shim does not use: `kh_clear`, sets, string hashes.
* What happens after the store past the end when khash runs out of memory.
* Verstable's `_init_clone` and its calls of key and value destructors.
* stb_ds's dynamic arrays, string arena and string modes; uthash's `HASH_SORT`, `HASH_SELECT`, ordered additions and Bloom
  filter; TommyDS's lists, tries and trees: no shim uses them.
* The integer blueprints, which number their keys with `std::iota`. The hash functions of the blueprints, which any
  function stands for.
* Forwarding shims, whose tables are vendored or third-party; `ShimContract` says what is expected of them. Shims that no
  slot of `config.h` names are left out as well. These libraries are most of the lines of the repository (Boost, M*LIB, CC,
  cwisstable, fph, robin-map and others, some forty files of thousands of lines, as well as LLVM, folly and their like
  under `third_party`), and none of them is this program's own code; a model of a few of their lines would
  say nothing about them, and a model of all is out of proportion.

## 7. Plan

Done, in order: the contract and the driver, its proofs, khash, the composition, the report, Verstable, stb_ds, TommyDS,
the keys and their proofs, uthash and its proofs, the proofs of khash and of the composition, of the driver's results, of
the report, those of stb_ds and TommyDS, and those of Verstable.

Left is what the prover does not reach, the liveness of `Benchmark`, `EraseOnKhash` and `Verstable`. That Verstable's insertions return
is not true of every hash function: with more keys of one hash code than there are displacements, its table would grow until
no memory is left. So `CallReturns` is a statement about the keys of `verstable`, and a theorem would need a hypothesis about `Hash`.
