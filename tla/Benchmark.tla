------------------------------ MODULE Benchmark ------------------------------
(***************************************************************************)
(* The benchmark driver (main.cpp): main() repeats every benchmark         *)
(* RUN_COUNT times for every shim and every blueprint; benchmark() runs    *)
(* four blocks on a fresh table each and records one measurement every     *)
(* INTERVAL insertions.                                                    *)
(*                                                                         *)
(* shuffled_unique_key() hands out the same permutation of distinct keys   *)
(* for the whole program, so a key is identified with its index: indices   *)
(* below KEY_COUNT are inserted at some time, the others never are.  The   *)
(* table is the one any shim promises (ShimContract).  What a measurement  *)
(* says (a duration) is left out; where it is stored is kept.              *)
(*                                                                         *)
(* A definition named Fault_... is a broken variant of the one it stands   *)
(* before; only the mutation checks use it.                                *)
(***************************************************************************)
EXTENDS Integers

CONSTANTS KEY_COUNT,   \* config.h:6
          INTERVAL,    \* KEY_COUNT_MEASUREMENT_INTERVAL, config.h:10
          OPS,         \* the literal 1000: operations per measured sequence
          RUN_COUNT,   \* config.h:13
          SHIMS,       \* number of occupied shim slots
          BLUEPRINTS,  \* number of occupied blueprint slots
          CONFIGS      \* the sets of BENCHMARK_* macros to consider

Blocks == {"insert_nonexisting", "reinsert_after_erasure", "erase_existing",
           "combined"}
SequenceIds == {"insert_existing", "erase_nonexisting", "get_existing",
               "get_nonexisting", "iteration"}
BenchmarkIds == (Blocks \ {"combined"}) \cup SequenceIds

ConfigAssumption ==
  /\ KEY_COUNT \in Nat \ {0} /\ INTERVAL \in Nat \ {0} /\ OPS \in Nat \ {0}
  /\ RUN_COUNT \in Nat \ {0} /\ SHIMS \in Nat \ {0} /\ BLUEPRINTS \in Nat \ {0}
  /\ CONFIGS \subseteq SUBSET BenchmarkIds
  /\ KEY_COUNT % INTERVAL = 0

ASSUME Config == ConfigAssumption

Points == KEY_COUNT \div INTERVAL
NonexistingEnd == KEY_COUNT + Points * OPS

\* The index range of the vector behind shuffled_unique_key().
KeyIndices == 0 .. NonexistingEnd - 1
Existing(n) == 0 .. n - 1
Nonexisting == KEY_COUNT .. NonexistingEnd - 1

VARIABLES enabled,                 \* the macros that are defined
          run, shim, blueprint,    \* loop positions of main() and benchmarks()
          bench, step,             \* the block or sequence, and where in it
          i, j, k, l, begin,       \* its counters; begin is erase_keys_begin
          results,                 \* the cells of results() that were written
          made, table, itr         \* the shim's table

vars == <<enabled, run, shim, blueprint, bench, step, i, j, k, l, begin,
          results, made, table, itr>>

T == INSTANCE ShimContract WITH Keys <- KeyIndices

slot == <<run, shim, blueprint>>
tvars == <<made, table, itr>>

(***************************************************************************)
(* results< shim, blueprint, id >( run, point ): the cell and its address  *)
(* in the flat vector.                                                     *)
(***************************************************************************)
Fault_CellWithoutRun(id, point) == <<shim, blueprint, id, point>>
Fault_CellRunsOverlap(id, point) == <<shim, blueprint, id, run + point>>
Cell(id, point) == <<shim, blueprint, id, run * Points + point>>
AllCells == {<<s, b, id, a>> :
               s \in 1 .. SHIMS, b \in 1 .. BLUEPRINTS, id \in enabled,
               a \in 0 .. RUN_COUNT * Points - 1}

Record(id, point) == results' = results \cup {Cell(id, point)}

Fault_ResultIndexFromOne == i \div INTERVAL
result_index == i \div INTERVAL - 1

Init == /\ enabled \in CONFIGS
        /\ run = 0 /\ shim = 1 /\ blueprint = 1
        /\ bench = "insert_nonexisting" /\ step = "enter"
        /\ i = 0 /\ j = 0 /\ k = 0 /\ l = 0 /\ begin = 0
        /\ results = {}
        /\ T!TableInit

-----------------------------------------------------------------------------
(* Blocks: the #ifdef around a block, its table, and its outer loop.       *)

Defined == IF bench = "combined" THEN enabled \cap SequenceIds # {}
                                 ELSE bench \in enabled

SkipBlock == /\ step = "enter" /\ ~Defined
             /\ step' = "next"
             /\ UNCHANGED <<slot, bench, i, j, k, l, begin, results, tvars>>

EnterBlock == /\ step = "enter" /\ Defined
              /\ T!create_table
              /\ step' = IF bench = "reinsert_after_erasure" THEN "fill"
                                                             ELSE "insert"
              /\ i' = 0 /\ j' = 0 /\ k' = 0
              /\ UNCHANGED <<slot, bench, l, begin, results>>

LeaveBlock == /\ step = "insert" /\ i = KEY_COUNT
              /\ T!destroy_table
              /\ step' = "next"
              /\ UNCHANGED <<slot, bench, i, j, k, l, begin, results>>

Following == [insert_nonexisting     |-> "reinsert_after_erasure",
              reinsert_after_erasure |-> "erase_existing",
              erase_existing         |-> "combined"]

NextBlock == /\ step = "next" /\ bench # "combined"
             /\ bench' = Following[bench] /\ step' = "enter"
             /\ UNCHANGED <<slot, i, j, k, l, begin, results, tvars>>

-----------------------------------------------------------------------------
(* The timed loops of insert_nonexisting and reinsert_after_erasure.       *)

\* Before the timed loop, reinsert_after_erasure fills the table ...
FillForReinsert ==
  /\ step = "fill"
  /\ T!insert(k)
  /\ IF k + 1 < KEY_COUNT THEN k' = k + 1 /\ UNCHANGED step
                          ELSE k' = 0 /\ step' = "wipe"
  /\ UNCHANGED <<slot, bench, i, j, l, begin, results>>

\* ... and erases all but the last key.
Fault_EraseAll == KEY_COUNT
EraseCount == KEY_COUNT - 1

EraseForReinsert ==
  /\ step = "wipe" /\ k < EraseCount
  /\ T!erase(k)
  /\ k' = k + 1
  /\ UNCHANGED <<slot, bench, step, i, j, l, begin, results>>

StartReinsert ==
  /\ step = "wipe" /\ k = EraseCount
  /\ step' = "insert" /\ k' = 0
  /\ UNCHANGED <<slot, bench, i, j, l, begin, results, tvars>>

TimedInsert ==
  /\ step = "insert" /\ i < KEY_COUNT
  /\ bench \in {"insert_nonexisting", "reinsert_after_erasure"}
  /\ T!insert(i)
  /\ i' = i + 1
  /\ IF j + 1 = INTERVAL THEN j' = 0 /\ Record(bench, i' \div INTERVAL - 1)
                         ELSE j' = j + 1 /\ UNCHANGED results
  /\ UNCHANGED <<slot, bench, step, k, l, begin>>

-----------------------------------------------------------------------------
(* The blocks that stop every INTERVAL insertions for a sequence of OPS    *)
(* operations starting at a random place and wrapping around.              *)

GrowTable ==
  /\ step = "insert" /\ i < KEY_COUNT
  /\ bench \in {"erase_existing", "combined"}
  /\ T!insert(i)
  /\ i' = i + 1 /\ j' = j + 1
  /\ IF j + 1 = INTERVAL
     THEN /\ step' = "measure"
          /\ bench' = IF bench = "combined" THEN "insert_existing" ELSE bench
     ELSE UNCHANGED <<step, bench>>
  /\ UNCHANGED <<slot, k, l, begin, results>>

Fault_WrapLate(n, first, end) == IF n = end THEN first ELSE n + 1
Wrap(n, first, end) == IF n + 1 = end THEN first ELSE n + 1

StartErase ==
  /\ step = "measure" /\ bench = "erase_existing"
  /\ \E b \in Existing(i) : begin' = b /\ l' = b
  /\ k' = 0 /\ step' = "sweep"
  /\ UNCHANGED <<slot, bench, i, j, results, tvars>>

\* Where the restoring loop starts: l = erase_keys_begin.
Fault_RestoreFromLast == l
RestoreFrom == begin

EraseExisting ==
  /\ step = "sweep" /\ bench = "erase_existing"
  /\ T!erase(l)
  /\ IF k + 1 = OPS
     THEN /\ Record("erase_existing", result_index)
          /\ k' = 0 /\ l' = RestoreFrom /\ step' = "restore"
     ELSE k' = k + 1 /\ l' = Wrap(l, 0, i) /\ UNCHANGED <<step, results>>
  /\ UNCHANGED <<slot, bench, i, j, begin>>

RestoreErased ==
  /\ step = "restore"
  /\ T!insert(l)
  /\ IF k + 1 = OPS
     THEN k' = 0 /\ l' = 0 /\ begin' = 0 /\ j' = 0 /\ step' = "insert"
     ELSE k' = k + 1 /\ l' = Wrap(l, 0, i) /\ UNCHANGED <<step, j, begin>>
  /\ UNCHANGED <<slot, bench, i, results>>

-----------------------------------------------------------------------------
(* The five sequences of the combined block, in their order; the last one  *)
(* gives way to the outer loop.                                            *)

FollowingSequence == [insert_existing   |-> "erase_nonexisting",
                      erase_nonexisting |-> "get_existing",
                      get_existing      |-> "get_nonexisting",
                      get_nonexisting   |-> "iteration",
                      iteration         |-> "combined"]

NextSequence ==
  /\ bench' = FollowingSequence[bench]
  /\ IF bench = "iteration" THEN step' = "insert" /\ j' = 0
                            ELSE step' = "measure" /\ UNCHANGED j

SkipSequence == /\ step = "measure" /\ bench \in SequenceIds \ enabled
                /\ NextSequence
                /\ UNCHANGED <<slot, i, k, l, begin, results, tvars>>

Fault_FirstKeysInclusive ==
  IF bench \in {"erase_nonexisting", "get_nonexisting"}
  THEN Nonexisting ELSE 0 .. i
Fault_FirstKeysFromLast ==
  IF bench \in {"erase_nonexisting", "get_nonexisting"}
  THEN KEY_COUNT - 1 .. NonexistingEnd - 1 ELSE Existing(i)
FirstKeys == IF bench \in {"erase_nonexisting", "get_nonexisting"}
             THEN Nonexisting ELSE Existing(i)

StartSequence == /\ step = "measure"
                 /\ bench \in (SequenceIds \cap enabled) \ {"iteration"}
                 /\ l' \in FirstKeys
                 /\ k' = 0 /\ step' = "sweep"
                 /\ UNCHANGED <<slot, bench, i, j, begin, results, tvars>>

\* The end of one turn of a while( true ): record and go on, or the next key.
Turn(next) == IF k + 1 = OPS
              THEN /\ Record(bench, result_index)
                   /\ k' = 0 /\ l' = 0 /\ NextSequence
              ELSE /\ k' = k + 1 /\ l' = next /\ step' = "sweep"
                   /\ UNCHANGED <<bench, j, results>>

InsertExisting == /\ step = "sweep" /\ bench = "insert_existing"
                  /\ T!insert(l)
                  /\ Turn(Wrap(l, 0, i))
                  /\ UNCHANGED <<slot, i, begin>>

EraseNonexisting == /\ step = "sweep" /\ bench = "erase_nonexisting"
                    /\ T!erase(l)
                    /\ Turn(Wrap(l, KEY_COUNT, NonexistingEnd))
                    /\ UNCHANGED <<slot, i, begin>>

FindExisting == /\ step = "sweep" /\ bench = "get_existing"
                /\ T!find(l)
                /\ step' = "read"
                /\ UNCHANGED <<slot, bench, i, j, k, l, begin, results>>

\* The key is read through the iterator without asking whether it is valid;
\* a key other than the one looked up ends the program.
ReadExisting == /\ step = "read"
                /\ IF itr.here = {l} THEN Turn(Wrap(l, 0, i))
                   ELSE step' = "exit" /\ UNCHANGED <<bench, j, k, l, results>>
                /\ UNCHANGED <<slot, i, begin, tvars>>

GetNonexisting == /\ step = "sweep" /\ bench = "get_nonexisting"
                  /\ T!find(l)
                  /\ Turn(Wrap(l, KEY_COUNT, NonexistingEnd))
                  /\ UNCHANGED <<slot, i, begin>>

StartIteration == /\ step = "measure" /\ bench = "iteration"
                  /\ bench \in enabled
                  /\ \E key \in Existing(i) : T!find(key)
                  /\ k' = 0 /\ step' = "sweep"
                  /\ UNCHANGED <<slot, bench, i, j, l, begin, results>>

\* Read the key and the value; stop after OPS of them, else step forward.
IterateRead == /\ step = "sweep" /\ bench = "iteration"
               /\ IF k + 1 = OPS
                  THEN Turn(0) /\ UNCHANGED tvars
                  ELSE /\ T!increment_itr
                       /\ k' = k + 1 /\ step' = "wrap"
                       /\ UNCHANGED <<bench, j, l, results>>
               /\ UNCHANGED <<slot, i, begin>>

IterateWrap == /\ step = "wrap"
               /\ IF T!is_itr_valid(itr) THEN UNCHANGED tvars ELSE T!begin_itr
               /\ step' = "sweep"
               /\ UNCHANGED <<slot, bench, i, j, k, l, begin, results>>

-----------------------------------------------------------------------------
(* The loops of benchmarks() and main().                                   *)

BlocksDone == step = "next" /\ bench = "combined"

Restart == /\ bench' = "insert_nonexisting" /\ step' = "enter"
           /\ UNCHANGED <<i, j, k, l, begin, results, tvars>>

NextBlueprint == /\ BlocksDone /\ blueprint < BLUEPRINTS
                 /\ blueprint' = blueprint + 1
                 /\ Restart /\ UNCHANGED <<run, shim>>

NextShim == /\ BlocksDone /\ blueprint = BLUEPRINTS /\ shim < SHIMS
            /\ shim' = shim + 1 /\ blueprint' = 1
            /\ Restart /\ UNCHANGED run

Fault_NextRunNotCounted ==
  /\ BlocksDone /\ blueprint = BLUEPRINTS /\ shim = SHIMS /\ run + 1 < RUN_COUNT
  /\ shim' = 1 /\ blueprint' = 1 /\ Restart /\ UNCHANGED run
NextRun == /\ BlocksDone /\ blueprint = BLUEPRINTS /\ shim = SHIMS
           /\ run + 1 < RUN_COUNT
           /\ run' = run + 1 /\ shim' = 1 /\ blueprint' = 1
           /\ Restart

\* The last run is over: html_out() and csv_out() read every cell.
OutputResults == /\ BlocksDone /\ blueprint = BLUEPRINTS /\ shim = SHIMS
                 /\ run + 1 = RUN_COUNT
                 /\ step' = "output"
                 /\ UNCHANGED <<slot, bench, i, j, k, l, begin, results, tvars>>

Stopped == step \in {"output", "exit"} /\ UNCHANGED vars

Step == \/ SkipBlock \/ EnterBlock \/ LeaveBlock \/ NextBlock
        \/ FillForReinsert \/ EraseForReinsert \/ StartReinsert \/ TimedInsert
        \/ GrowTable \/ StartErase \/ EraseExisting \/ RestoreErased
        \/ SkipSequence \/ StartSequence
        \/ InsertExisting \/ EraseNonexisting \/ FindExisting \/ ReadExisting
        \/ GetNonexisting \/ StartIteration \/ IterateRead \/ IterateWrap
        \/ NextBlueprint \/ NextShim \/ NextRun \/ OutputResults
        \/ Stopped

\* The macros stay as they were compiled in.
Next == Step /\ UNCHANGED enabled

Spec == Init /\ [][Next]_vars
FairSpec == Spec /\ WF_vars(Next)

-----------------------------------------------------------------------------
(* What the driver relies on, and what its measurements claim.             *)

Steps == {"enter", "fill", "wipe", "insert", "measure", "sweep", "restore",
          "read", "wrap", "next", "output", "exit"}

\* The counters stay in their loops' ranges and every key asked of
\* shuffled_unique_key() has an index inside its vector.
TypeOK == /\ enabled \in CONFIGS
          /\ run \in 0 .. RUN_COUNT - 1
          /\ shim \in 1 .. SHIMS /\ blueprint \in 1 .. BLUEPRINTS
          /\ bench \in Blocks \cup SequenceIds /\ step \in Steps
          /\ i \in 0 .. KEY_COUNT /\ j \in 0 .. INTERVAL
          /\ k \in Nat /\ l \in KeyIndices /\ begin \in Existing(KEY_COUNT)
          /\ results \subseteq AllCells
          /\ made \in BOOLEAN /\ table \subseteq KeyIndices
          /\ itr \in [here : SUBSET KeyIndices, rest : SUBSET KeyIndices]

\* "... with N keys in the table" (benchmark_names): a measured sequence
\* starts with exactly the first i keys in the table, and the sequences of
\* the combined block, two of which insert and erase, leave them there.
MeasuredWithNKeys ==
  step = "measure" \/ bench \in SequenceIds => table = Existing(i)

\* Keys past KEY_COUNT are the nonexisting ones: no block ever puts one into
\* the table.
NonexistingNeverInserted == table \cap Nonexisting = {}

\* "Should always be false" (main.cpp:1359): erasing and looking up a
\* nonexisting key leaves the table alone and finds nothing.
NonexistingNotFound ==
  [][step = "sweep" /\ bench \in {"erase_nonexisting", "get_nonexisting"}
       => table' = table /\ ~T!is_itr_valid(itr')]_vars

\* get_existing and iteration read through an iterator they never check, and
\* get_existing ends the program on a wrong key: the iterator always points
\* at the right one.
ReadsAreValid == /\ step = "read" => itr.here = {l}
                 /\ step = "sweep" /\ bench = "iteration"
                       => itr.here # {} /\ itr.here \subseteq table

\* reinsert_after_erasure times insertions into a table that holds one
\* leftover key (main.cpp:1143), which the last insertion replaces.
ReinsertLeavesOneKey ==
  bench = "reinsert_after_erasure" /\ step = "insert"
    => table = Existing(i) \cup {KEY_COUNT - 1}

\* erase_existing erases existing keys until it has wrapped around to keys it
\* has erased itself, and restores all it erased before the next insertion.
EraseExistingHits ==
  bench = "erase_existing" =>
    /\ step = "sweep" /\ k < i => l \in table
    /\ step = "insert" => table = Existing(i)

\* When the results are read every cell of every enabled benchmark was
\* written, and none outside results()'s vectors.
ResultsComplete == step = "output" => results = AllCells

\* A measurement never overwrites one of another run or point: each one that
\* ends fills a cell of its own.
MeasurementEnds ==
  \/ step \in {"sweep", "read"} /\ k = OPS - 1 /\ step' \notin {"read", "exit"}
  \/ TimedInsert /\ j = INTERVAL - 1
EachCellOnce == [][MeasurementEnds => results' # results]_vars

\* main() ends by writing the results, and not through the exit( 0 ) of
\* get_existing.
Termination == <>(step = "output")
=============================================================================
