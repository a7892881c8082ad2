--------------------------- MODULE BenchmarkProofs ---------------------------
(***************************************************************************)
(* The driver's safety properties for every configuration that main.cpp's  *)
(* static_asserts admit.                                                   *)
(***************************************************************************)
EXTENDS Benchmark, Arithmetic, TLAPS

(***************************************************************************)
(* The inductive invariant.  Control says which steps belong to which      *)
(* benchmark, Counters where the loop counters are, Contents what is in    *)
(* the table at every step, and Iterator what the caller's iterator is     *)
(* worth.                                                                  *)
(***************************************************************************)
MeasureSteps == {"measure", "sweep", "read", "wrap"}

Control ==
  /\ bench \in SequenceIds => step \in MeasureSteps \cup {"exit"}
  /\ bench = "combined" => step \in {"enter", "insert", "next", "output"}
  /\ bench = "insert_nonexisting" => step \in {"enter", "insert", "next"}
  /\ bench = "reinsert_after_erasure" =>
        step \in {"enter", "fill", "wipe", "insert", "next"}
  /\ bench = "erase_existing" =>
        step \in {"enter", "insert", "measure", "sweep", "restore", "next"}
  /\ step = "read" => bench = "get_existing"
  /\ step = "wrap" => bench = "iteration"
  /\ step \in {"fill", "wipe", "insert", "sweep", "read", "wrap", "restore"}
       => bench \in enabled \cup {"combined"}
  /\ step = "measure" => bench \in enabled \cup SequenceIds

Counters ==
  /\ j <= i
  /\ step \in {"fill", "wipe"} => k < KEY_COUNT /\ i = 0 /\ j = 0
  /\ step = "insert" => j < INTERVAL
  /\ step \in MeasureSteps \cup {"restore"} => INTERVAL <= i
  /\ step \in {"sweep", "restore", "read", "wrap"} => k < OPS
  /\ bench = "erase_existing" /\ step \in {"sweep", "restore"}
       => begin \in Existing(i)
  /\ step \in {"sweep", "restore", "read"} =>
       IF bench \in {"erase_nonexisting", "get_nonexisting"}
       THEN l \in Nonexisting
       ELSE bench # "iteration" => l \in Existing(i)

\* The n positions from b on, wrapping around at end.
Stretch(b, n, end) == {(b + m) % end : m \in 0 .. n - 1}

Contents ==
  /\ step = "fill" => table = Existing(k)
  /\ step = "wipe" => table = k .. KEY_COUNT - 1
  /\ step \in {"insert", "measure"} /\ bench # "reinsert_after_erasure"
       => table = Existing(i)
  /\ bench \in SequenceIds => table = Existing(i)
  /\ step = "insert" /\ bench = "reinsert_after_erasure"
       => table = Existing(i) \cup {KEY_COUNT - 1}
  /\ bench = "erase_existing" /\ step \in {"sweep", "restore"}
       => l = (begin + k) % i
  /\ bench = "erase_existing" /\ step = "sweep"
       => table = Existing(i) \ Stretch(begin, k, i)
  /\ step = "restore"
       => table = Existing(i) \ (Stretch(begin, OPS, i) \ Stretch(begin, k, i))

Iterator ==
  /\ step = "read" => itr.here = {l}
  /\ step = "sweep" /\ bench = "iteration" => itr.here # {}
  /\ step \in {"sweep", "wrap"} /\ bench = "iteration"
       => itr.here \subseteq table /\ itr.rest \subseteq table

Inv == /\ TypeOK /\ Control /\ Counters /\ Contents /\ Iterator
       /\ table \subseteq Existing(KEY_COUNT) /\ step # "exit"

-----------------------------------------------------------------------------
\* The constants: at least one measurement point, and room for the nonexisting
\* keys behind the existing ones.
LEMMA Constants ==
  /\ KEY_COUNT \in Nat \ {0} /\ INTERVAL \in Nat \ {0} /\ OPS \in Nat \ {0}
  /\ RUN_COUNT \in Nat \ {0} /\ SHIMS \in Nat \ {0} /\ BLUEPRINTS \in Nat \ {0}
  /\ INTERVAL <= KEY_COUNT
  /\ Points \in Nat \ {0}
  /\ NonexistingEnd \in Nat /\ KEY_COUNT < NonexistingEnd
<1>1. INTERVAL <= KEY_COUNT
  <2>1. SUFFICES ASSUME KEY_COUNT < INTERVAL PROVE FALSE
    BY Config DEF ConfigAssumption
  <2>2. KEY_COUNT % INTERVAL = KEY_COUNT
    BY <2>1, Config DEF ConfigAssumption
  <2>3. QED  BY <2>2, Config DEF ConfigAssumption
<1>2. Points \in Nat \ {0}
  BY <1>1, DivBounds, DivMod, Config DEF ConfigAssumption, Points
<1>3. Points * OPS \in Nat /\ Points * OPS >= 1
  BY <1>2, Config DEF ConfigAssumption
<1>4. QED  BY <1>1, <1>2, <1>3, Config DEF ConfigAssumption, NonexistingEnd

\* A measurement taken with n keys inserted has its cell inside the vectors.
LEMMA CellInRange ==
  ASSUME NEW id \in enabled, NEW n \in 0 .. KEY_COUNT, INTERVAL <= n,
         TypeOK
  PROVE  Cell(id, n \div INTERVAL - 1) \in AllCells
<1>1. n \div INTERVAL - 1 \in 0 .. Points - 1
  BY Constants, DivMod, DivBounds DEF Points
<1>2. run * Points + (n \div INTERVAL - 1) \in 0 .. RUN_COUNT * Points - 1
  BY <1>1, Constants, FlatIndex DEF TypeOK
<1>3. QED  BY <1>2 DEF Cell, AllCells, TypeOK

\* A stretch starts empty, grows at its end, and stays on the circle.
LEMMA StretchEmpty == \A b, end : Stretch(b, 0, end) = {}
<1>1. 0 .. 0 - 1 = {}
  OBVIOUS
<1>2. QED  BY <1>1, Zenon DEF Stretch

LEMMA StretchGrows ==
  ASSUME NEW b, NEW n \in Nat, NEW end
  PROVE  Stretch(b, n + 1, end) = Stretch(b, n, end) \cup {(b + n) % end}
<1>1. 0 .. (n + 1) - 1 = (0 .. n - 1) \cup {n}
  OBVIOUS
<1>2. QED  BY <1>1, Zenon DEF Stretch

LEMMA StretchRange ==
  ASSUME NEW b \in Nat, NEW n \in Nat, NEW end \in Nat \ {0}
  PROVE  Stretch(b, n, end) \subseteq Existing(end)
<1>1. \A m \in 0 .. n - 1 : (b + m) % end \in Existing(end)
  <2>1. TAKE m \in 0 .. n - 1
  <2>2. b + m \in Nat
    OBVIOUS
  <2>3. QED  BY <2>2, DivMod DEF Existing
<1>2. QED  BY <1>1, Zenon DEF Stretch

\* A stretch no longer than the circle does not hold the next position.
LEMMA StretchFresh ==
  ASSUME NEW b \in Nat, NEW n \in Nat, NEW end \in Nat \ {0}, n < end
  PROVE  (b + n) % end \notin Stretch(b, n, end)
<1>1. \A m \in 0 .. n - 1 : (b + m) % end # (b + n) % end
  <2>1. TAKE m \in 0 .. n - 1
  <2>2. m \in Nat /\ m < n /\ n - m < end
    OBVIOUS
  <2>3. QED  BY <2>2, ModDistinct
<1>2. QED  BY <1>1, Zenon DEF Stretch

\* A walk along a stretch starts at its first position ...
LEMMA WrapStart ==
  ASSUME NEW b \in Nat, NEW end \in Nat, b < end
  PROVE  (b + 0) % end = b
<1>1. b + 0 = b
  OBVIOUS
<1>2. QED  BY <1>1, ModSmall

\* ... and ++l, and back to 0 at the end, takes it along.
LEMMA WrapStep ==
  ASSUME NEW b \in Nat, NEW n \in Nat, NEW end \in Nat \ {0}
  PROVE  Wrap((b + n) % end, 0, end) = (b + (n + 1)) % end
<1>1. b + n \in Nat /\ (b + n) + 1 = b + (n + 1)
  OBVIOUS
<1>2. ((b + n) + 1) % end = Wrap((b + n) % end, 0, end)
  BY <1>1, ModStep, Zenon DEF Wrap
<1>3. QED  BY <1>1, <1>2

-----------------------------------------------------------------------------
ItrType == [here : SUBSET KeyIndices, rest : SUBSET KeyIndices]

\* What the caller holds after a lookup, a step, and a return to the start.
LEMMA FindResult ==
  ASSUME TypeOK, NEW x \in KeyIndices, T!find(x)
  PROVE  /\ itr' \in ItrType
         /\ x \in table => itr'.here = {x}
         /\ itr'.here \subseteq table /\ itr'.rest \subseteq table
<1>1. CASE x \in table
  <2>1. PICK r \in SUBSET (table \ {x}) : itr' = [here |-> {x}, rest |-> r]
    BY <1>1 DEF T!find
  <2>2. QED  BY <1>1, <2>1 DEF TypeOK, ItrType
<1>2. CASE x \notin table
  <2>1. itr' = [here |-> {}, rest |-> {}]
    BY <1>2 DEF T!find, T!EndItr
  <2>2. QED  BY <1>2, <2>1 DEF ItrType
<1>3. QED  BY <1>1, <1>2

LEMMA IncrementResult ==
  ASSUME TypeOK, T!increment_itr, itr.rest \subseteq table
  PROVE  /\ itr' \in ItrType
         /\ itr'.here \subseteq table /\ itr'.rest \subseteq table
<1>1. CASE itr.rest = {}
  <2>1. itr' = [here |-> {}, rest |-> {}]
    BY <1>1 DEF T!increment_itr, T!EndItr
  <2>2. QED  BY <2>1 DEF ItrType
<1>2. CASE itr.rest # {}
  <2>1. PICK x \in itr.rest : itr' = [here |-> {x}, rest |-> itr.rest \ {x}]
    BY <1>2 DEF T!increment_itr
  <2>2. QED  BY <2>1 DEF TypeOK, ItrType
<1>3. QED  BY <1>1, <1>2

LEMMA BeginResult ==
  ASSUME TypeOK, T!begin_itr, table # {}
  PROVE  /\ itr' \in ItrType
         /\ itr'.here # {}
         /\ itr'.here \subseteq table /\ itr'.rest \subseteq table
<1>1. PICK x \in table : itr' = [here |-> {x}, rest |-> table \ {x}]
  BY DEF T!begin_itr
<1>2. QED  BY <1>1 DEF TypeOK, ItrType

\* Steps that touch neither the table nor the iterator, or insert or erase a
\* key of shuffled_unique_key().
LEMMA TableType ==
  ASSUME TypeOK, NEW x \in KeyIndices,
         T!insert(x) \/ T!erase(x) \/ T!create_table \/ T!destroy_table
                     \/ UNCHANGED tvars
  PROVE  made' \in BOOLEAN /\ table' \subseteq KeyIndices /\ itr' \in ItrType
<1>1. T!EndItr \in ItrType
  BY DEF T!EndItr, ItrType
<1>2. CASE UNCHANGED tvars
  BY <1>2 DEF tvars, TypeOK, ItrType
<1>3. CASE T!insert(x) \/ T!erase(x) \/ T!create_table \/ T!destroy_table
  BY <1>1, <1>3 DEF TypeOK, T!insert, T!erase, T!create_table, T!destroy_table
<1>4. QED  BY <1>2, <1>3

\* The end of a turn of one of the measured sequences.
LEMMA TurnType ==
  ASSUME Inv, bench \in SequenceIds, bench \in enabled,
         step \in MeasureSteps, NEW next \in KeyIndices, Turn(next)
  PROVE  /\ bench' \in Blocks \cup SequenceIds /\ step' \in Steps
         /\ j' \in 0 .. INTERVAL /\ k' \in Nat /\ l' \in KeyIndices
         /\ results' \subseteq AllCells
<1>1. Cell(bench, result_index) \in AllCells
  BY CellInRange DEF result_index, Inv, Counters, TypeOK
<1>2. results' \subseteq AllCells
  BY <1>1 DEF Turn, Record, Inv, TypeOK
<1>3. 0 \in KeyIndices
  BY Constants DEF KeyIndices
<1>4. QED
  BY <1>2, <1>3, Constants DEF Turn, NextSequence, FollowingSequence, Inv,
     TypeOK, Blocks, SequenceIds, Steps
-----------------------------------------------------------------------------
\* Every action preserves the invariant.
LEMMA InvStep == ASSUME Inv, Next PROVE Inv'
<1> USE Constants
    DEF Inv, TypeOK, Control, Counters, Contents, Iterator, Existing,
        Nonexisting, KeyIndices, Blocks, SequenceIds, Steps, MeasureSteps, slot,
        tvars, RestoreFrom
<1>0. enabled' = enabled /\ AllCells' = AllCells
  BY DEF Next, AllCells
<1> USE <1>0
<1>1. CASE SkipBlock
  BY <1>1 DEF SkipBlock, Defined
<1>2. CASE EnterBlock
  BY <1>2 DEF EnterBlock, Defined, T!create_table, T!EndItr
<1>3. CASE LeaveBlock
  BY <1>3 DEF LeaveBlock, T!destroy_table, T!EndItr
<1>4. CASE NextBlock
  BY <1>4 DEF NextBlock, Following
<1>5. CASE FillForReinsert
  BY <1>5 DEF FillForReinsert, T!insert, T!EndItr
<1>6. CASE EraseForReinsert
  BY <1>6 DEF EraseForReinsert, EraseCount, T!erase, T!EndItr
<1>7. CASE StartReinsert
  BY <1>7 DEF StartReinsert, EraseCount
<1>8. CASE GrowTable
  BY <1>8 DEF GrowTable, T!insert, T!EndItr
<1>9. CASE SkipSequence
  BY <1>9 DEF SkipSequence, NextSequence, FollowingSequence
<1>10. CASE StartSequence
  BY <1>10 DEF StartSequence, FirstKeys
<1>11. CASE NextBlueprint
  BY <1>11 DEF NextBlueprint, BlocksDone, Restart
<1>12. CASE NextShim
  BY <1>12 DEF NextShim, BlocksDone, Restart
<1>13. CASE NextRun
  BY <1>13 DEF NextRun, BlocksDone, Restart
<1>14. CASE OutputResults
  BY <1>14 DEF OutputResults, BlocksDone
<1>15. CASE Stopped
  BY <1>15 DEF Stopped, vars
<1>16. CASE TimedInsert
  <2>1. made' \in BOOLEAN /\ table' \subseteq KeyIndices /\ itr' \in ItrType
    BY <1>16, TableType DEF TimedInsert
  <2>2. results' \subseteq AllCells
    <3>1. CASE j + 1 = INTERVAL
      <4>1. /\ bench \in enabled /\ i + 1 \in 0 .. KEY_COUNT
            /\ INTERVAL <= i + 1 /\ i' = i + 1
        BY <1>16, <3>1 DEF TimedInsert
      <4>2. Cell(bench, (i + 1) \div INTERVAL - 1) \in AllCells
        BY <4>1, CellInRange
      <4>3. QED  BY <1>16, <3>1, <4>1, <4>2 DEF TimedInsert, Record
    <3>2. CASE j + 1 # INTERVAL
      BY <1>16, <3>2 DEF TimedInsert
    <3>3. QED  BY <3>1, <3>2
  <2>3. TypeOK'
    BY <2>1, <2>2, <1>16 DEF TimedInsert, ItrType
  <2>4. Control'
    BY <1>16 DEF TimedInsert, T!insert, T!EndItr, Record
  <2>5. Counters'
    BY <1>16 DEF TimedInsert, T!insert, T!EndItr, Record
  <2>6. Contents'
    BY <1>16 DEF TimedInsert, T!insert, T!EndItr, Record
  <2>7. Iterator'
    BY <1>16 DEF TimedInsert, T!insert, T!EndItr, Record
  <2>8. table' \subseteq Existing(KEY_COUNT) /\ step' # "exit"
    BY <1>16 DEF TimedInsert, T!insert, T!EndItr, Record
  <2>9. QED  BY <2>3, <2>4, <2>5, <2>6, <2>7, <2>8
<1>17. CASE StartErase
  <2>1. /\ i' = i /\ l' = (begin' + k') % i
          /\ Stretch(begin', k', i) = {}
    <3>1. begin' \in Existing(i) /\ l' = begin' /\ k' = 0 /\ i' = i /\ i \in Nat
       \ {0}
      BY <1>17 DEF StartErase
    <3>2. begin' \in Nat /\ begin' < i
      BY <3>1
    <3>3. (begin' + 0) % i = begin' /\ Stretch(begin', 0, i) = {}
      BY <3>1, <3>2, WrapStart, StretchEmpty, Zenon
    <3>4. QED  BY <3>1, <3>3, Zenon
  <2>2. TypeOK'
    BY <1>17 DEF StartErase
  <2>3. Control'
    BY <1>17 DEF StartErase
  <2>4. Counters'
    BY <1>17 DEF StartErase
  <2>5. Contents'
    BY <1>17, <2>1 DEF StartErase
  <2>6. Iterator'
    BY <1>17 DEF StartErase
  <2>7. table' \subseteq Existing(KEY_COUNT) /\ step' # "exit"
    BY <1>17 DEF StartErase
  <2>8. QED  BY <2>2, <2>3, <2>4, <2>5, <2>6, <2>7
<1>18. CASE EraseExisting
  <2>1. made' \in BOOLEAN /\ table' \subseteq KeyIndices /\ itr' \in ItrType
    BY <1>18, TableType DEF EraseExisting
  <2>2. results' \subseteq AllCells
    <3>1. Cell("erase_existing", result_index) \in AllCells
      BY <1>18, CellInRange DEF EraseExisting, result_index
    <3>2. QED  BY <1>18, <3>1 DEF EraseExisting, Record
  <2>3. /\ i \in Nat \ {0} /\ begin \in Nat /\ k \in Nat /\ begin < i
          /\ l = (begin + k) % i
    BY <1>18 DEF EraseExisting
  <2>4. /\ begin = (begin + 0) % i
          /\ Wrap(l, 0, i) = (begin + (k + 1)) % i
    <3>1. begin = (begin + 0) % i
      BY <2>3, WrapStart, Zenon
    <3>2. Wrap(l, 0, i) = (begin + (k + 1)) % i
      BY <2>3, WrapStep
    <3>3. QED  BY <3>1, <3>2
  <2>5. /\ Stretch(begin, k + 1, i) = Stretch(begin, k, i) \cup {l}
          /\ Stretch(begin, 0, i) = {}
    BY <2>3, StretchGrows, StretchEmpty
  <2>6. TypeOK'
    BY <2>1, <2>2, <1>18 DEF EraseExisting, Wrap, ItrType
  <2>7. Control'
    BY <1>18 DEF EraseExisting, T!erase, T!EndItr, Wrap
  <2>8. Counters'
    BY <1>18 DEF EraseExisting, T!erase, T!EndItr, Wrap
  <2>9. Contents'
    BY <1>18, <2>3, <2>4, <2>5 DEF EraseExisting, T!erase
  <2>10. Iterator'
    BY <1>18 DEF EraseExisting, T!erase, T!EndItr, Wrap
  <2>11. table' \subseteq Existing(KEY_COUNT) /\ step' # "exit"
    BY <1>18 DEF EraseExisting, T!erase, T!EndItr, Wrap
  <2>12. QED  BY <2>6, <2>7, <2>8, <2>9, <2>10, <2>11
<1>19. CASE RestoreErased
  <2>1. /\ i \in Nat \ {0} /\ begin \in Nat /\ k \in Nat /\ l = (begin + k) % i
    BY <1>19 DEF RestoreErased
  <2>2. Wrap(l, 0, i) = (begin + (k + 1)) % i
    BY <2>1, WrapStep
  <2>3. /\ Stretch(begin, k + 1, i) = Stretch(begin, k, i) \cup {l}
          /\ Stretch(begin, k, i) \subseteq Existing(i)
    BY <2>1, StretchGrows, StretchRange
  <2>4. TypeOK'
    BY <1>19 DEF RestoreErased, T!insert, T!EndItr, Wrap
  <2>5. Control'
    BY <1>19 DEF RestoreErased, T!insert, T!EndItr, Wrap
  <2>6. Counters'
    BY <1>19 DEF RestoreErased, T!insert, T!EndItr, Wrap
  <2>7. Contents'
    BY <1>19, <2>1, <2>2, <2>3 DEF RestoreErased, T!insert
  <2>8. Iterator'
    BY <1>19 DEF RestoreErased, T!insert, T!EndItr, Wrap
  <2>9. table' \subseteq Existing(KEY_COUNT) /\ step' # "exit"
    BY <1>19 DEF RestoreErased, T!insert, T!EndItr, Wrap
  <2>10. QED  BY <2>4, <2>5, <2>6, <2>7, <2>8, <2>9
<1>20. CASE InsertExisting
  <2>1. made' \in BOOLEAN /\ table' \subseteq KeyIndices /\ itr' \in ItrType
    BY <1>20, TableType DEF InsertExisting
  <2>2. /\ bench' \in Blocks \cup SequenceIds /\ step' \in Steps
          /\ j' \in 0 .. INTERVAL /\ k' \in Nat /\ l' \in KeyIndices
          /\ results' \subseteq AllCells
    <3>1. Wrap(l, 0, i) \in KeyIndices
      BY <1>20 DEF InsertExisting, Wrap
    <3>2. QED  BY <1>20, <3>1, TurnType DEF InsertExisting
  <2>3. TypeOK'
    BY <2>1, <2>2, <1>20 DEF InsertExisting, ItrType
  <2>4. Control'
    BY <1>20 DEF InsertExisting, Turn, NextSequence, FollowingSequence, Wrap,
       T!insert, T!EndItr
  <2>5. Counters'
    BY <1>20 DEF InsertExisting, Turn, NextSequence, FollowingSequence, Wrap,
       T!insert, T!EndItr
  <2>6. Contents'
    BY <1>20 DEF InsertExisting, Turn, NextSequence, FollowingSequence, Wrap,
       T!insert, T!EndItr
  <2>7. Iterator'
    BY <1>20 DEF InsertExisting, Turn, NextSequence, FollowingSequence, Wrap,
       T!insert, T!EndItr
  <2>8. table' \subseteq Existing(KEY_COUNT) /\ step' # "exit"
    BY <1>20 DEF InsertExisting, Turn, NextSequence, FollowingSequence, Wrap,
       T!insert, T!EndItr
  <2>9. QED  BY <2>3, <2>4, <2>5, <2>6, <2>7, <2>8
<1>21. CASE EraseNonexisting
  <2>1. made' \in BOOLEAN /\ table' \subseteq KeyIndices /\ itr' \in ItrType
    BY <1>21, TableType DEF EraseNonexisting
  <2>2. /\ bench' \in Blocks \cup SequenceIds /\ step' \in Steps
          /\ j' \in 0 .. INTERVAL /\ k' \in Nat /\ l' \in KeyIndices
          /\ results' \subseteq AllCells
    <3>1. Wrap(l, KEY_COUNT, NonexistingEnd) \in KeyIndices
      BY <1>21 DEF EraseNonexisting, Wrap
    <3>2. QED  BY <1>21, <3>1, TurnType DEF EraseNonexisting
  <2>3. TypeOK'
    BY <2>1, <2>2, <1>21 DEF EraseNonexisting, ItrType
  <2>4. Control'
    BY <1>21 DEF EraseNonexisting, Turn, NextSequence, FollowingSequence, Wrap,
       T!erase, T!EndItr
  <2>5. Counters'
    BY <1>21 DEF EraseNonexisting, Turn, NextSequence, FollowingSequence, Wrap,
       T!erase, T!EndItr
  <2>6. Contents'
    BY <1>21 DEF EraseNonexisting, Turn, NextSequence, FollowingSequence, Wrap,
       T!erase, T!EndItr
  <2>7. Iterator'
    BY <1>21 DEF EraseNonexisting, Turn, NextSequence, FollowingSequence, Wrap,
       T!erase, T!EndItr
  <2>8. table' \subseteq Existing(KEY_COUNT) /\ step' # "exit"
    BY <1>21 DEF EraseNonexisting, Turn, NextSequence, FollowingSequence, Wrap,
       T!erase, T!EndItr
  <2>9. QED  BY <2>3, <2>4, <2>5, <2>6, <2>7, <2>8
<1>22. CASE ReadExisting
  <2>1. made' \in BOOLEAN /\ table' \subseteq KeyIndices /\ itr' \in ItrType
    BY <1>22, TableType DEF ReadExisting
  <2>2. /\ bench' \in Blocks \cup SequenceIds /\ step' \in Steps
          /\ j' \in 0 .. INTERVAL /\ k' \in Nat /\ l' \in KeyIndices
          /\ results' \subseteq AllCells
    <3>1. Wrap(l, 0, i) \in KeyIndices
      BY <1>22 DEF ReadExisting, Wrap
    <3>2. QED  BY <1>22, <3>1, TurnType DEF ReadExisting
  <2>3. TypeOK'
    BY <2>1, <2>2, <1>22 DEF ReadExisting, ItrType
  <2>4. Control'
    BY <1>22 DEF ReadExisting, Turn, NextSequence, FollowingSequence, Wrap
  <2>5. Counters'
    BY <1>22 DEF ReadExisting, Turn, NextSequence, FollowingSequence, Wrap
  <2>6. Contents'
    BY <1>22 DEF ReadExisting, Turn, NextSequence, FollowingSequence, Wrap
  <2>7. Iterator'
    BY <1>22 DEF ReadExisting, Turn, NextSequence, FollowingSequence, Wrap
  <2>8. table' \subseteq Existing(KEY_COUNT) /\ step' # "exit"
    BY <1>22 DEF ReadExisting, Turn, NextSequence, FollowingSequence, Wrap
  <2>9. QED  BY <2>3, <2>4, <2>5, <2>6, <2>7, <2>8
<1>23. CASE GetNonexisting
  <2>1. itr' \in ItrType
    BY <1>23, FindResult DEF GetNonexisting
  <2>2. /\ bench' \in Blocks \cup SequenceIds /\ step' \in Steps
          /\ j' \in 0 .. INTERVAL /\ k' \in Nat /\ l' \in KeyIndices
          /\ results' \subseteq AllCells
    <3>1. Wrap(l, KEY_COUNT, NonexistingEnd) \in KeyIndices
      BY <1>23 DEF GetNonexisting, Wrap
    <3>2. QED  BY <1>23, <3>1, TurnType DEF GetNonexisting
  <2>3. TypeOK'
    BY <2>1, <2>2, <1>23 DEF GetNonexisting, ItrType, T!find
  <2>4. Control'
    BY <1>23 DEF GetNonexisting, Turn, NextSequence, FollowingSequence, Wrap,
       T!find
  <2>5. Counters'
    BY <1>23 DEF GetNonexisting, Turn, NextSequence, FollowingSequence, Wrap,
       T!find
  <2>6. Contents'
    BY <1>23 DEF GetNonexisting, Turn, NextSequence, FollowingSequence, Wrap,
       T!find
  <2>7. Iterator'
    BY <1>23 DEF GetNonexisting, Turn, NextSequence, FollowingSequence, Wrap,
       T!find
  <2>8. table' \subseteq Existing(KEY_COUNT) /\ step' # "exit"
    BY <1>23 DEF GetNonexisting, Turn, NextSequence, FollowingSequence, Wrap,
       T!find
  <2>9. QED  BY <2>3, <2>4, <2>5, <2>6, <2>7, <2>8
<1>24. CASE FindExisting
  <2>1. itr' \in ItrType /\ itr'.here = {l}
    BY <1>24, FindResult DEF FindExisting
  <2>2. TypeOK'
    BY <2>1, <1>24 DEF FindExisting, ItrType, T!find
  <2>3. Control'
    BY <1>24 DEF FindExisting, T!find
  <2>4. Counters'
    BY <1>24 DEF FindExisting, T!find
  <2>5. Contents'
    BY <1>24 DEF FindExisting, T!find
  <2>6. Iterator'
    BY <2>1, <1>24 DEF FindExisting, T!find
  <2>7. table' \subseteq Existing(KEY_COUNT) /\ step' # "exit"
    BY <1>24 DEF FindExisting, T!find
  <2>8. QED  BY <2>2, <2>3, <2>4, <2>5, <2>6, <2>7
<1>25. CASE StartIteration
  <2>1. /\ itr' \in ItrType /\ itr'.here # {}
          /\ itr'.here \subseteq table /\ itr'.rest \subseteq table
    <3>1. PICK key \in Existing(i) : T!find(key)
      BY <1>25 DEF StartIteration
    <3>2. key \in KeyIndices /\ key \in table
      BY <1>25 DEF StartIteration
    <3>3. QED  BY <3>1, <3>2, FindResult
  <2>2. TypeOK'
    BY <2>1, <1>25 DEF StartIteration, ItrType, T!find
  <2>3. Control'
    BY <1>25 DEF StartIteration, T!find
  <2>4. Counters'
    BY <1>25 DEF StartIteration, T!find
  <2>5. Contents'
    BY <1>25 DEF StartIteration, T!find
  <2>6. Iterator'
    BY <2>1, <1>25 DEF StartIteration, T!find
  <2>7. table' \subseteq Existing(KEY_COUNT) /\ step' # "exit"
    BY <1>25 DEF StartIteration, T!find
  <2>8. QED  BY <2>2, <2>3, <2>4, <2>5, <2>6, <2>7
<1>26. CASE IterateRead
  <2>1. /\ itr' \in ItrType
          /\ itr'.here \subseteq table /\ itr'.rest \subseteq table
    <3>1. CASE T!increment_itr
      BY <3>1, <1>26, IncrementResult DEF IterateRead
    <3>2. CASE UNCHANGED tvars
      BY <3>2, <1>26 DEF IterateRead, ItrType
    <3>3. QED  BY <3>1, <3>2, <1>26 DEF IterateRead
  <2>2. /\ bench' \in Blocks \cup SequenceIds /\ step' \in Steps
          /\ j' \in 0 .. INTERVAL /\ k' \in Nat /\ l' \in KeyIndices
          /\ results' \subseteq AllCells
    <3>1. CASE k + 1 = OPS
      BY <1>26, <3>1, TurnType DEF IterateRead
    <3>2. CASE k + 1 # OPS
      BY <1>26, <3>2 DEF IterateRead
    <3>3. QED  BY <3>1, <3>2
  <2>3. TypeOK'
    BY <2>1, <2>2, <1>26 DEF IterateRead, ItrType, T!increment_itr
  <2>4. Control'
    BY <1>26 DEF IterateRead, Turn, NextSequence, FollowingSequence,
       T!increment_itr
  <2>5. Counters'
    BY <1>26 DEF IterateRead, Turn, NextSequence, FollowingSequence,
       T!increment_itr
  <2>6. Contents'
    BY <1>26 DEF IterateRead, Turn, NextSequence, FollowingSequence,
       T!increment_itr
  <2>7. Iterator'
    BY <2>1, <1>26 DEF IterateRead, T!increment_itr, Turn, NextSequence,
       FollowingSequence
  <2>8. table' \subseteq Existing(KEY_COUNT) /\ step' # "exit"
    BY <1>26 DEF IterateRead, Turn, NextSequence, FollowingSequence,
       T!increment_itr
  <2>9. QED  BY <2>3, <2>4, <2>5, <2>6, <2>7, <2>8
<1>27. CASE IterateWrap
  <2>1. /\ itr' \in ItrType /\ itr'.here # {}
          /\ itr'.here \subseteq table /\ itr'.rest \subseteq table
    <3>1. CASE T!is_itr_valid(itr)
      BY <3>1, <1>27 DEF IterateWrap, ItrType, T!is_itr_valid
    <3>2. CASE ~T!is_itr_valid(itr)
      <4>1. table # {}
        <5>1. table = Existing(i) /\ INTERVAL <= i /\ i \in Nat
          BY <1>27 DEF IterateWrap
        <5>2. 0 \in Existing(i)
          BY <5>1
        <5>3. QED  BY <5>1, <5>2
      <4>2. QED  BY <3>2, <4>1, <1>27, BeginResult DEF IterateWrap
    <3>3. QED  BY <3>1, <3>2
  <2>2. TypeOK'
    BY <2>1, <1>27 DEF IterateWrap, ItrType, T!begin_itr
  <2>3. Control'
    BY <1>27 DEF IterateWrap, T!begin_itr
  <2>4. Counters'
    BY <1>27 DEF IterateWrap, T!begin_itr
  <2>5. Contents'
    BY <1>27 DEF IterateWrap, T!begin_itr
  <2>6. Iterator'
    BY <2>1, <1>27 DEF IterateWrap, T!begin_itr
  <2>7. table' \subseteq Existing(KEY_COUNT) /\ step' # "exit"
    BY <1>27 DEF IterateWrap, T!begin_itr
  <2>8. QED  BY <2>2, <2>3, <2>4, <2>5, <2>6, <2>7
<1>28. QED
  BY <1>1, <1>2, <1>3, <1>4, <1>5, <1>6, <1>7, <1>8, <1>9, <1>10, <1>11, <1>12,
     <1>13, <1>14, <1>15, <1>16, <1>17, <1>18, <1>19, <1>20, <1>21, <1>22,
     <1>23, <1>24, <1>25, <1>26, <1>27
  DEF Next, Step

LEMMA InvInit == Init => Inv
<1> USE Constants DEF Init, T!TableInit, T!EndItr
<1>1. Init => TypeOK
  <2>1. Init => itr \in [here : SUBSET KeyIndices, rest : SUBSET KeyIndices]
    OBVIOUS
  <2>2. Init => /\ i \in 0 .. KEY_COUNT /\ j \in 0 .. INTERVAL /\ k \in Nat
                /\ l \in KeyIndices /\ begin \in Existing(KEY_COUNT)
    BY DEF Existing, KeyIndices
  <2>3. Init => /\ enabled \in CONFIGS /\ run \in 0 .. RUN_COUNT - 1 /\ shim \in 1 .. SHIMS
                /\ blueprint \in 1 .. BLUEPRINTS
                /\ bench \in Blocks \cup SequenceIds /\ step \in Steps
    BY DEF Blocks, SequenceIds, Steps
  <2>4. Init => /\ results \subseteq AllCells /\ made \in BOOLEAN
                /\ table \subseteq KeyIndices
    OBVIOUS
  <2>5. QED  BY <2>1, <2>2, <2>3, <2>4 DEF TypeOK
<1>2. Init => Control /\ Counters /\ Contents /\ Iterator
  BY DEF Control, Counters, Contents, Iterator, SequenceIds, MeasureSteps
<1>3. Init => table \subseteq Existing(KEY_COUNT) /\ step # "exit"
  OBVIOUS
<1>4. QED  BY <1>1, <1>2, <1>3 DEF Inv

LEMMA Invariance == Spec => []Inv
<1>1. Inv /\ UNCHANGED vars => Inv'
  BY DEF Inv, TypeOK, Control, Counters, Contents, Iterator, vars, AllCells
<1>2. Inv /\ [Next]_vars => Inv'
  BY <1>1, InvStep
<1>3. QED  BY InvInit, <1>2, PTL DEF Spec

-----------------------------------------------------------------------------
\* Every counter stays in its loop's range, every key index inside the vector
\* of shuffled_unique_key(), and every recorded cell inside results()'s vectors.
THEOREM TypeCorrect == Spec => []TypeOK
<1>1. Inv => TypeOK
  BY DEF Inv
<1>2. QED  BY Invariance, <1>1, PTL

\* Each measurement is taken with exactly the first N keys in the table; the
\* erase_existing block, too, which erases and restores a wrapped stretch.
THEOREM Measured == Spec => []MeasuredWithNKeys
<1>1. Inv => MeasuredWithNKeys
  BY DEF Inv, Contents, Control, MeasuredWithNKeys, SequenceIds
<1>2. QED  BY Invariance, <1>1, PTL

\* The keys used as nonexisting are never in the table.
THEOREM NonexistingAbsent == Spec => []NonexistingNeverInserted
<1>1. Inv => NonexistingNeverInserted
  <2>1. SUFFICES ASSUME Inv PROVE table \cap Nonexisting = {}
    BY DEF NonexistingNeverInserted
  <2>2. table \subseteq Existing(KEY_COUNT)
    BY <2>1 DEF Inv
  <2>3. QED  BY <2>2, Constants DEF Existing, Nonexisting
<1>2. QED  BY Invariance, <1>1, PTL

\* Erasing and looking up a nonexisting key leaves the table alone and finds
\* nothing.
THEOREM NonexistingFindsNothing == Spec => NonexistingNotFound
<1> DEFINE A == step = "sweep" /\ bench \in {"erase_nonexisting",
   "get_nonexisting"}
                  => table' = table /\ ~T!is_itr_valid(itr')
<1>1. ASSUME Inv, Next PROVE A
  <2>1. SUFFICES ASSUME step = "sweep",
                        bench \in {"erase_nonexisting", "get_nonexisting"}
                 PROVE  table' = table /\ itr'.here = {}
    BY DEF T!is_itr_valid
  <2>2. l \notin table
    BY <1>1, <2>1, Constants DEF Inv, Counters, Contents, Existing, Nonexisting
  <2>3. EraseNonexisting \/ GetNonexisting
    BY <1>1, <2>1 DEF Next, Step, SkipBlock, EnterBlock, LeaveBlock, NextBlock,
       FillForReinsert, EraseForReinsert, StartReinsert, TimedInsert, GrowTable,
       StartErase, EraseExisting, RestoreErased, SkipSequence, StartSequence,
       InsertExisting, FindExisting, ReadExisting, StartIteration, IterateRead,
       IterateWrap, NextBlueprint, NextShim, NextRun, OutputResults, BlocksDone,
       Stopped
  <2>4. CASE EraseNonexisting
    BY <2>2, <2>4 DEF EraseNonexisting, T!erase, T!EndItr
  <2>5. CASE GetNonexisting
    BY <2>2, <2>5 DEF GetNonexisting, T!find, T!EndItr
  <2>6. QED  BY <2>3, <2>4, <2>5
<1>2. Inv /\ [Next]_vars => [A]_vars
  BY <1>1
<1>3. QED  BY Invariance, <1>2, PTL DEF Spec, NonexistingNotFound

\* get_existing and iteration only read through iterators that point at the
\* key they are after.
THEOREM ValidReads == Spec => []ReadsAreValid
<1>1. Inv => ReadsAreValid
  BY DEF Inv, Iterator, ReadsAreValid
<1>2. QED  BY Invariance, <1>1, PTL

\* reinsert_after_erasure times its insertions into a table with one leftover.
THEOREM ReinsertLeftover == Spec => []ReinsertLeavesOneKey
<1>1. Inv => ReinsertLeavesOneKey
  BY DEF Inv, Contents, ReinsertLeavesOneKey
<1>2. QED  BY Invariance, <1>1, PTL

\* erase_existing finds its first i keys in the table, and puts back all it
\* erased, however long the sequence is and wherever it starts.
THEOREM EraseHits == Spec => []EraseExistingHits
<1>1. Inv => EraseExistingHits
  <2>1. SUFFICES ASSUME Inv, bench = "erase_existing"
                 PROVE  /\ step = "sweep" /\ k < i => l \in table
                        /\ step = "insert" => table = Existing(i)
    BY DEF EraseExistingHits
  <2>2. ASSUME step = "sweep", k < i PROVE l \in table
    <3>1. /\ l \in Existing(i) /\ l = (begin + k) % i
          /\ table = Existing(i) \ Stretch(begin, k, i)
      BY <2>1, <2>2 DEF Inv, Counters, Contents
    <3>2. begin \in Nat /\ k \in Nat /\ i \in Nat \ {0}
      BY <2>1, <2>2, Constants DEF Inv, TypeOK, Existing
    <3>3. l \notin Stretch(begin, k, i)
      BY <2>2, <3>1, <3>2, StretchFresh
    <3>4. QED  BY <3>1, <3>3
  <2>3. step = "insert" => table = Existing(i)
    BY <2>1 DEF Inv, Contents
  <2>4. QED  BY <2>2, <2>3
<1>2. QED  BY Invariance, <1>1, PTL

-----------------------------------------------------------------------------
(***************************************************************************)
(* Which cells are written.  The position of the loops says it all: those  *)
(* of earlier runs, shims and blueprints, and of this one those Passed.    *)
(* Filled is the number of whole intervals behind the insertions.          *)
(***************************************************************************)
Filled == (i - j) \div INTERVAL

BlockNumber(id) == CASE id = "insert_nonexisting"     -> 1
                     [] id = "reinsert_after_erasure" -> 2
                     [] id = "erase_existing"         -> 3
                     [] OTHER                         -> 4

SequenceNumber(id) == CASE id = "insert_existing"   -> 1
                        [] id = "erase_nonexisting" -> 2
                        [] id = "get_existing"      -> 3
                        [] id = "get_nonexisting"   -> 4
                        [] id = "iteration"         -> 5
                        [] OTHER                    -> 6

\* The stop the driver has made already measured id.
MeasuredNow(id) == \/ step = "restore"
                   \/ /\ bench \in SequenceIds
                      /\ SequenceNumber(id) < SequenceNumber(bench)

Passed(id, p) ==
  \/ BlockNumber(id) < BlockNumber(bench)
  \/ /\ BlockNumber(id) = BlockNumber(bench)
     /\ \/ step \in {"next", "output"}
        \/ /\ step # "enter"
           /\ p < Filled \/ (p = Filled /\ MeasuredNow(id))

\* The iterations of main()'s loops before the current one.
Before(r, s, b) == \/ r < run
                   \/ r = run /\ s < shim
                   \/ r = run /\ s = shim /\ b < blueprint

Aligned == /\ Filled \in Nat /\ i - j = INTERVAL * Filled
           /\ step \in MeasureSteps \cup {"restore"} => j = INTERVAL

Written ==
  \A r \in 0 .. RUN_COUNT - 1, s \in 1 .. SHIMS, b \in 1 .. BLUEPRINTS,
     id \in enabled, p \in 0 .. Points - 1 :
    <<s, b, id, r * Points + p>> \in results
      <=> \/ Before(r, s, b)
          \/ r = run /\ s = shim /\ b = blueprint /\ Passed(id, p)

AtTheEnd == step = "output" =>
  /\ run = RUN_COUNT - 1 /\ shim = SHIMS /\ blueprint = BLUEPRINTS
  /\ bench = "combined"

Progress == Aligned /\ Written /\ AtTheEnd

\* No insertion is left over behind the last measurement point.
LEMMA WholePoints == KEY_COUNT = INTERVAL * Points
<1>1. KEY_COUNT = INTERVAL * Points + (KEY_COUNT % INTERVAL)
  BY Constants, DivMod DEF Points
<1>2. INTERVAL * Points \in Nat
  BY Constants
<1>3. QED  BY <1>1, <1>2, Config DEF ConfigAssumption

\* c whole intervals of insertions.
LEMMA WholeIntervals ==
  ASSUME NEW c \in Nat
  PROVE  (INTERVAL * c) \div INTERVAL = c
<1> DEFINE n == INTERVAL * c
<1>1. n \in Nat
  BY Constants
<1>2. n \div INTERVAL \in Nat /\ n % INTERVAL \in 0 .. INTERVAL - 1
      /\ n = INTERVAL * (n \div INTERVAL) + (n % INTERVAL)
  BY <1>1, Constants, DivMod
<1>3. INTERVAL * c + 0 = INTERVAL * (n \div INTERVAL) + (n % INTERVAL)
  BY <1>1, <1>2
<1>4. 0 \in 0 .. INTERVAL - 1
  BY Constants
<1>5. c = n \div INTERVAL
  BY <1>2, <1>3, <1>4, Constants, DivModUnique
<1>6. QED  BY <1>5

\* The measurement at the end of an interval has the number of the intervals
\* before it.
LEMMA PointOf ==
  ASSUME NEW n \in 0 .. KEY_COUNT, NEW c \in Nat, n = INTERVAL * c + INTERVAL
  PROVE  n \div INTERVAL - 1 = c /\ c \in 0 .. Points - 1
<1>1. n = INTERVAL * (c + 1)
  BY Constants
<1>2. n \div INTERVAL = c + 1
  BY <1>1, WholeIntervals
<1>3. ~(Points < c + 1)
  <2>1. SUFFICES ASSUME Points < c + 1 PROVE FALSE
    OBVIOUS
  <2>2. INTERVAL * (c + 1) >= INTERVAL * Points + INTERVAL
    BY <2>1, Constants, MultStep
  <2>3. QED  BY <1>1, <2>2, WholePoints, Constants
<1>4. QED  BY <1>2, <1>3, Constants

\* How Filled follows the insertions.
LEMMA FilledStep ==
  ASSUME Aligned, Inv, NEW d \in {0, 1}, i' - j' = (i - j) + INTERVAL * d
  PROVE  Filled' = Filled + d /\ i' - j' = INTERVAL * Filled'
<1>1. i' - j' = INTERVAL * (Filled + d)
  BY Constants DEF Aligned
<1>2. (i' - j') \div INTERVAL = Filled + d
  BY <1>1, WholeIntervals DEF Aligned
<1>3. Filled' = Filled + d
  BY <1>2 DEF Filled
<1>4. QED  BY <1>1, <1>3

\* A step that records nothing.
LEMMA Quiet ==
  ASSUME Written, UNCHANGED <<slot, enabled, results>>,
         \A id \in enabled, p \in 0 .. Points - 1 :
            Passed(id, p)' <=> Passed(id, p)
  PROVE  Written'
BY DEF Written, Before, slot

\* A step that records the point q of x.
LEMMA Recorded ==
  ASSUME Inv, Written, UNCHANGED <<slot, enabled>>,
         NEW x \in enabled, NEW q \in 0 .. Points - 1, ~Passed(x, q),
         Record(x, q),
         \A id \in enabled, p \in 0 .. Points - 1 :
            Passed(id, p)' <=> Passed(id, p) \/ (id = x /\ p = q)
  PROVE  Written' /\ results' # results
<1>1. /\ run \in 0 .. RUN_COUNT - 1 /\ shim \in 1 .. SHIMS
      /\ blueprint \in 1 .. BLUEPRINTS
  BY DEF Inv, TypeOK
<1>2. Cell(x, q) = <<shim, blueprint, x, run * Points + q>>
  BY DEF Cell
<1>3. results' = results \cup {Cell(x, q)}
  BY DEF Record
<1>4. Cell(x, q) \notin results
  BY <1>1, <1>2, Constants DEF Written, Before
<1>5. ASSUME NEW r \in 0 .. RUN_COUNT - 1, NEW p \in 0 .. Points - 1,
             r * Points + p = run * Points + q
      PROVE  r = run /\ p = q
  <2>1. Points * r + p = Points * run + q
    BY <1>1, <1>5, Constants
  <2>2. r \in Nat /\ run \in Nat /\ Points \in Nat
    BY <1>1, Constants
  <2>3. QED  BY <2>1, <2>2, DivModUnique
<1>6. ASSUME NEW r \in 0 .. RUN_COUNT - 1, NEW s \in 1 .. SHIMS,
             NEW b \in 1 .. BLUEPRINTS, NEW id \in enabled,
             NEW p \in 0 .. Points - 1
      PROVE  <<s, b, id, r * Points + p>> \in results'
               <=> \/ Before(r, s, b)
                   \/ /\ r = run /\ s = shim /\ b = blueprint
                      /\ Passed(id, p)'
  <2>1. <<s, b, id, r * Points + p>> \in results'
          <=> \/ <<s, b, id, r * Points + p>> \in results
              \/ <<s, b, id, r * Points + p>> = Cell(x, q)
    BY <1>3
  <2>2. <<s, b, id, r * Points + p>> = Cell(x, q)
          <=> s = shim /\ b = blueprint /\ id = x /\ r = run /\ p = q
    BY <1>2, <1>5
  <2>3. <<s, b, id, r * Points + p>> \in results
          <=> \/ Before(r, s, b)
              \/ r = run /\ s = shim /\ b = blueprint /\ Passed(id, p)
    BY DEF Written
  <2>4. QED  BY <2>1, <2>2, <2>3
<1>7. Written'
  BY <1>6 DEF Written, Before, slot
<1>8. QED  BY <1>3, <1>4, <1>7

\* Going on to the next sequence passes the current point of this one.
LEMMA NextSequencePasses ==
  ASSUME Inv, Aligned, bench \in SequenceIds, step \in MeasureSteps,
         NextSequence, i' = i
  PROVE  /\ Aligned' /\ step' # "output"
         /\ \A id \in enabled, p \in 0 .. Points - 1 :
              Passed(id, p)' <=> Passed(id, p) \/ (id = bench /\ p = Filled)
<1>1. /\ enabled \subseteq BenchmarkIds
      /\ i \in 0 .. KEY_COUNT /\ j \in 0 .. INTERVAL
      /\ j = INTERVAL /\ Filled \in Nat
  BY Config DEF ConfigAssumption, Inv, TypeOK, Aligned, MeasureSteps
<1> USE <1>1 DEF MeasureSteps, Blocks, SequenceIds, BenchmarkIds
<1>2. CASE bench = "iteration"
  <2>1. i' - j' = (i - j) + INTERVAL * 1
    BY <1>2, Constants DEF NextSequence
  <2>2. Filled' = Filled + 1 /\ i' - j' = INTERVAL * Filled'
    BY <2>1, FilledStep
  <2>3. Aligned' /\ step' # "output"
    BY <1>2, <2>2 DEF Aligned, NextSequence
  <2>4. ASSUME NEW id \in enabled, NEW p \in 0 .. Points - 1
        PROVE  Passed(id, p)'
                 <=> Passed(id, p) \/ (id = bench /\ p = Filled)
    BY <1>2, <2>2, <2>4, Constants
       DEF NextSequence, FollowingSequence, Passed, MeasuredNow, BlockNumber,
           SequenceNumber
  <2>5. QED  BY <2>3, <2>4
<1>3. CASE bench # "iteration"
  <2>1. Filled' = Filled /\ j' = j /\ step' = "measure"
    BY <1>3 DEF NextSequence, Filled
  <2>2. Aligned' /\ step' # "output"
    BY <2>1 DEF Aligned
  <2>3. ASSUME NEW id \in enabled, NEW p \in 0 .. Points - 1
        PROVE  Passed(id, p)'
                 <=> Passed(id, p) \/ (id = bench /\ p = Filled)
    BY <1>3, <2>1, <2>3, Constants
       DEF NextSequence, FollowingSequence, Passed, MeasuredNow, BlockNumber,
           SequenceNumber
  <2>4. QED  BY <2>2, <2>3
<1>4. QED  BY <1>2, <1>3

\* The measurement a stop takes belongs to the point Filled.
LEMMA PointNow ==
  ASSUME Inv, Aligned, step \in MeasureSteps
  PROVE  result_index = Filled /\ Filled \in 0 .. Points - 1
<1>1. i \in 0 .. KEY_COUNT /\ i = INTERVAL * Filled + INTERVAL
  BY Constants DEF Inv, TypeOK, Aligned, MeasureSteps
<1>2. QED  BY <1>1, PointOf DEF Aligned, result_index

\* A turn of one of the sequences.
LEMMA TurnProgress ==
  ASSUME Inv, Progress, bench \in SequenceIds, bench \in enabled,
         step \in {"sweep", "read"}, UNCHANGED <<slot, i, enabled>>,
         NEW next, Turn(next)
  PROVE  Progress' /\ (k = OPS - 1 => results' # results)
<1> USE Constants DEF Progress, MeasureSteps, SequenceIds
<1>1. k \in Nat /\ j \in 0 .. INTERVAL /\ i \in 0 .. KEY_COUNT
  BY DEF Inv, TypeOK
<1>2. CASE k + 1 = OPS
  <2>1. Record(bench, Filled) /\ Filled \in 0 .. Points - 1
    BY <1>2, PointNow DEF Turn
  <2>2. NextSequence
    BY <1>2 DEF Turn
  <2>3. Aligned' /\ AtTheEnd'
    BY <2>2, NextSequencePasses DEF AtTheEnd
  <2>4. \A id \in enabled, p \in 0 .. Points - 1 :
          Passed(id, p)' <=> Passed(id, p) \/ (id = bench /\ p = Filled)
    BY <2>2, NextSequencePasses
  <2>5. ~Passed(bench, Filled)
    BY DEF Passed, MeasuredNow, BlockNumber, SequenceNumber, Aligned
  <2>6. Written' /\ results' # results
    BY <2>1, <2>4, <2>5, Recorded
  <2>7. QED  BY <2>3, <2>6
<1>3. CASE k + 1 # OPS
  <2>1. UNCHANGED <<bench, j, results>> /\ step' = "sweep" /\ Filled' = Filled
    BY <1>3 DEF Turn, Filled
  <2>2. Aligned' /\ AtTheEnd'
    BY <2>1 DEF Aligned, AtTheEnd
  <2>3. ASSUME NEW id \in enabled, NEW p \in 0 .. Points - 1
        PROVE  Passed(id, p)' <=> Passed(id, p)
    BY <2>1, <2>3 DEF Passed, MeasuredNow
  <2>4. Written'
    BY <2>1, <2>3, Quiet
  <2>5. QED  BY <1>1, <1>3, <2>2, <2>4
<1>4. QED  BY <1>2, <1>3

\* A recording never meets a written cell, and at the end none is left: every
\* action keeps track of what is written.
LEMMA ProgressStep ==
  ASSUME Inv, Progress, Next
  PROVE  Progress' /\ (MeasurementEnds => results' # results)
<1> USE DEF Progress
<1>1. Inv' /\ enabled' = enabled
  BY InvStep DEF Next
<1>2. /\ enabled \subseteq BenchmarkIds
      /\ i \in 0 .. KEY_COUNT /\ j \in 0 .. INTERVAL /\ k \in Nat
      /\ bench \in Blocks \cup SequenceIds /\ step \in Steps
      /\ Control /\ Counters
  BY Config DEF ConfigAssumption, Inv, TypeOK
<1>3. UNCHANGED <<i, j>> => Filled' = Filled
  BY DEF Filled
<1>4. i' - j' = i - j => Filled' = Filled
  BY DEF Filled
<1>5. i' = 0 /\ j' = 0 => Filled' = 0 /\ i' - j' = INTERVAL * Filled'
  <2>1. (INTERVAL * 0) \div INTERVAL = 0
    BY WholeIntervals
  <2>2. INTERVAL * 0 = 0
    BY Constants
  <2>3. QED  BY <2>1, <2>2 DEF Filled
<1>6. i' - j' = (i - j) + INTERVAL
        => Filled' = Filled + 1 /\ i' - j' = INTERVAL * Filled'
  BY FilledStep, Constants
<1> USE <1>2, <1>3 DEF MeasureSteps, Blocks, SequenceIds, BenchmarkIds, Steps
<1>7. CASE SkipBlock
  <2>1. Aligned' /\ AtTheEnd'
    BY <1>7 DEF SkipBlock, Aligned, AtTheEnd
  <2>2. Written'
    <3>1. ASSUME NEW id \in enabled, NEW p \in 0 .. Points - 1
          PROVE  Passed(id, p)' <=> Passed(id, p)
      BY <1>7, <3>1 DEF SkipBlock, Defined, Passed, BlockNumber, Control
    <3>2. QED  BY <1>1, <1>7, <3>1, Quiet DEF SkipBlock
  <2>3. ~MeasurementEnds
    BY <1>7 DEF SkipBlock, MeasurementEnds, TimedInsert
  <2>4. QED  BY <2>1, <2>2, <2>3
<1>8. CASE EnterBlock
  <2>1. Aligned' /\ AtTheEnd'
    BY <1>5, <1>8 DEF EnterBlock, Aligned, AtTheEnd
  <2>2. Written'
    <3>1. ASSUME NEW id \in enabled, NEW p \in 0 .. Points - 1
          PROVE  Passed(id, p)' <=> Passed(id, p)
      BY <1>5, <1>8, <3>1, Constants
         DEF EnterBlock, Passed, MeasuredNow, Control
    <3>2. QED  BY <1>1, <1>8, <3>1, Quiet DEF EnterBlock
  <2>3. ~MeasurementEnds
    BY <1>8 DEF EnterBlock, MeasurementEnds, TimedInsert
  <2>4. QED  BY <2>1, <2>2, <2>3
<1>9. CASE LeaveBlock
  <2>1. Aligned' /\ AtTheEnd'
    BY <1>9 DEF LeaveBlock, Aligned, AtTheEnd
  <2>2. Filled = Points
    <3>1. INTERVAL * Points + 0 = INTERVAL * Filled + j
      BY <1>9, WholePoints, Constants DEF LeaveBlock, Aligned
    <3>2. j \in 0 .. INTERVAL - 1 /\ 0 \in 0 .. INTERVAL - 1
      BY <1>9, Constants DEF LeaveBlock, Counters
    <3>3. QED  BY <3>1, <3>2, Constants, DivModUnique DEF Aligned
  <2>3. Written'
    <3>1. ASSUME NEW id \in enabled, NEW p \in 0 .. Points - 1
          PROVE  Passed(id, p)' <=> Passed(id, p)
      BY <1>9, <2>2, <3>1, Constants DEF LeaveBlock, Passed
    <3>2. QED  BY <1>1, <1>9, <3>1, Quiet DEF LeaveBlock
  <2>4. ~MeasurementEnds
    BY <1>9 DEF LeaveBlock, MeasurementEnds, TimedInsert
  <2>5. QED  BY <2>1, <2>3, <2>4
<1>10. CASE NextBlock
  <2>1. Aligned' /\ AtTheEnd'
    BY <1>10 DEF NextBlock, Aligned, AtTheEnd
  <2>2. Written'
    <3>1. ASSUME NEW id \in enabled, NEW p \in 0 .. Points - 1
          PROVE  Passed(id, p)' <=> Passed(id, p)
      BY <1>10, <3>1 DEF NextBlock, Following, Passed, BlockNumber, Control
    <3>2. QED  BY <1>1, <1>10, <3>1, Quiet DEF NextBlock
  <2>3. ~MeasurementEnds
    BY <1>10 DEF NextBlock, MeasurementEnds, TimedInsert
  <2>4. QED  BY <2>1, <2>2, <2>3
<1>11. CASE FillForReinsert \/ EraseForReinsert \/ StartReinsert
  <2>1. /\ UNCHANGED <<slot, bench, i, j, results>>
        /\ step \in {"fill", "wipe"} /\ step' \in {"fill", "wipe", "insert"}
    BY <1>11 DEF FillForReinsert, EraseForReinsert, StartReinsert
  <2>2. Aligned' /\ AtTheEnd'
    BY <2>1 DEF Aligned, AtTheEnd
  <2>3. Written'
    <3>1. ASSUME NEW id \in enabled, NEW p \in 0 .. Points - 1
          PROVE  Passed(id, p)' <=> Passed(id, p)
      BY <2>1, <3>1 DEF Passed, MeasuredNow
    <3>2. QED  BY <1>1, <2>1, <3>1, Quiet
  <2>4. ~MeasurementEnds
    BY <2>1 DEF MeasurementEnds, TimedInsert
  <2>5. QED  BY <2>2, <2>3, <2>4
<1>12. CASE TimedInsert
  <2>1. CASE j + 1 = INTERVAL
    <3>1. Filled' = Filled + 1 /\ Aligned' /\ AtTheEnd'
      BY <1>6, <1>12, <2>1, Constants DEF TimedInsert, Aligned, AtTheEnd
    <3>2. /\ (i + 1) \div INTERVAL - 1 = Filled
          /\ Filled \in 0 .. Points - 1
      <4>1. i + 1 = INTERVAL * Filled + INTERVAL /\ i + 1 \in 0 .. KEY_COUNT
        BY <1>12, <2>1, Constants DEF TimedInsert, Aligned
      <4>2. QED  BY <4>1, PointOf DEF Aligned
    <3>3. Record(bench, Filled) /\ bench \in enabled
      BY <1>12, <2>1, <3>2 DEF TimedInsert, Control
    <3>4. ~Passed(bench, Filled)
      BY <1>12, Constants DEF TimedInsert, Passed, MeasuredNow, BlockNumber,
         Aligned
    <3>5. ASSUME NEW id \in enabled, NEW p \in 0 .. Points - 1
          PROVE  Passed(id, p)'
                   <=> Passed(id, p) \/ (id = bench /\ p = Filled)
      BY <1>12, <3>1, <3>2, <3>5, Constants
         DEF TimedInsert, Passed, MeasuredNow, BlockNumber
    <3>6. Written' /\ results' # results
      BY <1>1, <1>12, <3>2, <3>3, <3>4, <3>5, Recorded DEF TimedInsert
    <3>7. QED  BY <3>1, <3>6
  <2>2. CASE j + 1 # INTERVAL
    <3>1. Filled' = Filled /\ Aligned' /\ AtTheEnd'
      BY <1>4, <1>12, <2>2, Constants DEF TimedInsert, Aligned, AtTheEnd
    <3>2. ASSUME NEW id \in enabled, NEW p \in 0 .. Points - 1
          PROVE  Passed(id, p)' <=> Passed(id, p)
      BY <1>12, <3>1, <3>2 DEF TimedInsert, Passed, MeasuredNow
    <3>3. Written'
      BY <1>1, <1>12, <2>2, <3>2, Quiet DEF TimedInsert
    <3>4. ~MeasurementEnds
      BY <1>12, <2>2, Constants DEF TimedInsert, MeasurementEnds
    <3>5. QED  BY <3>1, <3>3, <3>4
  <2>3. QED  BY <2>1, <2>2
<1>13. CASE GrowTable
  <2>1. Filled' = Filled /\ Aligned' /\ AtTheEnd'
    BY <1>4, <1>13, Constants DEF GrowTable, Aligned, AtTheEnd
  <2>2. ASSUME NEW id \in enabled, NEW p \in 0 .. Points - 1
        PROVE  Passed(id, p)' <=> Passed(id, p)
    BY <1>13, <2>1, <2>2
       DEF GrowTable, Passed, MeasuredNow, BlockNumber, SequenceNumber
  <2>3. Written'
    BY <1>1, <1>13, <2>2, Quiet DEF GrowTable
  <2>4. ~MeasurementEnds
    BY <1>13 DEF GrowTable, TimedInsert, MeasurementEnds
  <2>5. QED  BY <2>1, <2>3, <2>4
<1>14. CASE StartErase
  <2>1. /\ UNCHANGED <<slot, bench, i, j, results>>
        /\ step = "measure" /\ step' = "sweep" /\ bench = "erase_existing"
    BY <1>14 DEF StartErase
  <2>2. Aligned' /\ AtTheEnd'
    BY <2>1 DEF Aligned, AtTheEnd
  <2>3. Written'
    <3>1. ASSUME NEW id \in enabled, NEW p \in 0 .. Points - 1
          PROVE  Passed(id, p)' <=> Passed(id, p)
      BY <2>1, <3>1 DEF Passed, MeasuredNow
    <3>2. QED  BY <1>1, <2>1, <3>1, Quiet
  <2>4. ~MeasurementEnds
    BY <2>1 DEF MeasurementEnds, TimedInsert
  <2>5. QED  BY <2>2, <2>3, <2>4
<1>15. CASE EraseExisting
  <2>1. /\ UNCHANGED <<slot, bench, i, j>> /\ step = "sweep"
        /\ bench = "erase_existing" /\ bench \in enabled
    BY <1>15 DEF EraseExisting, Control
  <2>2. Aligned' /\ AtTheEnd' /\ Filled' = Filled
    BY <1>15, <2>1 DEF EraseExisting, Aligned, AtTheEnd
  <2>3. CASE k + 1 = OPS
    <3>1. Record(bench, Filled) /\ Filled \in 0 .. Points - 1
      BY <1>15, <2>1, <2>3, PointNow DEF EraseExisting
    <3>2. ~Passed(bench, Filled)
      BY <2>1 DEF Passed, MeasuredNow, BlockNumber, Aligned
    <3>3. ASSUME NEW id \in enabled, NEW p \in 0 .. Points - 1
          PROVE  Passed(id, p)'
                   <=> Passed(id, p) \/ (id = bench /\ p = Filled)
      BY <1>15, <2>1, <2>2, <2>3, <3>3
         DEF EraseExisting, Passed, MeasuredNow, BlockNumber
    <3>4. Written' /\ results' # results
      BY <1>1, <2>1, <3>1, <3>2, <3>3, Recorded
    <3>5. QED  BY <2>2, <3>4
  <2>4. CASE k + 1 # OPS
    <3>1. UNCHANGED <<step, results>>
      BY <1>15, <2>4 DEF EraseExisting
    <3>2. ASSUME NEW id \in enabled, NEW p \in 0 .. Points - 1
          PROVE  Passed(id, p)' <=> Passed(id, p)
      BY <2>1, <2>2, <3>1, <3>2 DEF Passed, MeasuredNow
    <3>3. Written'
      BY <1>1, <2>1, <3>1, <3>2, Quiet
    <3>4. ~MeasurementEnds
      BY <2>1, <2>4, Constants DEF MeasurementEnds, TimedInsert
    <3>5. QED  BY <2>2, <3>3, <3>4
  <2>5. QED  BY <2>3, <2>4
<1>16. CASE RestoreErased
  <2>1. /\ UNCHANGED <<slot, bench, i, results>> /\ step = "restore"
        /\ bench = "erase_existing"
    BY <1>16 DEF RestoreErased, Control
  <2>2. ~MeasurementEnds
    BY <2>1 DEF MeasurementEnds, TimedInsert
  <2>3. CASE k + 1 = OPS
    <3>1. j' = 0 /\ step' = "insert" /\ j = INTERVAL
      BY <1>16, <2>1, <2>3 DEF RestoreErased, Aligned
    <3>2. Filled' = Filled + 1 /\ i' - j' = INTERVAL * Filled'
      BY <1>6, <2>1, <3>1, Constants
    <3>3. Aligned' /\ AtTheEnd'
      BY <3>1, <3>2 DEF Aligned, AtTheEnd
    <3>4. ASSUME NEW id \in enabled, NEW p \in 0 .. Points - 1
          PROVE  Passed(id, p)' <=> Passed(id, p)
      BY <2>1, <3>1, <3>2, <3>4 DEF Passed, MeasuredNow, Aligned
    <3>5. Written'
      BY <1>1, <2>1, <3>4, Quiet
    <3>6. QED  BY <2>2, <3>3, <3>5
  <2>4. CASE k + 1 # OPS
    <3>1. UNCHANGED <<step, j>>
      BY <1>16, <2>4 DEF RestoreErased
    <3>2. Aligned' /\ AtTheEnd'
      BY <2>1, <3>1 DEF Aligned, AtTheEnd
    <3>3. ASSUME NEW id \in enabled, NEW p \in 0 .. Points - 1
          PROVE  Passed(id, p)' <=> Passed(id, p)
      BY <2>1, <3>1, <3>3 DEF Passed, MeasuredNow
    <3>4. Written'
      BY <1>1, <2>1, <3>3, Quiet
    <3>5. QED  BY <2>2, <3>2, <3>4
  <2>5. QED  BY <2>3, <2>4
<1>17. CASE SkipSequence
  <2>1. /\ UNCHANGED <<slot, i, results>> /\ step = "measure"
        /\ bench \in SequenceIds /\ bench \notin enabled /\ NextSequence
    BY <1>17 DEF SkipSequence
  <2>2. /\ Aligned' /\ AtTheEnd'
        /\ \A id \in enabled, p \in 0 .. Points - 1 :
             Passed(id, p)' <=> Passed(id, p)
    BY <2>1, NextSequencePasses DEF AtTheEnd
  <2>3. Written'
    BY <1>1, <2>1, <2>2, Quiet
  <2>4. ~MeasurementEnds
    BY <2>1 DEF MeasurementEnds, TimedInsert
  <2>5. QED  BY <2>2, <2>3, <2>4
<1>18. CASE StartSequence \/ FindExisting \/ StartIteration \/ IterateWrap
  <2>1. /\ UNCHANGED <<slot, bench, i, j, results>>
        /\ step \in MeasureSteps /\ step' \in MeasureSteps
    BY <1>18 DEF StartSequence, FindExisting, StartIteration, IterateWrap
  <2>2. Aligned' /\ AtTheEnd'
    BY <2>1 DEF Aligned, AtTheEnd
  <2>3. Written'
    <3>1. ASSUME NEW id \in enabled, NEW p \in 0 .. Points - 1
          PROVE  Passed(id, p)' <=> Passed(id, p)
      BY <2>1, <3>1 DEF Passed, MeasuredNow
    <3>2. QED  BY <1>1, <2>1, <3>1, Quiet
  <2>4. ~MeasurementEnds
    BY <1>18 DEF MeasurementEnds, TimedInsert, StartSequence, FindExisting,
       StartIteration, IterateWrap
  <2>5. QED  BY <2>2, <2>3, <2>4
<1>19. CASE InsertExisting \/ EraseNonexisting \/ GetNonexisting
  <2>1. /\ bench \in SequenceIds /\ bench \in enabled /\ step = "sweep"
        /\ UNCHANGED <<slot, i>>
    BY <1>19 DEF InsertExisting, EraseNonexisting, GetNonexisting, Control
  <2>2. PICK next : Turn(next)
    BY <1>19 DEF InsertExisting, EraseNonexisting, GetNonexisting
  <2>3. Progress' /\ (k = OPS - 1 => results' # results)
    BY <1>1, <2>1, <2>2, TurnProgress
  <2>4. QED  BY <2>1, <2>3 DEF MeasurementEnds, TimedInsert
<1>20. CASE ReadExisting
  <2>1. /\ bench \in SequenceIds /\ bench \in enabled /\ step = "read"
        /\ UNCHANGED <<slot, i>>
    BY <1>20 DEF ReadExisting, Control
  <2>2. Turn(Wrap(l, 0, i))
    BY <1>20 DEF ReadExisting, Inv, Iterator
  <2>3. Progress' /\ (k = OPS - 1 => results' # results)
    BY <1>1, <2>1, <2>2, TurnProgress
  <2>4. QED  BY <2>1, <2>3 DEF MeasurementEnds, TimedInsert
<1>21. CASE IterateRead
  <2>1. /\ bench \in SequenceIds /\ bench \in enabled /\ step = "sweep"
        /\ UNCHANGED <<slot, i>>
    BY <1>21 DEF IterateRead, Control
  <2>2. CASE k + 1 = OPS
    <3>1. Turn(0)
      BY <1>21, <2>2 DEF IterateRead
    <3>2. Progress' /\ (k = OPS - 1 => results' # results)
      BY <1>1, <2>1, <3>1, TurnProgress
    <3>3. QED  BY <2>1, <3>2 DEF MeasurementEnds, TimedInsert
  <2>3. CASE k + 1 # OPS
    <3>1. UNCHANGED <<bench, j, results>> /\ step' = "wrap"
      BY <1>21, <2>3 DEF IterateRead
    <3>2. Aligned' /\ AtTheEnd'
      BY <2>1, <3>1 DEF Aligned, AtTheEnd
    <3>3. ASSUME NEW id \in enabled, NEW p \in 0 .. Points - 1
          PROVE  Passed(id, p)' <=> Passed(id, p)
      BY <2>1, <3>1, <3>3 DEF Passed, MeasuredNow
    <3>4. Written'
      BY <1>1, <2>1, <3>1, <3>3, Quiet
    <3>5. ~MeasurementEnds
      BY <2>1, <2>3, Constants DEF MeasurementEnds, TimedInsert
    <3>6. QED  BY <3>2, <3>4, <3>5
  <2>4. QED  BY <2>2, <2>3
<1>22. CASE NextBlueprint \/ NextShim \/ NextRun
  <2>1. /\ BlocksDone /\ Restart /\ UNCHANGED results
        /\ run \in Nat /\ shim \in Nat /\ blueprint \in Nat
    BY <1>22 DEF NextBlueprint, NextShim, NextRun, Restart, Inv, TypeOK
  <2>2. Aligned' /\ AtTheEnd'
    BY <2>1 DEF BlocksDone, Restart, Aligned, AtTheEnd
  <2>3. \A id \in enabled, p \in 0 .. Points - 1 :
          Passed(id, p) /\ ~Passed(id, p)'
    BY <2>1 DEF BlocksDone, Restart, Passed, BlockNumber
  <2>4. ASSUME NEW r \in 0 .. RUN_COUNT - 1, NEW s \in 1 .. SHIMS,
               NEW b \in 1 .. BLUEPRINTS
        PROVE  Before(r, s, b)'
                 <=> \/ Before(r, s, b)
                     \/ r = run /\ s = shim /\ b = blueprint
    BY <1>22, <2>1, <2>4, Constants
       DEF NextBlueprint, NextShim, NextRun, Restart, Before
  <2>5. Written'
    BY <1>1, <2>1, <2>3, <2>4 DEF Written
  <2>6. ~MeasurementEnds
    BY <2>1 DEF BlocksDone, MeasurementEnds, TimedInsert
  <2>7. QED  BY <2>2, <2>5, <2>6
<1>23. CASE OutputResults
  <2>1. /\ BlocksDone /\ UNCHANGED <<slot, bench, i, j, results>>
        /\ step' = "output"
    BY <1>23 DEF OutputResults
  <2>2. Aligned' /\ AtTheEnd'
    BY <1>23, <2>1, Constants
       DEF OutputResults, BlocksDone, Aligned, AtTheEnd, slot, Inv, TypeOK
  <2>3. Written'
    <3>1. ASSUME NEW id \in enabled, NEW p \in 0 .. Points - 1
          PROVE  Passed(id, p)' <=> Passed(id, p)
      BY <2>1, <3>1 DEF BlocksDone, Passed
    <3>2. QED  BY <1>1, <2>1, <3>1, Quiet
  <2>4. ~MeasurementEnds
    BY <2>1 DEF BlocksDone, MeasurementEnds, TimedInsert
  <2>5. QED  BY <2>2, <2>3, <2>4
<1>24. CASE Stopped
  <2>1. UNCHANGED vars /\ step \in {"output", "exit"}
    BY <1>24 DEF Stopped
  <2>2. Aligned' /\ AtTheEnd'
    BY <2>1 DEF vars, Aligned, AtTheEnd
  <2>3. Written'
    BY <2>1 DEF vars, Written, Before, Passed, MeasuredNow, Filled
  <2>4. ~MeasurementEnds
    BY <2>1 DEF MeasurementEnds, TimedInsert
  <2>5. QED  BY <2>2, <2>3, <2>4
<1>25. QED
  BY <1>7, <1>8, <1>9, <1>10, <1>11, <1>12, <1>13, <1>14, <1>15, <1>16, <1>17,
     <1>18, <1>19, <1>20, <1>21, <1>22, <1>23, <1>24
  DEF Next, Step

\* Nothing is written and nothing passed when main() starts.
LEMMA ProgressInit == Init => Progress
<1>1. SUFFICES ASSUME Init PROVE Progress
  OBVIOUS
<1>2. Filled = 0 /\ i - j = INTERVAL * Filled
  <2>1. (INTERVAL * 0) \div INTERVAL = 0 /\ INTERVAL * 0 = 0
    BY WholeIntervals, Constants
  <2>2. QED  BY <1>1, <2>1 DEF Init, Filled
<1>3. Aligned /\ AtTheEnd
  BY <1>1, <1>2 DEF Init, Aligned, AtTheEnd, MeasureSteps
<1>4. Written
  <2>1. ASSUME NEW r \in 0 .. RUN_COUNT - 1, NEW s \in 1 .. SHIMS,
               NEW b \in 1 .. BLUEPRINTS
        PROVE  ~Before(r, s, b)
    BY <1>1, <2>1, Constants DEF Init, Before
  <2>2. \A id \in enabled : \A p : ~Passed(id, p)
    BY <1>1 DEF Init, Passed, BlockNumber
  <2>3. results = {}
    BY <1>1 DEF Init
  <2>4. QED  BY <2>1, <2>2, <2>3 DEF Written
<1>5. QED  BY <1>3, <1>4 DEF Progress

\* What is written always agrees with the position of the loops.
LEMMA ProgressInvariance == Spec => []Progress
<1>1. Progress /\ UNCHANGED vars => Progress'
  BY DEF Progress, Aligned, Written, AtTheEnd, Before, Passed, MeasuredNow,
     Filled, vars
<1>2. Inv /\ Progress /\ [Next]_vars => Progress'
  BY <1>1, ProgressStep
<1>3. QED  BY ProgressInit, Invariance, <1>2, PTL DEF Spec

\* Every measurement that ends fills a cell of its own: the address in the flat
\* vector is never that of another run, point, shim, blueprint or benchmark.
THEOREM OwnCell == Spec => EachCellOnce
<1>1. ASSUME Inv, Progress, Next
      PROVE  MeasurementEnds => results' # results
  BY <1>1, ProgressStep
<1>2. Inv /\ Progress /\ [Next]_vars
        => [MeasurementEnds => results' # results]_vars
  BY <1>1
<1>3. QED  BY Invariance, ProgressInvariance, <1>2, PTL DEF Spec, EachCellOnce

\* When html_out() and csv_out() read results(), every cell of every enabled
\* benchmark was written.
THEOREM AllWritten == Spec => []ResultsComplete
<1>1. ASSUME Inv, Progress, step = "output" PROVE results = AllCells
  <2>1. /\ run = RUN_COUNT - 1 /\ shim = SHIMS /\ blueprint = BLUEPRINTS
        /\ bench = "combined" /\ Written
    BY <1>1 DEF Progress, AtTheEnd
  <2>2. \A id \in enabled, p \in 0 .. Points - 1 : Passed(id, p)
    BY <1>1, <2>1 DEF Passed, BlockNumber
  <2>3. ASSUME NEW s \in 1 .. SHIMS, NEW b \in 1 .. BLUEPRINTS,
               NEW id \in enabled, NEW a \in 0 .. RUN_COUNT * Points - 1
        PROVE  <<s, b, id, a>> \in results
    <3>1. PICK r \in 0 .. RUN_COUNT - 1, p \in 0 .. Points - 1 :
            a = r * Points + p
      <4>1. RUN_COUNT \in Nat /\ Points \in Nat \ {0}
        BY Constants
      <4>2. QED  BY <2>3, <4>1, FlatSplit, Zenon
    <3>2. Before(r, s, b) \/ (r = run /\ s = shim /\ b = blueprint)
      BY <2>1, <3>1, Constants DEF Before
    <3>3. <<s, b, id, r * Points + p>> \in results
      BY <2>1, <2>2, <3>2 DEF Written
    <3>4. QED  BY <3>1, <3>3
  <2>4. AllCells \subseteq results
    BY <2>3 DEF AllCells
  <2>5. QED  BY <1>1, <2>4 DEF Inv, TypeOK
<1>2. Inv /\ Progress => ResultsComplete
  BY <1>1 DEF ResultsComplete
<1>3. QED  BY Invariance, ProgressInvariance, <1>2, PTL
=============================================================================
